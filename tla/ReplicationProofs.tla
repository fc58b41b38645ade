--------------------------- MODULE ReplicationProofs ---------------------------
(***************************************************************************)
(* The registers converge, for every set of replicas, keys and values and  *)
(* every bound on timestamps.                                              *)
(***************************************************************************)
EXTENDS Replication, TLAPS

\* An entry is the record of two numbers.
LEMMA EntryFields ==
    \A e \in Entries : e.ts \in Int /\ e.value \in Int /\ e = [ts |-> e.ts, value |-> e.value]
  <1> SUFFICES ASSUME NEW e \in Entries
               PROVE  e.ts \in Int /\ e.value \in Int /\ e = [ts |-> e.ts, value |-> e.value]
    OBVIOUS
  <1>1. CASE e = Absent
    BY <1>1 DEF Absent, None
  <1>2. CASE e \in [ts : Nat, value : Values]
    <2>1. e.ts \in Nat /\ e.value \in Values
      BY <1>2
    <2>2. e = [ts |-> e.ts, value |-> e.value]
      BY <1>2
    <2>3. QED
      BY <2>1, <2>2, ValuesAssumption
  <1>3. QED
    BY <1>1, <1>2 DEF Entries

\* The order of writes is total and antisymmetric on what registers hold.
LEMMA AtMostOrder ==
    \A x, y, z \in Entries :
        /\ AtMost(x, x)
        /\ AtMost(x, y) \/ AtMost(y, x)
        /\ AtMost(x, y) /\ AtMost(y, x) => x = y
        /\ AtMost(x, y) /\ AtMost(y, z) => AtMost(x, z)
  <1> SUFFICES ASSUME NEW x \in Entries, NEW y \in Entries, NEW z \in Entries
               PROVE  /\ AtMost(x, x)
                      /\ AtMost(x, y) \/ AtMost(y, x)
                      /\ AtMost(x, y) /\ AtMost(y, x) => x = y
                      /\ AtMost(x, y) /\ AtMost(y, z) => AtMost(x, z)
    OBVIOUS
  <1>1. \A e \in Entries : e.ts \in Int /\ e.value \in Int /\ e = [ts |-> e.ts, value |-> e.value]
    BY EntryFields
  <1>2. QED
    BY <1>1 DEF AtMost

\* apply_register keeps the greater of the entry and the write.
LEMMA ApplyKeepsGreater ==
    ASSUME NEW state \in Registers, NEW op \in RegisterOp
    PROVE  /\ apply_register(state, op) \in Registers
           /\ \A k \in Keys : apply_register(state, op)[k] =
                IF k # op.key \/ AtMost(Written(op), state[k]) THEN state[k] ELSE Written(op)
  <1>1. Written(op) \in Entries /\ op.key \in Keys /\ state[op.key] \in Entries
    BY DEF Registers, RegisterOp, Written, Entries
  <1>2. /\ op.ts \in Int /\ op.value \in Int
        /\ state[op.key].ts \in Int /\ state[op.key].value \in Int
    BY <1>1, EntryFields, ValuesAssumption DEF RegisterOp
  <1>3. Ignored(state[op.key], op) <=> AtMost(Written(op), state[op.key])
    BY <1>2 DEF Ignored, AtMost, Written
  <1>4. apply_register(state, op) \in Registers
    BY <1>1 DEF apply_register, Registers
  <1>5. QED
    BY <1>1, <1>3, <1>4 DEF apply_register, Registers

\* What assert_crdt_commutative checks for samples holds of every state and
\* every two ops: the order they are applied in does not show.
THEOREM ApplyCommutes ==
    \A state \in Registers : \A a, b \in RegisterOp : Commutative(state, a, b)
  <1> SUFFICES ASSUME NEW state \in Registers, NEW a \in RegisterOp, NEW b \in RegisterOp
               PROVE  Commutative(state, a, b)
    OBVIOUS
  <1> DEFINE sa  == apply_register(state, a)
             sb  == apply_register(state, b)
             sab == apply_register(sa, b)
             sba == apply_register(sb, a)
  <1>1. /\ sa \in Registers /\ sb \in Registers
        /\ sab \in Registers /\ sba \in Registers
    BY ApplyKeepsGreater
  <1>2. Written(a) \in Entries /\ Written(b) \in Entries /\ a.key \in Keys /\ b.key \in Keys
    BY DEF RegisterOp, Written, Entries
  <1>3. ASSUME NEW k \in Keys PROVE sab[k] = sba[k]
    <2>1. state[k] \in Entries
      BY DEF Registers
    <2>2. sa[k] = IF k # a.key \/ AtMost(Written(a), state[k]) THEN state[k] ELSE Written(a)
      BY <1>3, ApplyKeepsGreater
    <2>3. sb[k] = IF k # b.key \/ AtMost(Written(b), state[k]) THEN state[k] ELSE Written(b)
      BY <1>3, ApplyKeepsGreater
    <2>4. sab[k] = IF k # b.key \/ AtMost(Written(b), sa[k]) THEN sa[k] ELSE Written(b)
      BY <1>1, <1>3, ApplyKeepsGreater
    <2>5. sba[k] = IF k # a.key \/ AtMost(Written(a), sb[k]) THEN sb[k] ELSE Written(a)
      BY <1>1, <1>3, ApplyKeepsGreater
    <2> HIDE DEF sa, sb, sab, sba
    <2>6. QED
      BY <2>1, <2>2, <2>3, <2>4, <2>5, <1>2, AtMostOrder
  <1>4. QED
    BY <1>1, <1>3 DEF Commutative, Registers

\* What assert_crdt_idempotent checks: a repeated delivery does not show.
THEOREM ApplyIdempotent ==
    \A state \in Registers : \A op \in RegisterOp : Idempotent(state, op)
  <1> SUFFICES ASSUME NEW state \in Registers, NEW op \in RegisterOp
               PROVE  Idempotent(state, op)
    OBVIOUS
  <1> DEFINE once == apply_register(state, op)
  <1>1. once \in Registers /\ apply_register(once, op) \in Registers
    BY ApplyKeepsGreater
  <1>2. Written(op) \in Entries /\ op.key \in Keys
    BY DEF RegisterOp, Written, Entries
  <1>3. ASSUME NEW k \in Keys PROVE apply_register(once, op)[k] = once[k]
    <2>1. once[k] = IF k # op.key \/ AtMost(Written(op), state[k]) THEN state[k] ELSE Written(op)
      BY <1>3, ApplyKeepsGreater
    <2>2. apply_register(once, op)[k]
            = IF k # op.key \/ AtMost(Written(op), once[k]) THEN once[k] ELSE Written(op)
      BY <1>1, <1>3, ApplyKeepsGreater
    <2> HIDE DEF once
    <2>3. QED
      BY <2>1, <2>2, <1>2, AtMostOrder
  <1>4. QED
    BY <1>1, <1>3 DEF Idempotent, Registers

-----------------------------------------------------------------------------
(* The invariants.  StateIsWinner is inductive together with the types; the *)
(* op a step applies joins the writes its register is the greatest of.      *)

LEMMA OpsAreRegisterOps == Ops \subseteq RegisterOp
  BY ReplicationAssumption DEF Ops, RegisterOp

LEMMA InitTypes == Init => TypeOK
  BY ReplicationAssumption DEF Init, TypeOK, Default, Registers, Entries

LEMMA ApplyTypes ==
    ASSUME TypeOK, NEW r \in Replicas, NEW op \in Ops, Apply(r, op)
    PROVE  /\ regs' \in [Replicas -> Registers]
           /\ applied' \in [Replicas -> SUBSET Ops]
  <1>1. apply_register(regs[r], op) \in Registers
    BY ApplyKeepsGreater, OpsAreRegisterOps DEF TypeOK
  <1>2. QED
    BY <1>1 DEF TypeOK, Apply

LEMMA NextTypes == TypeOK /\ [Next]_vars => TypeOK'
  <1> SUFFICES ASSUME TypeOK, [Next]_vars PROVE TypeOK'
    OBVIOUS
  <1>1. ASSUME NEW r \in Replicas, NEW op \in Ops, Mutate(r, op) PROVE TypeOK'
    <2>1. clock' \in [Replicas -> 0 .. MaxTs + 1]
      BY <1>1, ReplicationAssumption DEF TypeOK, Mutate, Ops
    <2>2. transit' \subseteq [to : Replicas, op : Ops] /\ issued' \in [Replicas -> SUBSET Ops]
      BY <1>1 DEF TypeOK, Mutate
    <2>3. QED
      BY <2>1, <2>2, <1>1, ApplyTypes DEF TypeOK, Mutate
  <1>2. ASSUME NEW r \in Replicas, NEW op \in Ops, Receive(r, op) PROVE TypeOK'
    BY <1>2, ApplyTypes DEF TypeOK, Receive
  <1>3. ASSUME NEW r \in Replicas, NEW op \in Ops, SendAgain(r, op) PROVE TypeOK'
    BY <1>3 DEF TypeOK, SendAgain
  <1>4. ASSUME NEW m \in transit, Drop(m) PROVE TypeOK'
    BY <1>4 DEF TypeOK, Drop
  <1>5. CASE UNCHANGED vars
    BY <1>5 DEF TypeOK, vars
  <1>6. QED
    BY <1>1, <1>2, <1>3, <1>4, <1>5 DEF Next

\* The types are kept by every step, for any replicas, keys and values.
THEOREM TypeCorrect == Spec => []TypeOK
  BY InitTypes, NextTypes, PTL DEF Spec

\* Applying an op keeps a register the greatest of the writes it has seen.
LEMMA ApplyKeepsWinner ==
    ASSUME TypeOK, StateIsWinner, NEW r \in Replicas, NEW op \in Ops, Apply(r, op)
    PROVE  StateIsWinner'
  <1> SUFFICES ASSUME NEW q \in Replicas, NEW k \in Keys
               PROVE  /\ regs'[q][k] \in Writes(applied'[q], k) \cup {Absent}
                      /\ \A w \in Writes(applied'[q], k) : AtMost(w, regs'[q][k])
    BY DEF StateIsWinner
  <1>1. CASE q # r
    <2>1. regs'[q] = regs[q] /\ applied'[q] = applied[q]
      BY <1>1 DEF Apply, TypeOK
    <2>2. QED
      BY <2>1 DEF StateIsWinner
  <1>2. CASE q = r
    <2> DEFINE old == regs[r][k]
               new == regs'[r][k]
    <2>1. /\ regs[r] \in Registers /\ op \in RegisterOp
          /\ regs'[r] = apply_register(regs[r], op)
          /\ applied'[r] = applied[r] \cup {op}
      BY OpsAreRegisterOps DEF Apply, TypeOK
    <2>2. new = IF k # op.key \/ AtMost(Written(op), old) THEN old ELSE Written(op)
      BY <2>1, ApplyKeepsGreater
    <2>3. /\ old \in Writes(applied[r], k) \cup {Absent}
          /\ \A w \in Writes(applied[r], k) : AtMost(w, old)
      BY DEF StateIsWinner
    <2>4. Writes(applied'[r], k) = Writes(applied[r], k)
                                     \cup (IF op.key = k THEN {Written(op)} ELSE {})
      BY <2>1 DEF Writes
    <2>5. old \in Entries /\ Written(op) \in Entries
      BY <2>1 DEF Registers, RegisterOp, Written, Entries
    <2>6. Writes(applied[r], k) \subseteq Entries
      BY OpsAreRegisterOps DEF TypeOK, Writes, RegisterOp, Written, Entries
    <2> HIDE DEF old, new
    <2>7. new \in Writes(applied'[r], k) \cup {Absent}
      BY <2>2, <2>3, <2>4
    <2>8. \A w \in Writes(applied'[r], k) : AtMost(w, new)
      BY <2>2, <2>3, <2>4, <2>5, <2>6, AtMostOrder
    <2>9. QED
      BY <2>7, <2>8, <1>2 DEF new
  <1>3. QED
    BY <1>1, <1>2

LEMMA InitWinner == Init => StateIsWinner
  BY DEF Init, StateIsWinner, Default, Writes

LEMMA NextWinner == TypeOK /\ StateIsWinner /\ [Next]_vars => StateIsWinner'
  <1> SUFFICES ASSUME TypeOK, StateIsWinner, [Next]_vars PROVE StateIsWinner'
    OBVIOUS
  <1>1. ASSUME NEW r \in Replicas, NEW op \in Ops, Mutate(r, op) \/ Receive(r, op)
        PROVE  StateIsWinner'
    BY <1>1, ApplyKeepsWinner DEF Mutate, Receive
  <1>2. ASSUME UNCHANGED <<regs, applied>> PROVE StateIsWinner'
    BY <1>2 DEF StateIsWinner
  <1>3. ASSUME NEW r \in Replicas, NEW op \in Ops, SendAgain(r, op) PROVE StateIsWinner'
    BY <1>3, <1>2 DEF SendAgain
  <1>4. ASSUME NEW m \in transit, Drop(m) PROVE StateIsWinner'
    BY <1>4, <1>2 DEF Drop
  <1>5. CASE UNCHANGED vars
    BY <1>5, <1>2 DEF vars
  <1>6. QED
    BY <1>1, <1>3, <1>4, <1>5 DEF Next

\* A register is a pure function of the set of ops its replica has applied:
\* the greatest write among them, whatever the link did to their order.
THEOREM StateIsFunctionOfOps == Spec => []StateIsWinner
  BY InitTypes, NextTypes, InitWinner, NextWinner, PTL DEF Spec

\* The greatest write of a set of ops is unique.
LEMMA WinnerConverges == TypeOK /\ StateIsWinner => Convergence
  <1> SUFFICES ASSUME TypeOK, StateIsWinner, NEW r \in Replicas, NEW q \in Replicas,
                      applied[r] = applied[q]
               PROVE  regs[r] = regs[q]
    BY DEF Convergence
  <1>1. regs[r] \in Registers /\ regs[q] \in Registers
    BY DEF TypeOK
  <1>2. ASSUME NEW k \in Keys PROVE regs[r][k] = regs[q][k]
    <2> DEFINE x == regs[r][k]
               y == regs[q][k]
               W == Writes(applied[r], k)
    <2>1. x \in Entries /\ y \in Entries
      BY <1>1 DEF Registers
    <2>2. /\ x \in W \cup {Absent} /\ \A w \in W : AtMost(w, x)
          /\ y \in W \cup {Absent} /\ \A w \in W : AtMost(w, y)
      BY DEF StateIsWinner
    <2>3. AtMost(Absent, x) /\ AtMost(Absent, y)
      BY <2>1, EntryFields, ValuesAssumption DEF AtMost, Absent, Entries, None
    <2> HIDE DEF x, y, W
    <2>4. AtMost(x, y) /\ AtMost(y, x)
      BY <2>2, <2>3
    <2>5. x = y
      BY <2>1, <2>4, AtMostOrder
    <2>6. QED
      BY <2>5 DEF x, y
  <1>3. QED
    BY <1>1, <1>2 DEF Registers

\* Strong convergence: replicas that have applied the same set of ops are in
\* the same state, whatever was dropped, repeated and reordered on the way.
THEOREM ReplicasConverge == Spec => []Convergence
  <1>1. Init => TypeOK /\ StateIsWinner
    BY InitTypes, InitWinner
  <1>2. TypeOK /\ StateIsWinner /\ [Next]_vars => (TypeOK /\ StateIsWinner)'
    BY NextTypes, NextWinner
  <1>3. QED
    BY <1>1, <1>2, WinnerConverges, PTL DEF Spec

\* No register goes back to an older write: an action property, from the types.
THEOREM RegistersNeverRegress == Spec => NoRegress
  <1>1. ASSUME TypeOK, [Next]_vars, NEW q \in Replicas, NEW k \in Keys
        PROVE  AtMost(regs[q][k], regs'[q][k])
    <2>0. regs[q] \in Registers /\ regs[q][k] \in Entries
      BY <1>1 DEF TypeOK, Registers
    <2>1. ASSUME NEW r \in Replicas, NEW op \in Ops, Apply(r, op)
          PROVE  AtMost(regs[q][k], regs'[q][k])
      <3>1. CASE q = r
        <4>1. regs'[q] = apply_register(regs[q], op) /\ op \in RegisterOp
          BY <1>1, <2>1, <3>1, OpsAreRegisterOps DEF Apply, TypeOK
        <4>2. Written(op) \in Entries
          BY <4>1 DEF RegisterOp, Written, Entries
        <4>3. regs'[q][k] = IF k # op.key \/ AtMost(Written(op), regs[q][k])
                            THEN regs[q][k] ELSE Written(op)
          BY <1>1, <2>0, <4>1, ApplyKeepsGreater
        <4>4. QED
          BY <2>0, <4>2, <4>3, AtMostOrder
      <3>2. CASE q # r
        <4>1. regs'[q] = regs[q]
          BY <1>1, <2>1, <3>2 DEF Apply, TypeOK
        <4>2. QED
          BY <4>1, <2>0, AtMostOrder
      <3>3. QED
        BY <3>1, <3>2
    <2>2. ASSUME UNCHANGED regs PROVE AtMost(regs[q][k], regs'[q][k])
      BY <2>0, <2>2, AtMostOrder
    <2>3. QED
      BY <1>1, <2>1, <2>2 DEF Next, vars, Mutate, Receive, SendAgain, Drop
  <1>2. TypeOK /\ [Next]_vars
           => [\A r \in Replicas, k \in Keys : AtMost(regs[r][k], regs'[r][k])]_vars
    BY <1>1
  <1>3. QED
    BY <1>2, InitTypes, NextTypes, PTL DEF Spec, NoRegress

=============================================================================
