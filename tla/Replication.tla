------------------------------ MODULE Replication ------------------------------
(***************************************************************************)
(* What crdt.rs promises a program under test: replicas that keep their    *)
(* state in the registers apply each op when they make it, send it to the  *)
(* others and apply what they receive.  The replicas are that program, not *)
(* code of this repository, whose own test                                 *)
(* (crdt_replication_over_impaired_link in tests/mock_hardware.rs) sends   *)
(* opaque bytes one way.  Of the MockNetwork between them only this        *)
(* matters: it delivers in any order, may drop, and does not deduplicate   *)
(* what is sent again (assert_crdt_idempotent: "deliveries are not       *)
(* deduplicated by the network layer").  Nothing has to be sent again, so  *)
(* nothing is said of replicas becoming equal, only of those that have     *)
(* applied the same ops.                                                   *)
(***************************************************************************)
EXTENDS Crdt

CONSTANTS
    Replicas,
    MaxTs           \* bound: timestamps

ASSUME ReplicationAssumption == MaxTs \in Nat

VARIABLES
    regs,           \* the state of each replica
    clock,          \* the timestamp each replica will use next
    transit,        \* messages on their way, with their destination
    applied,        \* history: the ops each replica has applied
    issued          \* history: the ops each replica is the source of

vars == <<regs, clock, transit, applied, issued>>

Ops == [key : Keys, ts : 0 .. MaxTs, value : Values]

Init ==
    /\ regs = [r \in Replicas |-> Default]
    /\ clock = [r \in Replicas |-> 0]
    /\ transit = {}
    /\ applied = [r \in Replicas |-> {}]
    /\ issued = [r \in Replicas |-> {}]

Apply(r, op) ==
    /\ regs' = [regs EXCEPT ![r] = apply_register(@, op)]
    /\ applied' = [applied EXCEPT ![r] = @ \cup {op}]

\* Timestamps are monotonic per replica only: two replicas may use the same.
Mutate(r, op) ==
    /\ clock[r] <= op.ts
    /\ Apply(r, op)
    /\ clock' = [clock EXCEPT ![r] = op.ts + 1]
    /\ transit' = transit \cup {[to |-> q, op |-> op] : q \in Replicas \ {r}}
    /\ issued' = [issued EXCEPT ![r] = @ \cup {op}]

Receive(r, op) ==
    /\ [to |-> r, op |-> op] \in transit
    /\ transit' = transit \ {[to |-> r, op |-> op]}
    /\ Apply(r, op)
    /\ UNCHANGED <<clock, issued>>

Drop(m) ==
    /\ transit' = transit \ {m}
    /\ UNCHANGED <<regs, clock, applied, issued>>

SendAgain(r, op) ==
    /\ op \in issued[r]
    /\ \E q \in Replicas \ {r} : transit' = transit \cup {[to |-> q, op |-> op]}
    /\ UNCHANGED <<regs, clock, applied, issued>>

Next ==
    \/ \E r \in Replicas, op \in Ops : Mutate(r, op) \/ Receive(r, op) \/ SendAgain(r, op)
    \/ \E m \in transit : Drop(m)

Spec == Init /\ [][Next]_vars

-----------------------------------------------------------------------------
(* Properties *)

TypeOK ==
    /\ regs \in [Replicas -> Registers]
    /\ clock \in [Replicas -> 0 .. MaxTs + 1]
    /\ transit \subseteq [to : Replicas, op : Ops]
    /\ applied \in [Replicas -> SUBSET Ops]
    /\ issued \in [Replicas -> SUBSET Ops]

\* The order writes win by: timestamp, then value.
AtMost(x, y) == x.ts < y.ts \/ (x.ts = y.ts /\ x.value <= y.value)

Writes(ops, k) == {Written(op) : op \in {o \in ops : o.key = k}}

\* "the final state is a pure function of the op set": a register holds the
\* greatest of the writes its replica has applied, in whatever order and
\* however often they came.
StateIsWinner ==
    \A r \in Replicas, k \in Keys :
        /\ regs[r][k] \in Writes(applied[r], k) \cup {Absent}
        /\ \A w \in Writes(applied[r], k) : AtMost(w, regs[r][k])

\* Two replicas that have applied the same ops are in the same state.
Convergence ==
    \A r, q \in Replicas : applied[r] = applied[q] => regs[r] = regs[q]

\* No step takes a register back to an older write.
NoRegress ==
    [][\A r \in Replicas, k \in Keys : AtMost(regs[r][k], regs'[r][k])]_vars

=============================================================================
