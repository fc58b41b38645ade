--------------------------------- MODULE Crdt ---------------------------------
(***************************************************************************)
(* The last-write-wins registers of tpt-av-test-fuzz/src/crdt.rs.          *)
(* A value is its rank in the order of Option<String>, None being 0; a key *)
(* that is not in the map is the Absent entry.                             *)
(***************************************************************************)
EXTENDS Integers

CONSTANTS
    Keys,
    Values          \* with None

None == 0

ASSUME ValuesAssumption == Values \subseteq Nat /\ None \in Values

Absent    == [ts |-> -1, value |-> None]
Entries   == [ts : Nat, value : Values] \cup {Absent}
Registers == [Keys -> Entries]

RegisterOp == [key : Keys, ts : Nat, value : Values]

Default == [k \in Keys |-> Absent]

\* The entry an op writes.
Written(op) == [ts |-> op.ts, value |-> op.value]

\* Mutant of Ignored: of two writes with one timestamp the last to come wins.
IgnoredOnlyOlder(current, op) == op.ts < current.ts

\* Mutant of Ignored: of two writes with one timestamp the first to come wins.
IgnoredOnTie(current, op) == op.ts <= current.ts

\* Mutant of Ignored: only ties are looked at.
IgnoredOnlyTies(current, op) == op.ts = current.ts /\ current.value >= op.value

\* An older write, or on equal timestamps one that is not of a greater value.
Ignored(current, op) ==
    \/ op.ts < current.ts
    \/ op.ts = current.ts /\ current.value >= op.value

apply_register(state, op) ==
    IF Ignored(state[op.key], op) THEN state
    ELSE [state EXCEPT ![op.key] = Written(op)]

\* assert_crdt_commutative and assert_crdt_idempotent on these registers.
Commutative(state, a, b) ==
    apply_register(apply_register(state, a), b) = apply_register(apply_register(state, b), a)

Idempotent(state, op) ==
    apply_register(apply_register(state, op), op) = apply_register(state, op)

=============================================================================
