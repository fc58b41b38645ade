----------------------------- MODULE AllocTracker -----------------------------
(***************************************************************************)
(* The counting allocator and its guards:                                  *)
(*   tpt-av-test-benchmark/src/allocation_tracker.rs  (thread counters,    *)
(*       AllocationTracker, the GlobalAlloc hooks),                        *)
(*   tpt-av-test-benchmark/src/macros.rs              (the block gate),    *)
(*   tpt-av-test-macros/src/lib.rs                    (the function gate). *)
(*                                                                         *)
(* A thread is a stack of live guards plus, possibly, a panic on its way   *)
(* up, and then the destructors of what it unwinds run code too.  A guard  *)
(* is one of                                                               *)
(*   "scope"  an AllocationTracker of the program's own, strict or not;    *)
(*   "macro"  the tracker inside assert_real_time_safe!;                   *)
(*   "attr"   the tracker inside a #[bench_real_time] function.            *)
(* Byte counts follow the allocation counts and are left out.              *)
(***************************************************************************)
EXTENDS Naturals, Sequences, FiniteSets, Functions

CONSTANTS
    Threads,
    MaxGuards,      \* bound: live guards
    MaxAllocs,      \* bound: allocations counted
    MaxDeallocs     \* bound: deallocations counted

ASSUME BoundsAssumption ==
    MaxGuards \in Nat /\ MaxAllocs \in Nat /\ MaxDeallocs \in Nat

\* A process has finitely many threads at a time.
ASSUME ThreadsAssumption == IsFiniteSet(Threads)

VARIABLES
    depth, allocations, deallocations,  \* the thread-local SCOPE
    global,         \* GLOBAL_ALLOCATIONS
    adding,         \* between the thread-local and the global increment
    guards,         \* live guards, innermost last
    panic,          \* payload of the panic unwinding the thread, or "none"
    aborted,        \* a panic left a destructor while another was unwinding
    last            \* history: the verdict on the guard that went away in this step

tls  == <<depth, allocations, deallocations>>
vars == <<tls, global, adding, guards, panic, aborted, last>>

Kinds    == {"scope", "macro", "attr"}
Payloads == {"user", "violation", "budget"}
NoEnd    == [late |-> FALSE, dirty |-> FALSE, out |-> "none"]

\* late: made by a destructor while the thread unwinds.  real is history: the
\* allocations the thread made since the guard was made.
Guard == [kind : Kinds, strict : BOOLEAN, late : BOOLEAN, snapshot : Nat, real : Nat]

Init ==
    /\ depth = [t \in Threads |-> 0]
    /\ allocations = [t \in Threads |-> 0]
    /\ deallocations = [t \in Threads |-> 0]
    /\ global = 0
    /\ adding = [t \in Threads |-> FALSE]
    /\ guards = [t \in Threads |-> <<>>]
    /\ panic = [t \in Threads |-> "none"]
    /\ aborted = FALSE
    /\ last = NoEnd

Active(t)  == ~aborted /\ ~adding[t]
Running(t) == Active(t) /\ panic[t] = "none"
Top(t)     == guards[t][Len(guards[t])]

\* A destructor under way owns the late guards, the rest of the program those
\* that are not.
Owned(t, i)     == guards[t][i].late = (panic[t] # "none")
InDestructor(t) == guards[t] # <<>> /\ Top(t).late

AllocBound   == SumFunction(allocations) < MaxAllocs
DeallocBound == SumFunction(deallocations) < MaxDeallocs
GuardBound   == FoldFunction(LAMBDA s, n : n + Len(s), 0, guards) < MaxGuards

-----------------------------------------------------------------------------
(* The allocator hooks: counted only while the thread's depth is not zero. *)

\* History: every live guard has seen one more allocation.
OneMore(s) == [i \in DOMAIN s |-> [s[i] EXCEPT !.real = @ + 1]]

\* record_alloc's thread-local half; the allocation happened in any case.
RecordAlloc(t) ==
    /\ guards' = [guards EXCEPT ![t] = OneMore(@)]
    /\ IF depth[t] > 0
       THEN /\ allocations' = [allocations EXCEPT ![t] = @ + 1]
            /\ adding' = [adding EXCEPT ![t] = TRUE]
       ELSE UNCHANGED <<allocations, adding>>

RecordDealloc(t) ==
    deallocations' = IF depth[t] > 0
                     THEN [deallocations EXCEPT ![t] = @ + 1]
                     ELSE deallocations

Alloc(t) ==
    /\ Running(t)
    /\ AllocBound
    /\ RecordAlloc(t)
    /\ last' = NoEnd
    /\ UNCHANGED <<depth, deallocations, global, panic, aborted>>

Dealloc(t) ==
    /\ Active(t)
    /\ DeallocBound
    /\ RecordDealloc(t)
    /\ last' = NoEnd
    /\ UNCHANGED <<depth, allocations, global, adding, guards, panic, aborted>>

\* Mutant of Realloc: growing in place is taken to be no allocation.
ReallocUncounted(t) ==
    /\ Running(t)
    /\ AllocBound
    /\ DeallocBound
    /\ guards' = [guards EXCEPT ![t] = OneMore(@)]
    /\ last' = NoEnd
    /\ UNCHANGED <<tls, adding, global, panic, aborted>>

Realloc(t) ==
    /\ Running(t)
    /\ AllocBound
    /\ DeallocBound
    /\ RecordDealloc(t)
    /\ RecordAlloc(t)
    /\ last' = NoEnd
    /\ UNCHANGED <<depth, global, panic, aborted>>

\* Mutant of AddGlobal: a load and a store, so a concurrent one is lost.
AddGlobalRacy(t) ==
    /\ ~aborted /\ adding[t]
    /\ global' = IF \E u \in Threads \ {t} : adding[u] THEN global ELSE global + 1
    /\ adding' = [adding EXCEPT ![t] = FALSE]
    /\ last' = NoEnd
    /\ UNCHANGED <<tls, guards, panic, aborted>>

\* record_alloc's fetch_add on the process-wide counter.
AddGlobal(t) ==
    /\ ~aborted /\ adding[t]
    /\ global' = global + 1
    /\ adding' = [adding EXCEPT ![t] = FALSE]
    /\ last' = NoEnd
    /\ UNCHANGED <<tls, guards, panic, aborted>>

-----------------------------------------------------------------------------
(* Guards *)

\* AllocationTracker::get_allocation_count, saturating at zero.
Observed(t, g) ==
    IF allocations[t] >= g.snapshot THEN allocations[t] - g.snapshot ELSE 0

\* AllocationTracker::new, alone or as the first statement of a gate.
Enter(t, kind, strict) ==
    /\ Active(t)
    /\ GuardBound
    /\ kind # "scope" => strict
    /\ depth' = [depth EXCEPT ![t] = @ + 1]
    /\ guards' = [guards EXCEPT ![t] = Append(@,
            [kind |-> kind, strict |-> strict, late |-> panic[t] # "none",
             snapshot |-> allocations[t], real |-> 0])]
    /\ last' = NoEnd
    /\ UNCHANGED <<allocations, deallocations, global, adding, panic, aborted>>

\* A panic starts.  In a destructor, while another one unwinds, it is caught in
\* there or aborts the process.
Raise(t, payload) ==
    IF panic[t] = "none"
    THEN panic' = [panic EXCEPT ![t] = payload] /\ UNCHANGED aborted
    ELSE aborted' \in {aborted, TRUE} /\ UNCHANGED panic

\* The guards but number i, in order.
Without(s, i) == SubSeq(s, 1, i - 1) \o SubSeq(s, i + 1, Len(s))

\* Mutant of Release: leaving any scope switches counting off.
ReleaseAll(t, i) ==
    /\ depth' = [depth EXCEPT ![t] = 0]
    /\ guards' = [guards EXCEPT ![t] = Without(@, i)]

\* Guard i goes away: the depth drops by one.
Release(t, i) ==
    /\ depth' = [depth EXCEPT ![t] = IF @ > 0 THEN @ - 1 ELSE 0]
    /\ guards' = [guards EXCEPT ![t] = Without(@, i)]

\* Mutant of DropPanics: a strict guard panics even while the thread unwinds.
DropPanicsAlways(t, i) ==
    LET g == guards[t][i] IN g.strict /\ Observed(t, g) > 0

\* Whether the Drop of guard i panics: strict, dirty, and not yet unwinding.
DropPanics(t, i) ==
    LET g == guards[t][i]
    IN  g.strict /\ Observed(t, g) > 0 /\ panic[t] = "none"

\* Ends at which a guard has to speak: a gate's that ran all the way, and a
\* strict tracker's while its thread is not unwinding.
Judged(t, i, how) ==
    LET g == guards[t][i]
    IN  how = "return" /\ (g.kind = "scope" => g.strict /\ ~g.late)

\* History: guard i ended how, and out is what it reported.
Ended(t, i, how, out) ==
    LET g == guards[t][i] IN
    last' = IF Judged(t, i, how)
            THEN [late |-> g.late, dirty |-> g.real > 0, out |-> out]
            ELSE NoEnd

Drop(t, i, how) ==
    /\ Release(t, i)
    /\ IF DropPanics(t, i)
       THEN Raise(t, "violation") /\ Ended(t, i, how, "violation")
       ELSE UNCHANGED <<panic, aborted>> /\ Ended(t, i, how, "none")
    /\ UNCHANGED <<allocations, deallocations, global, adding>>

\* The program drops one of its own guards, not necessarily the innermost.
DropScope(t, i) ==
    /\ Active(t)
    /\ i \in DOMAIN guards[t]
    /\ Owned(t, i)
    /\ guards[t][i].kind = "scope"
    /\ \A j \in DOMAIN guards[t] : j > i => guards[t][j].kind = "scope"
    /\ Drop(t, i, "return")

\* The gate asserts with its tracker still live; the panic goes through the
\* tracker's Drop, which is quiet then, before anybody can catch it.
GateFails(t, payload) ==
    LET n == Len(guards[t]) IN
    /\ Raise(t, payload)
    /\ Release(t, n)
    /\ Ended(t, n, "return", payload)
    /\ UNCHANGED <<allocations, deallocations, global, adding>>

\* Mutant of GateReturns: nobody reads the count on the way out.
GateReturnsUnchecked(t) ==
    LET n == Len(guards[t]) IN
    /\ Active(t)
    /\ n > 0 /\ Owned(t, n)
    /\ guards[t][n].kind # "scope"
    /\ Release(t, n)
    /\ Ended(t, n, "return", "none")
    /\ UNCHANGED <<allocations, deallocations, global, adding, panic, aborted>>

\* The body of a gate runs to its end: the count is asserted to be zero, and
\* a budgeted function gate checks the clock before that.  Neither looks whether
\* the thread is unwinding.
GateReturns(t) ==
    LET n == Len(guards[t]) IN
    /\ Active(t)
    /\ n > 0 /\ Owned(t, n)
    /\ guards[t][n].kind # "scope"
    /\ \/ guards[t][n].kind = "attr" /\ GateFails(t, "budget")
       \/ Observed(t, Top(t)) > 0 /\ GateFails(t, "violation")
       \/ Observed(t, Top(t)) = 0 /\ Drop(t, n, "return")

\* `return` or `?` in a #[bench_real_time] body leaves before the assertions;
\* the tracker is dropped all the same.
EarlyExit(t) ==
    /\ Active(t)
    /\ Len(guards[t]) > 0 /\ Owned(t, Len(guards[t]))
    /\ Top(t).kind = "attr"
    /\ Drop(t, Len(guards[t]), "early")

-----------------------------------------------------------------------------
(* Panics *)

UserPanic(t) ==
    /\ Running(t)
    /\ Raise(t, "user")
    /\ last' = NoEnd
    /\ UNCHANGED <<tls, global, adding, guards>>

\* The panic machinery, or a destructor, allocates while a panic is under way.
MachineryAllocates(t) ==
    /\ Active(t)
    /\ panic[t] # "none"
    /\ AllocBound
    /\ RecordAlloc(t)
    /\ last' = NoEnd
    /\ UNCHANGED <<depth, deallocations, global, panic, aborted>>

\* Mutant of Unwind: the block gate reports its count before re-raising.
UnwindReporting(t) ==
    LET n == Len(guards[t]) IN
    /\ Active(t) /\ panic[t] # "none" /\ n > 0 /\ ~Top(t).late
    /\ Release(t, n)
    /\ Ended(t, n, "unwind", "none")
    /\ panic' = [panic EXCEPT ![t] =
           IF guards[t][n].kind = "macro" /\ Observed(t, guards[t][n]) > 0
           THEN "violation" ELSE @]
    /\ UNCHANGED <<allocations, deallocations, global, adding, aborted>>

\* The innermost guard is dropped by the unwinding.  The block gate catches
\* the payload and resumes with the same one, which changes nothing here.
Unwind(t) ==
    /\ Active(t)
    /\ panic[t] # "none"
    /\ Len(guards[t]) > 0
    /\ ~Top(t).late
    /\ Drop(t, Len(guards[t]), "unwind")

\* Code of the program (or the test harness) catches the panic, at any depth.
Catch(t) ==
    /\ Active(t)
    /\ panic[t] # "none"
    /\ ~InDestructor(t)
    /\ panic' = [panic EXCEPT ![t] = "none"]
    /\ last' = NoEnd
    /\ UNCHANGED <<tls, global, adding, guards, aborted>>

Next == \E t \in Threads :
    \/ Alloc(t) \/ Dealloc(t) \/ Realloc(t) \/ AddGlobal(t)
    \/ \E kind \in Kinds, strict \in BOOLEAN : Enter(t, kind, strict)
    \/ \E i \in 1..MaxGuards : DropScope(t, i)
    \/ GateReturns(t) \/ EarlyExit(t)
    \/ UserPanic(t) \/ MachineryAllocates(t) \/ Unwind(t) \/ Catch(t)

Spec == Init /\ [][Next]_vars

-----------------------------------------------------------------------------
(* Properties *)

TypeOK ==
    /\ depth \in [Threads -> Nat]
    /\ allocations \in [Threads -> Nat]
    /\ deallocations \in [Threads -> Nat]
    /\ global \in Nat
    /\ adding \in [Threads -> BOOLEAN]
    /\ guards \in [Threads -> Seq(Guard)]
    /\ panic \in [Threads -> Payloads \cup {"none"}]
    /\ aborted \in BOOLEAN

\* A guard observes exactly the allocations its own thread made during its
\* life, whatever other guards and threads come and go in between.
ExactCounts ==
    \A t \in Threads : \A i \in DOMAIN guards[t] :
        Observed(t, guards[t][i]) = guards[t][i].real

\* Counting is on exactly while some guard lives: no guard dropped out of
\* order or by a panic leaves it on or switches it off.
DepthIsLive == \A t \in Threads : depth[t] = Len(guards[t])

\* How many threads are between the two increments.
Underway(a) == FoldFunction(LAMBDA b, n : IF b THEN n + 1 ELSE n, 0, a)

\* The process-wide counter is the sum over threads, short of the increments
\* still under way.
GlobalIsSum == global + Underway(adding) = SumFunction(allocations)

\* A gate that runs to its end, and a strict guard that is dropped while its
\* thread is not unwinding, report a violation if the thread allocated in it,
\* and only then: nothing hides one, and none reports what an outer scope or
\* another thread did.  (An overrun budget is reported first.)
VerdictIsRight == last.out # "budget" => (last.out = "none" <=> ~last.dirty)

\* Dropping a guard, on whatever way out, never raises a second panic.  What
\* can abort the process is a gate that a destructor of an unwinding thread
\* runs to its end, and only if it has something to report.
NoAbort == aborted => last.late /\ (last.dirty \/ last.out = "budget")

\* A panic of the code under test reaches its catcher unchanged, whatever was
\* allocated on the way.
PanicUnchanged ==
    [][\A t \in Threads : panic[t] = "user" => panic'[t] \in {"user", "none"}]_vars

=============================================================================
