----------------------------- MODULE BenchmarkProofs -----------------------------
(***************************************************************************)
(* The benchmark crate: the counting allocator, the statistics over timed  *)
(* callbacks, durations written as text, and the loop that puts the three  *)
(* together.                                                               *)
(*                                                                         *)
(* 1. The guards observe exactly what their thread allocated, for any      *)
(*    number of threads, guards and allocations.  That takes two facts at  *)
(*    once: counting is on while there is a guard (DepthIsLive), so that   *)
(*    no allocation goes uncounted, and each guard's snapshot and history  *)
(*    add up to the thread's counter (Balanced).                           *)
(* 2. A percentile is a nearest rank: the two roundings of its f64 product *)
(*    never pass an integer (SameSide), and sorting moves the samples by a *)
(*    bijection of their positions, so that the k samples sorted first     *)
(*    are k samples at or below the one sorted k-th.                       *)
(* 3. The parser takes the first unit that the trimmed text ends in; the   *)
(*    grammar never ends a text in two units, but for the "s" that ends    *)
(*    them all and is tried last.                                          *)
(* 4. The loop keeps, besides the invariant of 1, a record of its          *)
(*    callbacks: each measured one shows the time and the allocations it   *)
(*    saw itself, and its budget began no earlier than it did (LoopInv).   *)
(***************************************************************************)
EXTENDS AudioBlock, Lemmas

-----------------------------------------------------------------------------
(* 1. The counting allocator *)

Balanced ==
    \A t \in Threads : \A i \in DOMAIN guards[t] :
        allocations[t] = guards[t][i].snapshot + guards[t][i].real

Inv == TypeOK /\ DepthIsLive /\ Balanced

\* A guard that goes away leaves the others, those above it one place lower.
LEMMA WithoutGuards ==
    ASSUME NEW s \in Seq(Guard), NEW i \in DOMAIN s
    PROVE  /\ Without(s, i) \in Seq(Guard)
           /\ Len(Without(s, i)) = Len(s) - 1
           /\ Len(s) > 0
           /\ \A j \in 1 .. Len(s) - 1 :
                  Without(s, i)[j] = s[IF j < i THEN j ELSE j + 1]
  <1> DEFINE a == SubSeq(s, 1, i - 1)
             b == SubSeq(s, i + 1, Len(s))
  <1>1. i \in 1 .. Len(s) /\ Len(s) \in Nat
    OBVIOUS
  <1>2. /\ a \in Seq(Guard) /\ Len(a) = i - 1
        /\ \A j \in 1 .. i - 1 : a[j] = s[j]
    BY <1>1, SubSeqProperties
  <1>3. /\ b \in Seq(Guard) /\ Len(b) = Len(s) - i
        /\ \A j \in 1 .. Len(s) - i : b[j] = s[i + j]
    BY <1>1, SubSeqProperties
  <1>4. Without(s, i) = a \o b
    BY DEF Without
  <1> HIDE DEF a, b
  <1>5. /\ a \o b \in Seq(Guard)
        /\ Len(a \o b) = Len(a) + Len(b)
        /\ \A j \in 1 .. Len(a) + Len(b) :
              (a \o b)[j] = IF j <= Len(a) THEN a[j] ELSE b[j - Len(a)]
    BY <1>2, <1>3, ConcatProperties
  <1>6. Len(a) + Len(b) = Len(s) - 1 /\ Len(s) > 0
    BY <1>1, <1>2, <1>3
  <1>7. ASSUME NEW j \in 1 .. Len(s) - 1
        PROVE  (a \o b)[j] = s[IF j < i THEN j ELSE j + 1]
    <2>1. CASE j < i
      <3>1. j \in 1 .. i - 1 /\ j <= Len(a)
        BY <1>1, <1>2, <2>1
      <3> QED
        BY <1>2, <1>5, <1>6, <2>1, <3>1
    <2>2. CASE ~(j < i)
      <3>1. ~(j <= Len(a)) /\ j - Len(a) \in 1 .. Len(s) - i /\ i + (j - Len(a)) = j + 1
        BY <1>1, <1>2, <2>2
      <3> QED
        BY <1>3, <1>5, <1>6, <2>2, <3>1
    <2> QED
      BY <2>1, <2>2
  <1> QED
    BY <1>4, <1>5, <1>6, <1>7

\* In the other direction: where guard k is when guard i is gone.
LEMMA WithoutAt ==
    ASSUME NEW s \in Seq(Guard), NEW i \in DOMAIN s, NEW k \in DOMAIN s, k # i,
           NEW m, m = IF i < k THEN k - 1 ELSE k
    PROVE  m \in DOMAIN Without(s, i) /\ Without(s, i)[m] = s[k]
  <1>1. i \in 1 .. Len(s) /\ Len(s) \in Nat /\ k \in 1 .. Len(s)
    OBVIOUS
  <1>2. m \in 1 .. Len(s) - 1 /\ k = IF m < i THEN m ELSE m + 1
    BY <1>1
  <1>3. /\ Without(s, i) \in Seq(Guard) /\ Len(Without(s, i)) = Len(s) - 1
        /\ Without(s, i)[m] = s[IF m < i THEN m ELSE m + 1]
    <2>1. /\ Without(s, i) \in Seq(Guard) /\ Len(Without(s, i)) = Len(s) - 1
          /\ \A j \in 1 .. Len(s) - 1 : Without(s, i)[j] = s[IF j < i THEN j ELSE j + 1]
      BY WithoutGuards
    <2> QED
      BY <1>2, <2>1, Zenon
  <1>4. DOMAIN Without(s, i) = 1 .. Len(s) - 1
    BY <1>3
  <1> QED
    BY <1>2, <1>3, <1>4

LEMMA OneMoreGuards ==
    ASSUME NEW s \in Seq(Guard)
    PROVE  /\ OneMore(s) \in Seq(Guard)
           /\ Len(OneMore(s)) = Len(s)
           /\ DOMAIN OneMore(s) = DOMAIN s
           /\ \A i \in DOMAIN s : /\ OneMore(s)[i].snapshot = s[i].snapshot
                                  /\ OneMore(s)[i].real = s[i].real + 1
  <1>1. \A i \in DOMAIN s : s[i] \in Guard
    OBVIOUS
  <1>2. ASSUME NEW i \in DOMAIN s PROVE [s[i] EXCEPT !.real = @ + 1] \in Guard
    <2> DEFINE g == s[i]
    <2>1. g \in Guard
      BY <1>1
    <2> HIDE DEF g
    <2>2. g.real + 1 \in Nat
      BY <2>1 DEF Guard
    <2>3. [g EXCEPT !.real = @ + 1] \in Guard
      BY <2>1, <2>2 DEF Guard
    <2>4. QED
      BY <2>3 DEF g
  <1>3. DOMAIN s = 1 .. Len(s) /\ Len(s) \in Nat
    OBVIOUS
  <1>4. OneMore(s) \in Seq(Guard) /\ Len(OneMore(s)) = Len(s) /\ DOMAIN OneMore(s) = DOMAIN s
    BY <1>2, <1>3 DEF OneMore
  <1>5. QED
    BY <1>1, <1>4 DEF OneMore, Guard

-----------------------------------------------------------------------------
(* What the parts of the actions do to the invariant *)

LEMMA InitInv == Init => Inv
  <1> SUFFICES ASSUME Init PROVE Inv
    OBVIOUS
  <1>1. \A t \in Threads : guards[t] = <<>> /\ Len(guards[t]) = 0 /\ DOMAIN guards[t] = {}
    BY DEF Init
  <1>2. <<>> \in Seq(Guard)
    OBVIOUS
  <1>3. TypeOK
    BY <1>2 DEF Init, TypeOK
  <1>4. DepthIsLive
    BY <1>1 DEF Init, DepthIsLive
  <1>5. Balanced
    BY <1>1 DEF Balanced
  <1>6. QED
    BY <1>3, <1>4, <1>5 DEF Inv

\* An allocation, of the program's or of the panic machinery's.
LEMMA RecordAllocInv ==
    ASSUME Inv, NEW t \in Threads, RecordAlloc(t), depth' = depth, global' = global,
           deallocations' \in [Threads -> Nat],
           panic' = panic, aborted' = aborted
    PROVE  Inv'
  <1> DEFINE s == guards[t]
  <1>1. s \in Seq(Guard) /\ allocations[t] \in Nat /\ depth[t] = Len(s)
    BY DEF Inv, TypeOK, DepthIsLive
  <1>2. guards' = [guards EXCEPT ![t] = OneMore(s)]
    BY DEF RecordAlloc
  <1>3. allocations' = IF depth[t] > 0 THEN [allocations EXCEPT ![t] = @ + 1] ELSE allocations
    BY DEF RecordAlloc
  <1>4. TypeOK'
    <2>1. guards' \in [Threads -> Seq(Guard)]
      BY <1>1, <1>2, OneMoreGuards DEF Inv, TypeOK
    <2>2. allocations' \in [Threads -> Nat]
      BY <1>3 DEF Inv, TypeOK
    <2>3. adding' \in [Threads -> BOOLEAN]
      BY DEF Inv, TypeOK, RecordAlloc
    <2>4. QED
      BY <2>1, <2>2, <2>3 DEF Inv, TypeOK
  <1>5. DepthIsLive'
    <2>1. ASSUME NEW u \in Threads PROVE Len(guards'[u]) = Len(guards[u])
      BY <1>1, <1>2, OneMoreGuards DEF Inv, TypeOK
    <2>2. QED
      BY <2>1 DEF Inv, DepthIsLive
  <1>6. Balanced'
    <2> SUFFICES ASSUME NEW u \in Threads, NEW i \in DOMAIN guards'[u]
                 PROVE  allocations'[u] = guards'[u][i].snapshot + guards'[u][i].real
      BY DEF Balanced
    <2>1. CASE u # t
      <3>1. guards'[u] = guards[u] /\ allocations'[u] = allocations[u]
        BY <2>1, <1>2, <1>3 DEF Inv, TypeOK
      <3>2. QED
        BY <3>1 DEF Inv, Balanced
    <2>2. CASE u = t
      <3>1. guards'[t] = OneMore(s)
        BY <1>2 DEF Inv, TypeOK
      <3>2. i \in DOMAIN s /\ Len(s) > 0
        BY <2>2, <3>1, <1>1, OneMoreGuards
      <3>3. allocations'[t] = allocations[t] + 1
        BY <3>2, <1>1, <1>3 DEF Inv, TypeOK
      <3>4. allocations[t] = s[i].snapshot + s[i].real
        BY <3>2 DEF Inv, Balanced
      <3>5. s[i].snapshot \in Nat /\ s[i].real \in Nat
        <4>1. s[i] \in Guard
          BY <3>2, <1>1
        <4>2. QED
          BY <4>1 DEF Guard
      <3>6. /\ OneMore(s)[i].snapshot = s[i].snapshot
            /\ OneMore(s)[i].real = s[i].real + 1
        BY <1>1, <3>2, OneMoreGuards
      <3> HIDE DEF s
      <3>7. QED
        BY <2>2, <3>1, <3>3, <3>4, <3>5, <3>6
    <2>3. QED
      BY <2>1, <2>2
  <1>7. QED
    BY <1>4, <1>5, <1>6 DEF Inv

\* A guard goes away.
LEMMA ReleaseInv ==
    ASSUME Inv, NEW t \in Threads, NEW i \in DOMAIN guards[t], Release(t, i),
           allocations' = allocations, deallocations' = deallocations,
           global' = global, adding' = adding,
           panic' \in [Threads -> Payloads \cup {"none"}], aborted' \in BOOLEAN
    PROVE  Inv'
  <1> DEFINE s == guards[t]
             w == Without(s, i)
  <1>1. s \in Seq(Guard) /\ depth[t] = Len(s)
    BY DEF Inv, TypeOK, DepthIsLive
  <1>2. /\ w \in Seq(Guard) /\ Len(w) = Len(s) - 1 /\ Len(s) > 0
        /\ \A j \in DOMAIN w : \E k \in DOMAIN s : w[j] = s[k]
    <2>1. /\ w \in Seq(Guard) /\ Len(w) = Len(s) - 1 /\ Len(s) > 0
          /\ \A j \in 1 .. Len(s) - 1 : w[j] = s[IF j < i THEN j ELSE j + 1]
      BY <1>1, WithoutGuards
    <2> HIDE DEF w
    <2>2. DOMAIN w = 1 .. Len(s) - 1 /\ DOMAIN s = 1 .. Len(s) /\ Len(s) \in Nat
      BY <1>1, <2>1
    <2>3. \A j \in 1 .. Len(s) - 1 : (IF j < i THEN j ELSE j + 1) \in 1 .. Len(s)
      BY <2>2
    <2> QED
      BY <2>1, <2>2, <2>3
  <1> HIDE DEF w
  <1>3. guards' = [guards EXCEPT ![t] = w]
    BY DEF Release, w
  <1>4. depth' = [depth EXCEPT ![t] = Len(w)]
    <2>1. Len(s) \in Nat
      BY <1>1
    <2>2. depth' = [depth EXCEPT ![t] = IF depth[t] > 0 THEN depth[t] - 1 ELSE 0]
      BY DEF Release
    <2>3. (IF depth[t] > 0 THEN depth[t] - 1 ELSE 0) = Len(w)
      BY <1>1, <1>2, <2>1
    <2>4. QED
      BY <2>2, <2>3
  <1>5. TypeOK'
    <2>1. guards' \in [Threads -> Seq(Guard)] /\ depth' \in [Threads -> Nat]
      BY <1>2, <1>3, <1>4 DEF Inv, TypeOK
    <2>2. QED
      BY <2>1 DEF Inv, TypeOK
  <1>6. DepthIsLive'
    BY <1>3, <1>4 DEF Inv, TypeOK, DepthIsLive
  <1>7. Balanced'
    <2> SUFFICES ASSUME NEW u \in Threads, NEW j \in DOMAIN guards'[u]
                 PROVE  allocations[u] = guards'[u][j].snapshot + guards'[u][j].real
      BY DEF Balanced
    <2>1. CASE u # t
      BY <2>1, <1>3 DEF Inv, TypeOK, Balanced
    <2>2. CASE u = t
      <3>1. guards'[u] = w
        BY <2>2, <1>3 DEF Inv, TypeOK
      <3>2. PICK k \in DOMAIN s : w[j] = s[k]
        BY <3>1, <1>2
      <3>3. allocations[t] = s[k].snapshot + s[k].real
        BY DEF Inv, Balanced
      <3>4. QED
        BY <2>2, <3>1, <3>2, <3>3
    <2>3. QED
      BY <2>1, <2>2
  <1>8. QED
    BY <1>5, <1>6, <1>7 DEF Inv

LEMMA RaiseTypes ==
    ASSUME TypeOK, NEW t \in Threads, NEW payload \in Payloads, Raise(t, payload)
    PROVE  panic' \in [Threads -> Payloads \cup {"none"}] /\ aborted' \in BOOLEAN
  BY DEF TypeOK, Raise

LEMMA DropInv ==
    ASSUME Inv, NEW t \in Threads, NEW i \in DOMAIN guards[t], NEW how, Drop(t, i, how)
    PROVE  Inv'
  <1>1. panic' \in [Threads -> Payloads \cup {"none"}] /\ aborted' \in BOOLEAN
    <2>1. CASE DropPanics(t, i)
      BY <2>1, RaiseTypes DEF Drop, Inv, Payloads
    <2>2. CASE ~DropPanics(t, i)
      BY <2>2 DEF Drop, Inv, TypeOK
    <2>3. QED
      BY <2>1, <2>2
  <1>2. QED
    BY <1>1, ReleaseInv DEF Drop

\* Steps that touch neither guards nor counters.
LEMMA QuietInv ==
    ASSUME Inv, UNCHANGED <<depth, allocations, guards>>,
           deallocations' \in [Threads -> Nat], global' \in Nat,
           adding' \in [Threads -> BOOLEAN],
           panic' \in [Threads -> Payloads \cup {"none"}], aborted' \in BOOLEAN
    PROVE  Inv'
  BY DEF Inv, TypeOK, DepthIsLive, Balanced

LEMMA EnterInv ==
    ASSUME Inv, NEW t \in Threads, NEW kind \in Kinds, NEW strict \in BOOLEAN,
           Enter(t, kind, strict)
    PROVE  Inv'
  <1> DEFINE s == guards[t]
             g == [kind |-> kind, strict |-> strict, late |-> panic[t] # "none",
                   snapshot |-> allocations[t], real |-> 0]
             w == Append(s, g)
  <1>1. s \in Seq(Guard) /\ depth[t] = Len(s) /\ allocations[t] \in Nat
    BY DEF Inv, TypeOK, DepthIsLive
  <1>2. g \in Guard /\ allocations[t] = g.snapshot + g.real
    BY <1>1 DEF Guard
  <1>3. guards' = [guards EXCEPT ![t] = w]
    BY DEF Enter
  <1> HIDE DEF g
  <1>4. /\ w \in Seq(Guard) /\ Len(w) = Len(s) + 1
        /\ \A j \in 1 .. Len(s) : w[j] = s[j]
        /\ w[Len(s) + 1] = g
    BY <1>1, <1>2, AppendProperties
  <1>5. depth' = [depth EXCEPT ![t] = Len(w)]
    BY <1>1, <1>4 DEF Enter
  <1> HIDE DEF w
  <1>6. TypeOK'
    <2>1. guards' \in [Threads -> Seq(Guard)] /\ depth' \in [Threads -> Nat]
      BY <1>3, <1>4, <1>5 DEF Inv, TypeOK
    <2>2. QED
      BY <2>1 DEF Inv, TypeOK, Enter
  <1>7. DepthIsLive'
    BY <1>3, <1>5 DEF Inv, TypeOK, DepthIsLive
  <1>8. Balanced'
    <2> SUFFICES ASSUME NEW u \in Threads, NEW i \in DOMAIN guards'[u]
                 PROVE  allocations'[u] = guards'[u][i].snapshot + guards'[u][i].real
      BY DEF Balanced
    <2>1. allocations' = allocations
      BY DEF Enter
    <2>2. CASE u # t
      BY <2>1, <2>2, <1>3 DEF Inv, TypeOK, Balanced
    <2>3. CASE u = t
      <3>1. guards'[t] = w /\ i \in 1 .. Len(s) + 1 /\ Len(s) \in Nat
        BY <2>3, <1>1, <1>3, <1>4 DEF Inv, TypeOK
      <3>2. CASE i = Len(s) + 1
        BY <2>1, <2>3, <3>1, <3>2, <1>2, <1>4
      <3>3. CASE i # Len(s) + 1
        <4>1. i \in DOMAIN s /\ w[i] = s[i]
          BY <3>1, <3>3, <1>1, <1>4
        <4>2. QED
          BY <2>1, <2>3, <3>1, <4>1 DEF Inv, Balanced
      <3>4. QED
        BY <3>2, <3>3
    <2>4. QED
      BY <2>2, <2>3
  <1>9. QED
    BY <1>6, <1>7, <1>8 DEF Inv

-----------------------------------------------------------------------------

LEMMA RecordDeallocTypes ==
    ASSUME TypeOK, NEW t \in Threads, RecordDealloc(t)
    PROVE  deallocations' \in [Threads -> Nat]
  BY DEF TypeOK, RecordDealloc

LEMMA LastGuard ==
    ASSUME Inv, NEW t \in Threads, Len(guards[t]) > 0
    PROVE  Len(guards[t]) \in DOMAIN guards[t]
  <1>1. guards[t] \in Seq(Guard)
    BY DEF Inv, TypeOK
  <1>2. QED
    BY <1>1

LEMMA NextInv == Inv /\ [Next]_vars => Inv'
  <1> SUFFICES ASSUME Inv, [Next]_vars PROVE Inv'
    OBVIOUS
  <1>0. CASE UNCHANGED vars
    BY <1>0, QuietInv DEF vars, tls, Inv, TypeOK
  <1> SUFFICES ASSUME Next PROVE Inv'
    BY <1>0
  <1>t. PICK t \in Threads :
            \/ Alloc(t) \/ Dealloc(t) \/ Realloc(t) \/ AddGlobal(t)
            \/ \E kind \in Kinds, strict \in BOOLEAN : Enter(t, kind, strict)
            \/ \E i \in 1..MaxGuards : DropScope(t, i)
            \/ GateReturns(t) \/ EarlyExit(t)
            \/ UserPanic(t) \/ MachineryAllocates(t) \/ Unwind(t) \/ Catch(t)
    BY DEF Next
  <1>1. CASE Alloc(t)
    BY <1>1, RecordAllocInv DEF Alloc, Inv, TypeOK
  <1>2. CASE Dealloc(t)
    BY <1>2, RecordDeallocTypes, QuietInv DEF Dealloc, Inv, TypeOK
  <1>3. CASE Realloc(t)
    BY <1>3, RecordDeallocTypes, RecordAllocInv DEF Realloc, Inv
  <1>4. CASE AddGlobal(t)
    <2>1. global' \in Nat /\ adding' \in [Threads -> BOOLEAN]
      BY <1>4 DEF AddGlobal, Inv, TypeOK
    <2>2. QED
      BY <1>4, <2>1, QuietInv DEF AddGlobal, tls, Inv, TypeOK
  <1>5. ASSUME NEW kind \in Kinds, NEW strict \in BOOLEAN, Enter(t, kind, strict)
        PROVE  Inv'
    BY <1>5, EnterInv
  <1>6. ASSUME NEW i \in 1..MaxGuards, DropScope(t, i) PROVE Inv'
    BY <1>6, DropInv DEF DropScope
  <1>7. CASE GateReturns(t)
    <2>1. ASSUME NEW payload \in Payloads, GateFails(t, payload) PROVE Inv'
      <3>1. panic' \in [Threads -> Payloads \cup {"none"}] /\ aborted' \in BOOLEAN
        BY <2>1, RaiseTypes DEF GateFails, Inv
      <3>2. QED
        BY <1>7, <2>1, <3>1, LastGuard, ReleaseInv DEF GateReturns, GateFails
    <2>2. CASE Drop(t, Len(guards[t]), "return")
      BY <1>7, <2>2, LastGuard, DropInv DEF GateReturns
    <2>3. QED
      BY <1>7, <2>1, <2>2 DEF GateReturns, Payloads
  <1>8. CASE EarlyExit(t)
    BY <1>8, LastGuard, DropInv DEF EarlyExit
  <1>9. CASE UserPanic(t)
    <2>1. panic' \in [Threads -> Payloads \cup {"none"}] /\ aborted' \in BOOLEAN
      BY <1>9, RaiseTypes DEF UserPanic, Payloads, Inv
    <2>2. QED
      BY <1>9, <2>1, QuietInv DEF UserPanic, tls, Inv, TypeOK
  <1>10. CASE MachineryAllocates(t)
    BY <1>10, RecordAllocInv DEF MachineryAllocates, Inv, TypeOK
  <1>11. CASE Unwind(t)
    BY <1>11, LastGuard, DropInv DEF Unwind
  <1>12. CASE Catch(t)
    <2>1. panic' \in [Threads -> Payloads \cup {"none"}]
      BY <1>12 DEF Catch, Inv, TypeOK
    <2>2. QED
      BY <1>12, <2>1, QuietInv DEF Catch, tls, Inv, TypeOK
  <1>13. QED
    BY <1>t, <1>1, <1>2, <1>3, <1>4, <1>5, <1>6, <1>7, <1>8, <1>9, <1>10, <1>11, <1>12

LEMMA InvAlways == Spec => []Inv
  BY InitInv, NextInv, PTL DEF Spec

\* The counters stay numbers and the stacks stay stacks of guards.
THEOREM TypeCorrect == Spec => []TypeOK
  <1>1. Inv => TypeOK
    BY DEF Inv
  <1>2. QED
    BY <1>1, InvAlways, PTL

\* Counting is on exactly while a guard lives, in whatever order the guards
\* of a thread are dropped and whatever panics pass through them.
THEOREM CountingFollowsGuards == Spec => []DepthIsLive
  <1>1. Inv => DepthIsLive
    BY DEF Inv
  <1>2. QED
    BY <1>1, InvAlways, PTL

LEMMA InvExact ==
    ASSUME Inv
    PROVE  /\ ExactCounts
           /\ \A t \in Threads : \A i \in DOMAIN guards[t] : guards[t][i].real \in Nat
  <1> SUFFICES ASSUME NEW t \in Threads, NEW i \in DOMAIN guards[t]
               PROVE  /\ Observed(t, guards[t][i]) = guards[t][i].real
                      /\ guards[t][i].real \in Nat
    BY DEF ExactCounts
  <1>1. guards[t] \in Seq(Guard)
    BY DEF Inv, TypeOK
  <1>2. guards[t][i] \in Guard
    BY <1>1
  <1>3. guards[t][i].snapshot \in Nat /\ guards[t][i].real \in Nat
    BY <1>2 DEF Guard
  <1>4. allocations[t] = guards[t][i].snapshot + guards[t][i].real
    BY DEF Inv, Balanced
  <1>5. QED
    BY <1>3, <1>4 DEF Observed

\* A guard observes exactly what its thread allocated in its life.
THEOREM CountsAreExact == Spec => []ExactCounts
  BY InvExact, InvAlways, PTL

\* What gates and trackers report under a panic that is already under way.
LEMMA FailsLate ==
    ASSUME Inv, ~aborted, NEW t \in Threads, NEW payload, GateFails(t, payload),
           Owned(t, Len(guards[t])), Len(guards[t]) > 0, Top(t).kind # "scope",
           payload = "budget" \/ Observed(t, Top(t)) > 0
    PROVE  NoAbort'
  <1>1. CASE panic[t] = "none"
    BY <1>1 DEF GateFails, Raise, NoAbort
  <1>2. CASE panic[t] # "none"
    <2>1. Top(t).late /\ Observed(t, Top(t)) = Top(t).real
      BY <1>2, LastGuard, InvExact DEF Owned, Top, ExactCounts
    <2>2. last' = [late |-> Top(t).late, dirty |-> Top(t).real > 0, out |-> payload]
      BY <2>1 DEF GateFails, Ended, Judged, Top
    <2> QED
      BY <2>1, <2>2 DEF NoAbort
  <1> QED
    BY <1>1, <1>2

\* Dropping a guard never raises a panic while another is on its way up.  Only
\* a gate that a destructor runs to its end can, with something to report.
THEOREM NeverAborts == Spec => []NoAbort
  <1>1. Init => NoAbort
    BY DEF Init, NoAbort
  <1>2. ASSUME Inv, NoAbort, [Next]_vars PROVE NoAbort'
    <2>1. ASSUME ~aborted, aborted' = aborted PROVE NoAbort'
      BY <2>1 DEF NoAbort
    <2>2. ASSUME ~aborted, NEW t \in Threads, NEW i, NEW how, Drop(t, i, how) PROVE NoAbort'
      BY <2>1, <2>2 DEF Drop, DropPanics, Raise
    <2>3. ASSUME NEW t \in Threads, GateReturns(t) PROVE NoAbort'
      <3>1. /\ ~aborted /\ Owned(t, Len(guards[t])) /\ Len(guards[t]) > 0
            /\ Top(t).kind # "scope"
        BY <2>3 DEF GateReturns, Active, Top
      <3>2. ASSUME GateFails(t, "budget") PROVE NoAbort'
        BY <1>2, <3>1, <3>2, FailsLate
      <3>3. ASSUME Observed(t, Top(t)) > 0, GateFails(t, "violation") PROVE NoAbort'
        BY <1>2, <3>1, <3>3, FailsLate
      <3> QED
        BY <2>2, <2>3, <3>1, <3>2, <3>3 DEF GateReturns
    <2>4. ASSUME NEW t \in Threads, EarlyExit(t) \/ Unwind(t) PROVE NoAbort'
      BY <2>2, <2>4 DEF EarlyExit, Unwind, Active
    <2>5. ASSUME NEW t \in Threads, NEW i, DropScope(t, i) PROVE NoAbort'
      BY <2>2, <2>5 DEF DropScope, Active
    <2>6. ASSUME NEW t \in Threads, UserPanic(t) PROVE NoAbort'
      BY <2>1, <2>6 DEF UserPanic, Running, Active, Raise
    <2>7. ASSUME NEW t \in Threads,
                 Alloc(t) \/ Dealloc(t) \/ Realloc(t) \/ AddGlobal(t)
                   \/ MachineryAllocates(t) \/ Catch(t)
                   \/ \E kind \in Kinds, strict \in BOOLEAN : Enter(t, kind, strict)
          PROVE  NoAbort'
      BY <2>1, <2>7 DEF Alloc, Dealloc, Realloc, AddGlobal, MachineryAllocates, Catch,
                        Enter, Running, Active
    <2>8. CASE UNCHANGED vars
      BY <1>2, <2>8 DEF NoAbort, vars
    <2> QED
      BY <1>2, <2>3, <2>4, <2>5, <2>6, <2>7, <2>8 DEF Next
  <1> QED
    BY <1>1, <1>2, InvAlways, PTL DEF Spec

-----------------------------------------------------------------------------
(* The verdicts.  A guard is judged by what it observes, and that is exact; *)
(* only a panic that is already on its way up may silence it.               *)

\* A guard that ends is judged rightly if its end agrees with the allocations.
LEMMA EndJudges ==
    ASSUME NEW t \in Threads, NEW i, NEW how, NEW out, Ended(t, i, how, out),
           Judged(t, i, how) /\ out # "budget"
               => (out = "none" <=> ~(guards[t][i].real > 0))
    PROVE  VerdictIsRight'
  BY DEF Ended, NoEnd, VerdictIsRight

\* A guard that drops with something to report reports it, if it is judged.
LEMMA DropJudges ==
    ASSUME Inv, NEW t \in Threads, NEW i \in DOMAIN guards[t], NEW how, Drop(t, i, how),
           \/ how # "return"
           \/ guards[t][i].kind = "scope" /\ Owned(t, i)
           \/ Observed(t, guards[t][i]) = 0
    PROVE  VerdictIsRight'
  <1> DEFINE g == guards[t][i]
             out == IF DropPanics(t, i) THEN "violation" ELSE "none"
  <1>1. Ended(t, i, how, out)
    BY DEF Drop
  <1>2. ASSUME Judged(t, i, how)
        PROVE  out = "none" <=> ~(g.real > 0)
    <2>1. Observed(t, g) = g.real /\ g.real \in Nat
      BY InvExact DEF ExactCounts
    <2>2. CASE g.kind = "scope" /\ Owned(t, i)
      <3>1. g.strict /\ panic[t] = "none"
        BY <1>2, <2>2 DEF Judged, Owned
      <3> QED
        BY <2>1, <3>1 DEF DropPanics
    <2>3. CASE Observed(t, g) = 0
      BY <2>1, <2>3 DEF DropPanics
    <2> QED
      BY <1>2, <2>2, <2>3 DEF Judged
  <1> HIDE DEF out
  <1>3. QED
    BY <1>1, <1>2, EndJudges

LEMMA NextVerdict ==
    Inv /\ VerdictIsRight /\ [Next]_vars => VerdictIsRight'
  <1> SUFFICES ASSUME Inv, VerdictIsRight, [Next]_vars
               PROVE  VerdictIsRight'
    OBVIOUS
  <1>1. ASSUME UNCHANGED last \/ last' = NoEnd PROVE VerdictIsRight'
    BY <1>1 DEF VerdictIsRight, NoEnd
  <1>2. ASSUME NEW t \in Threads, NEW i \in 1..MaxGuards, DropScope(t, i)
        PROVE  VerdictIsRight'
    BY <1>2, DropJudges DEF DropScope
  <1>3. ASSUME NEW t \in Threads, GateReturns(t)
        PROVE  VerdictIsRight'
    <2> DEFINE n == Len(guards[t])
    <2>0. n \in DOMAIN guards[t]
      BY <1>3, LastGuard DEF GateReturns
    <2>1. CASE GateFails(t, "budget")
      BY <2>1, EndJudges DEF GateFails
    <2>2. CASE Observed(t, Top(t)) > 0 /\ GateFails(t, "violation")
      <3>1. guards[t][n].real > 0
        BY <2>0, <2>2, InvExact DEF ExactCounts, Top
      <3>2. QED
        BY <2>2, <3>1, EndJudges DEF GateFails
    <2>3. CASE Observed(t, Top(t)) = 0 /\ Drop(t, Len(guards[t]), "return")
      BY <2>0, <2>3, DropJudges DEF Top
    <2>4. QED
      BY <1>3, <2>1, <2>2, <2>3 DEF GateReturns
  <1>4. ASSUME NEW t \in Threads, EarlyExit(t)
        PROVE  VerdictIsRight'
    BY <1>4, LastGuard, DropJudges DEF EarlyExit
  <1>5. ASSUME NEW t \in Threads, Unwind(t)
        PROVE  VerdictIsRight'
    BY <1>5, LastGuard, DropJudges DEF Unwind
  <1>6. ASSUME NEW t \in Threads,
               Alloc(t) \/ Dealloc(t) \/ Realloc(t) \/ AddGlobal(t)
                 \/ UserPanic(t) \/ MachineryAllocates(t) \/ Catch(t)
                 \/ \E kind \in Kinds, strict \in BOOLEAN : Enter(t, kind, strict)
        PROVE  VerdictIsRight'
    BY <1>1, <1>6 DEF Alloc, Dealloc, Realloc, AddGlobal, UserPanic,
                      MachineryAllocates, Catch, Enter
  <1>7. QED
    BY <1>1, <1>2, <1>3, <1>4, <1>5, <1>6 DEF Next, vars

\* A gate that runs to its end, in a destructor or not, and a strict tracker
\* dropped while its thread is not unwinding, are left quietly if and only if
\* the thread allocated nothing in them.
THEOREM VerdictsAreRight == Spec => []VerdictIsRight
  <1>1. Init => VerdictIsRight
    BY DEF Init, NoEnd, VerdictIsRight
  <1>2. QED
    BY <1>1, InvAlways, NextVerdict, PTL DEF Spec

-----------------------------------------------------------------------------
(* The process-wide counter.  A thread counts an allocation twice, in its   *)
(* own counter and, a step later, in the global one: what is between the    *)
(* two is the number of threads under way.                                  *)

LEMMA UnderwayOf ==
    ASSUME NEW S, IsFiniteSet(S), NEW a \in [S -> BOOLEAN]
    PROVE  \E g :
               IsSum(g, S, [t \in S |-> IF a[t] THEN 1 ELSE 0]) /\ Underway(a) = g[S]
<1> DEFINE w == [t \in S |-> IF a[t] THEN 1 ELSE 0]
           step(t, n) == IF a[t] THEN n + 1 ELSE n
           body(g) == [s \in SUBSET S |-> IF s = {} THEN 0
                     ELSE step(CHOOSE x \in s : TRUE, g[s \ {CHOOSE x \in s : TRUE}])]
           it == CHOOSE g : g = body(g)
<1>1. w \in [S -> Nat] /\ \A t \in S : \A n \in Nat : step(t, n) = w[t] + n
  OBVIOUS
<1>2. Underway(a) = it[S]
  BY DEF Underway, FoldFunction, FoldFunctionOnSet, MapThenFoldSet
<1> HIDE DEF w, step
<1>3. PICK g : IsSum(g, S, w)
  BY <1>1, SumExists
<1>4. ASSUME NEW s \in SUBSET S, s # {}
      PROVE  g[s] = step(CHOOSE x \in s : TRUE, g[s \ {CHOOSE x \in s : TRUE}])
  <2>1. (CHOOSE x \in s : TRUE) \in S
    BY <1>4
  <2>2. g[s \ {CHOOSE x \in s : TRUE}] \in Nat
    BY <1>3 DEF IsSum
  <2> QED
    BY <1>1, <1>3, <1>4, <2>1, <2>2 DEF IsSum
<1>5. g = body(g)
  BY <1>3, <1>4 DEF IsSum
<1>6. it = body(it)
  BY <1>5
<1> HIDE DEF it
<1> DEFINE F == {s \in SUBSET S : it[s] = g[s]}
<1>7. {} \in F
  BY <1>5, <1>6
<1>8. ASSUME NEW s \in SUBSET S, s # {}, \A x \in s : s \ {x} \in F
      PROVE  s \in F
  <2> DEFINE c == CHOOSE x \in s : TRUE
  <2>1. c \in s /\ s \ {c} \in SUBSET S
    BY <1>8
  <2>2. it[s \ {c}] = g[s \ {c}]
    BY <1>8, <2>1
  <2>3. it[s] = step(c, it[s \ {c}]) /\ g[s] = step(c, g[s \ {c}])
    BY <1>5, <1>6, <1>8, Zenon
  <2> QED
    BY <1>8, <2>2, <2>3
<1>9. S \in F
  <2> HIDE DEF F
  <2> QED
    BY <1>7, <1>8, FiniteInduction
<1> QED
  BY <1>2, <1>3, <1>9 DEF w

\* A thread that begins or completes an increment changes the number by one.
LEMMA UnderwayBump ==
    ASSUME NEW S, IsFiniteSet(S), NEW a \in [S -> BOOLEAN], NEW t \in S, ~a[t]
    PROVE  /\ Underway([a EXCEPT ![t] = TRUE]) = Underway(a) + 1
           /\ Underway(a) \in Nat
<1> DEFINE b == [a EXCEPT ![t] = TRUE]
           v == [x \in S |-> IF a[x] THEN 1 ELSE 0]
           w == [x \in S |-> IF b[x] THEN 1 ELSE 0]
<1>1. b \in [S -> BOOLEAN]
  OBVIOUS
<1>2. PICK g : IsSum(g, S, v) /\ Underway(a) = g[S]
  BY UnderwayOf
<1>3. PICK h : IsSum(h, S, w) /\ Underway(b) = h[S]
  BY <1>1, UnderwayOf
<1>4. OneMoreUnit(S, v, w, t)
  BY DEF OneMoreUnit
<1> HIDE DEF b, v, w
<1>5. h[S] = g[S] + 1
  BY <1>2, <1>3, <1>4, SumBump
<1>6. g[S] \in Nat
  BY <1>2 DEF IsSum
<1> QED
  BY <1>2, <1>3, <1>5, <1>6 DEF b

\* An allocation counted by a thread is one more in all.
LEMMA AllocationsBump ==
    ASSUME NEW S, IsFiniteSet(S), NEW f \in [S -> Nat], NEW t \in S
    PROVE  SumFunction([f EXCEPT ![t] = @ + 1]) = SumFunction(f) + 1
<1> DEFINE e == [f EXCEPT ![t] = @ + 1]
<1>1. e \in [S -> Nat] /\ OneMoreUnit(S, f, e, t)
  BY DEF OneMoreUnit
<1> HIDE DEF e
<1>2. PICK g : IsSum(g, S, f) /\ SumFunction(f) = g[S]
  BY SumOf
<1>3. PICK h : IsSum(h, S, e) /\ SumFunction(e) = h[S]
  BY <1>1, SumOf
<1>4. h[S] = g[S] + 1
  BY <1>1, <1>2, <1>3, SumBump
<1> QED
  BY <1>2, <1>3, <1>4 DEF e

LEMMA InitGlobal == Init => GlobalIsSum
<1> SUFFICES ASSUME Init PROVE GlobalIsSum
  OBVIOUS
<1>1. /\ adding \in [Threads -> BOOLEAN] /\ allocations \in [Threads -> Nat]
      /\ \A t \in Threads : adding[t] = FALSE /\ allocations[t] = 0
  BY DEF Init
<1> DEFINE w == [t \in Threads |-> IF adding[t] THEN 1 ELSE 0]
<1>2. w = allocations
  BY <1>1
<1>3. PICK g : IsSum(g, Threads, w) /\ Underway(adding) = g[Threads]
  BY <1>1, ThreadsAssumption, UnderwayOf
<1>4. PICK h :
          IsSum(h, Threads, allocations) /\ SumFunction(allocations) = h[Threads]
  BY <1>1, ThreadsAssumption, SumOf
<1>5. IsSum(g, Threads, allocations)
  BY <1>2, <1>3
<1> HIDE DEF w
<1> DEFINE F == {s \in SUBSET Threads : g[s] = h[s]}
<1>6. {} \in F
  BY <1>4, <1>5 DEF IsSum
<1>7. ASSUME NEW s \in SUBSET Threads, s # {}, \A x \in s : s \ {x} \in F
      PROVE  s \in F
  <2> DEFINE c == CHOOSE x \in s : TRUE
  <2>1. c \in s /\ s \ {c} \in SUBSET Threads
    BY <1>7
  <2>2. h[s \ {c}] = g[s \ {c}]
    BY <1>7, <2>1
  <2>3. h[s] = allocations[c] + h[s \ {c}] /\ g[s] = allocations[c] + g[s \ {c}]
    BY <1>4, <1>5, <1>7, Zenon DEF IsSum
  <2> QED
    BY <1>7, <2>2, <2>3
<1>8. Threads \in F
  <2> HIDE DEF F
  <2> QED
    BY <1>6, <1>7, FiniteInduction, ThreadsAssumption
<1>9. g[Threads] \in Nat
  BY <1>5 DEF IsSum
<1> QED
  BY <1>3, <1>4, <1>8, <1>9 DEF GlobalIsSum, Init

LEMMA RecordAllocGlobal ==
    ASSUME Inv, GlobalIsSum, NEW t \in Threads, ~adding[t], RecordAlloc(t), global' = global
    PROVE  GlobalIsSum'
<1>1. adding \in [Threads -> BOOLEAN] /\ allocations \in [Threads -> Nat] /\ global \in Nat
  BY DEF Inv, TypeOK
<1>2. CASE depth[t] > 0
  <2>1. /\ allocations' = [allocations EXCEPT ![t] = @ + 1]
        /\ adding' = [adding EXCEPT ![t] = TRUE]
    BY <1>2 DEF RecordAlloc
  <2>2. SumFunction(allocations') = SumFunction(allocations) + 1
    BY <1>1, <2>1, ThreadsAssumption, AllocationsBump
  <2>3. Underway(adding') = Underway(adding) + 1 /\ Underway(adding) \in Nat
    BY <1>1, <2>1, ThreadsAssumption, UnderwayBump
  <2> QED
    BY <1>1, <2>2, <2>3 DEF GlobalIsSum
<1>3. CASE ~(depth[t] > 0)
  BY <1>3 DEF RecordAlloc, GlobalIsSum
<1> QED
  BY <1>2, <1>3

LEMMA AddGlobalGlobal ==
    ASSUME Inv, GlobalIsSum, NEW t \in Threads, AddGlobal(t)
    PROVE  GlobalIsSum'
<1>1. adding \in [Threads -> BOOLEAN] /\ global \in Nat /\ adding[t]
  BY DEF Inv, TypeOK, AddGlobal
<1>2. /\ global' = global + 1 /\ adding' = [adding EXCEPT ![t] = FALSE]
      /\ allocations' = allocations
  BY DEF AddGlobal, tls
<1>3. adding' \in [Threads -> BOOLEAN] /\ ~adding'[t] /\ adding = [adding' EXCEPT ![t] = TRUE]
  BY <1>1, <1>2
<1>4. Underway(adding) = Underway(adding') + 1 /\ Underway(adding') \in Nat
  BY <1>3, ThreadsAssumption, UnderwayBump
<1> QED
  BY <1>1, <1>2, <1>4 DEF GlobalIsSum

LEMMA NextGlobal == Inv /\ GlobalIsSum /\ [Next]_vars => GlobalIsSum'
<1> SUFFICES ASSUME Inv, GlobalIsSum, [Next]_vars PROVE GlobalIsSum'
  OBVIOUS
<1>1. ASSUME UNCHANGED <<allocations, global, adding>> PROVE GlobalIsSum'
  BY <1>1 DEF GlobalIsSum
<1>2. ASSUME NEW t \in Threads, Alloc(t) \/ Realloc(t) \/ MachineryAllocates(t)
      PROVE  GlobalIsSum'
  BY <1>2, RecordAllocGlobal DEF Alloc, Realloc, MachineryAllocates, Running, Active
<1>3. ASSUME NEW t \in Threads, AddGlobal(t) PROVE GlobalIsSum'
  BY <1>3, AddGlobalGlobal
<1>4. ASSUME NEW t \in Threads, NEW i \in 1..MaxGuards,
             DropScope(t, i) \/ GateReturns(t) \/ EarlyExit(t) \/ Unwind(t)
      PROVE  GlobalIsSum'
  BY <1>1, <1>4 DEF DropScope, GateReturns, GateFails, EarlyExit, Unwind, Drop
<1>5. ASSUME NEW t \in Threads, GateReturns(t) \/ EarlyExit(t) \/ Unwind(t)
      PROVE  GlobalIsSum'
  BY <1>1, <1>5 DEF GateReturns, GateFails, EarlyExit, Unwind, Drop
<1>6. ASSUME NEW t \in Threads,
             Dealloc(t) \/ UserPanic(t) \/ Catch(t)
               \/ \E kind \in Kinds, strict \in BOOLEAN : Enter(t, kind, strict)
      PROVE  GlobalIsSum'
  BY <1>1, <1>6 DEF Dealloc, UserPanic, Catch, Enter, tls
<1> QED
  BY <1>1, <1>2, <1>3, <1>4, <1>5, <1>6 DEF Next, vars, tls

\* The process-wide counter loses no increment of any thread, whatever the
\* threads interleave between their own increment and the global one.
THEOREM GlobalCounterIsSum == Spec => []GlobalIsSum
  BY InitGlobal, NextGlobal, InvAlways, PTL DEF Spec

-----------------------------------------------------------------------------
(* Panics pass through guards unchanged.                                    *)

LEMMA KeepsPanic ==
    ASSUME Inv, NEW u \in Threads, [Next]_vars, panic[u] = "user"
    PROVE  panic'[u] \in {"user", "none"}
<1>1. panic \in [Threads -> Payloads \cup {"none"}]
  BY DEF Inv, TypeOK
<1>2. ASSUME NEW t \in Threads, NEW payload, Raise(t, payload)
      PROVE  panic'[u] = panic[u]
  BY <1>1, <1>2 DEF Raise
<1>3. ASSUME NEW t \in Threads, NEW i, NEW how, Drop(t, i, how)
      PROVE  panic'[u] = panic[u]
  <2>1. CASE DropPanics(t, i)
    BY <1>2, <1>3, <2>1 DEF Drop, DropPanics
  <2>2. CASE ~DropPanics(t, i)
    BY <1>3, <2>2 DEF Drop
  <2> QED
    BY <2>1, <2>2
<1>4. ASSUME UNCHANGED panic PROVE panic'[u] \in {"user", "none"}
  BY <1>4
<1>5. ASSUME NEW t \in Threads, NEW i \in 1..MaxGuards, DropScope(t, i)
      PROVE  panic'[u] \in {"user", "none"}
  BY <1>3, <1>5 DEF DropScope
<1>6. ASSUME NEW t \in Threads, GateReturns(t)
      PROVE  panic'[u] \in {"user", "none"}
  <2>1. ASSUME NEW payload, GateFails(t, payload) PROVE panic'[u] = panic[u]
    BY <1>2, <2>1 DEF GateFails
  <2> QED
    BY <1>3, <1>6, <2>1 DEF GateReturns
<1>7. ASSUME NEW t \in Threads, EarlyExit(t) \/ Unwind(t)
      PROVE  panic'[u] \in {"user", "none"}
  BY <1>3, <1>7 DEF EarlyExit, Unwind
<1>8. ASSUME NEW t \in Threads, UserPanic(t)
      PROVE  panic'[u] \in {"user", "none"}
  BY <1>2, <1>8 DEF UserPanic
<1>9. ASSUME NEW t \in Threads, Catch(t)
       PROVE  panic'[u] \in {"user", "none"}
  BY <1>1, <1>9 DEF Catch
<1>10. ASSUME NEW t \in Threads,
             Alloc(t) \/ Dealloc(t) \/ Realloc(t) \/ AddGlobal(t) \/ MachineryAllocates(t)
               \/ \E kind \in Kinds, strict \in BOOLEAN : Enter(t, kind, strict)
       PROVE  panic'[u] \in {"user", "none"}
  BY <1>4, <1>10 DEF Alloc, Dealloc, Realloc, AddGlobal, MachineryAllocates, Enter
<1> QED
  BY <1>4, <1>5, <1>6, <1>7, <1>8, <1>9, <1>10 DEF Next, vars

\* A panic of the code under test is never replaced by a gate's or a guard's
\* own on its way to whoever catches it.
THEOREM PanicsPassUnchanged == Spec => PanicUnchanged
<1>1. Inv /\ [Next]_vars
          => [\A t \in Threads : panic[t] = "user" => panic'[t] \in {"user", "none"}]_vars
  BY KeepsPanic
<1> QED
  BY <1>1, InvAlways, PTL DEF Spec, PanicUnchanged

-----------------------------------------------------------------------------
(* 2. Percentiles *)

\* What a TimingStats holds.
Durations == Seq(Nat) \ {<<>>}

\* The positions in S, from the fastest to the slowest.
IsOrder(o, S, ds) ==
    /\ o \in Bijection(1 .. Cardinality(S), S)
    /\ Sorts(o, ds)

\* A slowest one may be put behind the others.
LEMMA OrderGrows ==
    ASSUME NEW d \in Seq(Nat), NEW S \in SUBSET (DOMAIN d), IsFiniteSet(S),
           NEW c \in S, \A i \in S : d[i] <= d[c],
           NEW o, IsOrder(o, S \ {c}, d)
    PROVE  \E p : IsOrder(p, S, d)
<1> DEFINE n == Cardinality(S \ {c})
           p == [i \in 1 .. n + 1 |-> IF i = n + 1 THEN c ELSE o[i]]
<1>1. n \in Nat /\ Cardinality(S) = n + 1
  <2>1. IsFiniteSet(S \ {c}) /\ Cardinality(S \ {c}) = Cardinality(S) - 1 /\ Cardinality(S) \in Nat
    BY FS_RemoveElement, FS_CardinalityType
  <2>2. Cardinality(S \ {c}) \in Nat
    BY <2>1, FS_CardinalityType
  <2> QED
    BY <2>1, <2>2
<1> HIDE DEF n
<1>2. /\ o \in [1 .. n -> S \ {c}]
      /\ \A a, b \in 1 .. n : o[a] = o[b] => a = b
      /\ \A x \in S \ {c} : \E a \in 1 .. n : o[a] = x
      /\ \A i, j \in 1 .. n : i < j => d[o[i]] <= d[o[j]]
  <2>1. o \in Bijection(1 .. n, S \ {c}) /\ Sorts(o, d)
    BY DEF IsOrder, n
  <2>2. DOMAIN o = 1 .. n
    BY <2>1 DEF Bijection, Injection
  <2> QED
    BY <2>1, <2>2 DEF Bijection, Injection, Surjection, IsInjective, Sorts
<1>3. p \in [1 .. n + 1 -> S]
  BY <1>1, <1>2
<1>4. p[n + 1] = c /\ \A i \in 1 .. n : p[i] = o[i] /\ p[i] # c /\ p[i] \in S
  BY <1>1, <1>2
<1>5. \A i \in 1 .. n + 1 : i = n + 1 \/ i \in 1 .. n
  BY <1>1
<1> HIDE DEF p
<1>6. \A a, b \in 1 .. n + 1 : p[a] = p[b] => a = b
  BY <1>2, <1>4, <1>5
<1>7. \A x \in S : \E a \in 1 .. n + 1 : p[a] = x
  <2> SUFFICES ASSUME NEW x \in S PROVE \E a \in 1 .. n + 1 : p[a] = x
    OBVIOUS
  <2>1. CASE x = c
    BY <1>1, <1>4, <2>1
  <2>2. CASE x # c
    <3>1. PICK a \in 1 .. n : o[a] = x
      BY <1>2, <2>2
    <3>2. a \in 1 .. n + 1 /\ p[a] = x
      BY <1>1, <1>4, <3>1
    <3> QED
      BY <3>2
  <2> QED
    BY <2>1, <2>2
<1>8. \A i, j \in 1 .. n + 1 : i < j => d[p[i]] <= d[p[j]]
  <2> SUFFICES ASSUME NEW i \in 1 .. n + 1, NEW j \in 1 .. n + 1, i < j
               PROVE  d[p[i]] <= d[p[j]]
    OBVIOUS
  <2>1. i \in 1 .. n
    BY <1>1
  <2>2. CASE j = n + 1
    BY <1>4, <2>1, <2>2
  <2>3. CASE j \in 1 .. n
    BY <1>2, <1>4, <2>1, <2>3
  <2> QED
    BY <1>5, <2>2, <2>3
<1>9. DOMAIN p = 1 .. n + 1
  BY <1>3
<1>10. p \in Bijection(1 .. n + 1, S)
  BY <1>3, <1>6, <1>7, <1>9 DEF Bijection, Injection, Surjection, IsInjective
<1>11. Sorts(p, d)
  BY <1>8, <1>9 DEF Sorts
<1> QED
  BY <1>1, <1>10, <1>11 DEF IsOrder

\* Any durations can be sorted.
LEMMA OrderExists ==
    ASSUME NEW d \in Durations
    PROVE  \E o : o \in Bijection(DOMAIN d, DOMAIN d) /\ Sorts(o, d)
<1> DEFINE D == DOMAIN d
           F == {s \in SUBSET D : \E o : IsOrder(o, s, d)}
<1>1. /\ d \in Seq(Nat) /\ Len(d) \in Nat /\ D = 1 .. Len(d) /\ IsFiniteSet(D)
      /\ Cardinality(D) = Len(d)
  <2>1. d \in Seq(Nat)
    BY DEF Durations
  <2>2. Len(d) \in Nat /\ D = 1 .. Len(d)
    BY <2>1
  <2>3. /\ IsFiniteSet(1 .. Len(d))
        /\ Cardinality(1 .. Len(d)) = IF 1 > Len(d) THEN 0 ELSE Len(d) - 1 + 1
    BY <2>2, FS_Interval
  <2>4. (IF 1 > Len(d) THEN 0 ELSE Len(d) - 1 + 1) = Len(d)
    BY <2>2
  <2> QED
    BY <2>1, <2>2, <2>3, <2>4
<1>2. {} \in F
  <2> DEFINE o == [i \in 1 .. 0 |-> 0]
  <2>1. Cardinality({}) = 0 /\ 1 .. 0 = {}
    BY FS_EmptySet
  <2>2. o \in Bijection(1 .. 0, {}) /\ Sorts(o, d)
    BY DEF Bijection, Injection, Surjection, IsInjective, Sorts
  <2> HIDE DEF o
  <2>3. IsOrder(o, {}, d)
    BY <2>1, <2>2 DEF IsOrder
  <2> QED
    BY <2>3
<1>3. ASSUME NEW s \in SUBSET D, s # {}, \A x \in s : s \ {x} \in F
      PROVE  s \in F
  <2>1. IsFiniteSet(s) /\ \A i \in s : d[i] \in Nat
    BY <1>1, FS_Subset
  <2>2. \E c \in s : \A i \in s : d[i] <= d[c]
    <3> DEFINE V == {d[i] : i \in s}
    <3>1. IsFiniteSet(V)
      <4> DEFINE f == [i \in s |-> d[i]]
      <4>1. f \in Surjection(s, V)
        BY DEF Surjection
      <4> HIDE DEF V, f
      <4> QED
        BY <2>1, <4>1, FS_Surjection
    <3>2. V # {} /\ V \subseteq Int
      BY <1>3, <2>1
    <3>3. Max(V) \in V /\ \A v \in V : v <= Max(V)
      <4> HIDE DEF V
      <4> QED
        BY <3>1, <3>2, ExtremesExist
    <3>4. PICK c \in s : d[c] = Max(V)
      BY <3>3
    <3>5. \A i \in s : d[i] <= Max(V)
      BY <3>3
    <3> QED
      BY <3>4, <3>5
  <2>3. PICK c \in s : \A i \in s : d[i] <= d[c]
    BY <2>2
  <2>4. PICK o : IsOrder(o, s \ {c}, d)
    BY <1>3
  <2>5. \E p : IsOrder(p, s, d)
    BY <1>1, <2>1, <2>3, <2>4, OrderGrows
  <2> QED
    BY <2>5
<1>4. D \in F
  <2> HIDE DEF D, F
  <2> QED
    BY <1>1, <1>2, <1>3, FiniteInduction
<1>5. PICK o : IsOrder(o, D, d)
  BY <1>4
<1> QED
  BY <1>1, <1>5 DEF IsOrder

-----------------------------------------------------------------------------
(* The f64 product.  Each of the two roundings is off by half a last digit, *)
(* and while the count and the parts of the whole are small against the    *)
(* precision, that is less than what lies between a fraction of the count  *)
(* and the next integer.                                                    *)

\* The least number whose float has all its digits.
Full == pow2[Precision - 1]

\* The powers of two are defined for every exponent.
LEMMA PowersOfTwo ==
    /\ pow2[0] = 1
    /\ \A k \in Nat : pow2[k] \in Nat /\ pow2[k] > 0 /\ pow2[k + 1] = 2 * pow2[k]
<1> DEFINE body(g) == [k \in Nat |-> IF k = 0 THEN 1 ELSE 2 * g[k - 1]]
           Doubles(f, n) == /\ f \in [0 .. n -> Nat]
                            /\ \A i \in 0 .. n : f[i] = IF i = 0 THEN 1 ELSE 2 * f[i - 1]
           run(n) == CHOOSE f : Doubles(f, n)
           g == [n \in Nat |-> run(n)[n]]
<1>1. ASSUME NEW n \in Nat PROVE Doubles(run(n), n)
  <2> DEFINE step == [p \in (1 .. n) \X Nat |-> 2 * p[2]]
  <2>1. step \in [(1 .. n) \X Nat -> Nat] /\ 1 \in Nat
    OBVIOUS
  <2>2. \A i \in 1 .. n : \A x \in Nat : step[<<i, x>>] = 2 * x
    OBVIOUS
  <2> HIDE DEF step
  <2>3. PICK f \in [0 .. n -> Nat] : IsIteration(f, n, 1, step)
    BY <2>1, IterationExists
  <2>4. ASSUME NEW i \in 0 .. n PROVE f[i] = IF i = 0 THEN 1 ELSE 2 * f[i - 1]
    <3>1. i # 0 => i \in 1 .. n /\ i - 1 \in 0 .. n
      OBVIOUS
    <3> QED
      BY <2>2, <2>3, <3>1 DEF IsIteration
  <2>5. Doubles(f, n)
    BY <2>4
  <2> HIDE DEF Doubles
  <2> QED
    BY <2>5
<1> HIDE DEF run
<1>2. ASSUME NEW n \in Nat PROVE run(n + 1)[n] = run(n)[n]
  <2> DEFINE f == run(n)
             h == run(n + 1)
             T == {i \in Nat : i <= n => f[i] = h[i]}
  <2>1. Doubles(f, n) /\ Doubles(h, n + 1)
    <3>1. n + 1 \in Nat
      OBVIOUS
    <3> HIDE DEF Doubles
    <3> QED
      BY <1>1, <3>1
  <2> HIDE DEF f, h
  <2>2. 0 \in T
    BY <2>1
  <2>3. ASSUME NEW i \in Nat, i \in T PROVE i + 1 \in T
    <3> SUFFICES ASSUME i + 1 <= n PROVE f[i + 1] = h[i + 1]
      OBVIOUS
    <3>1. i + 1 \in 0 .. n /\ i + 1 \in 0 .. n + 1 /\ i + 1 # 0 /\ (i + 1) - 1 = i
      OBVIOUS
    <3>2. f[i] = h[i]
      BY <2>3
    <3> QED
      BY <2>1, <3>1, <3>2
  <2>4. Nat \subseteq T
    <3> HIDE DEF T
    <3> QED
      BY <2>2, <2>3, NatSetInduction
  <2> QED
    BY <2>4 DEF f, h
<1>3. g = body(g)
  <2> SUFFICES ASSUME NEW n \in Nat PROVE g[n] = IF n = 0 THEN 1 ELSE 2 * g[n - 1]
    OBVIOUS
  <2>1. run(n)[n] = IF n = 0 THEN 1 ELSE 2 * run(n)[n - 1]
    BY <1>1
  <2>2. CASE n = 0
    BY <2>1, <2>2
  <2>3. CASE n # 0
    <3>1. n - 1 \in Nat /\ (n - 1) + 1 = n
      BY <2>3
    <3>2. run(n)[n - 1] = run(n - 1)[n - 1]
      BY <1>2, <3>1
    <3> QED
      BY <2>1, <2>3, <3>1, <3>2
  <2> QED
    BY <2>2, <2>3
<1>4. pow2 = body(pow2)
  <2> HIDE DEF g
  <2> QED
    BY <1>3 DEF pow2
<1>5. pow2[0] = 1 /\ \A k \in Nat : pow2[k + 1] = 2 * pow2[k]
  <2>1. \A k \in Nat : pow2[k] = IF k = 0 THEN 1 ELSE 2 * pow2[k - 1]
    BY <1>4
  <2>2. \A k \in Nat : k + 1 \in Nat /\ k + 1 # 0 /\ (k + 1) - 1 = k
    OBVIOUS
  <2> QED
    BY <2>1, <2>2
<1> DEFINE T == {k \in Nat : pow2[k] \in Nat /\ pow2[k] > 0}
<1>6. 0 \in T
  BY <1>5
<1>7. ASSUME NEW k \in Nat, k \in T PROVE k + 1 \in T
  BY <1>5, <1>7
<1>8. Nat \subseteq T
  <2> HIDE DEF T
  <2> QED
    BY <1>6, <1>7, NatSetInduction
<1> QED
  BY <1>5, <1>8

\* Full is a positive number.
LEMMA FullIs == Full \in Nat /\ Full > 0
<1>1. Precision - 1 \in Nat
  BY TimingAssumption
<1> QED
  BY <1>1, PowersOfTwo DEF Full

\* What a quotient is.
LEMMA Quotient ==
    ASSUME NEW x \in Nat, NEW y \in Nat, y > 0
    PROVE  /\ x \div y \in Nat
           /\ (x \div y) * y <= x
           /\ x < (x \div y) * y + y
           /\ x % y = x - (x \div y) * y
  OBVIOUS

\* Products keep the order of their factors.
LEMMA Monotone ==
    ASSUME NEW a \in Int, NEW b \in Int, NEW c \in Nat, a <= b
    PROVE  a * c <= b * c
  OBVIOUS

\* Of factors, the larger makes the larger product.
LEMMA Cancel ==
    ASSUME NEW a \in Int, NEW b \in Int, NEW c \in Nat, c > 0, a * c <= b * c
    PROVE  a <= b
  OBVIOUS

\* Rounding to an integer is off by a half at most.
LEMMA RoundedIs ==
    ASSUME NEW a \in Nat, NEW b \in Nat, b > 0
    PROVE  LET m == Rounded(a, b) IN
           m \in Nat /\ 2 * a - b <= 2 * (m * b) /\ 2 * (m * b) <= 2 * a + b
<1> DEFINE q == a \div b
           r == a % b
<1>1. q \in Nat /\ q * b \in Nat /\ q * b <= a /\ a < q * b + b /\ r = a - q * b
  BY Quotient
<1>2. (q + 1) * b = q * b + b
  BY <1>1
<1>3. \/ Rounded(a, b) = q /\ 2 * r <= b
      \/ Rounded(a, b) = q + 1 /\ 2 * r >= b
  <2>1. r \in Int
    BY <1>1
  <2>2. Rounded(a, b) = IF 2 * r > b \/ (2 * r = b /\ q % 2 = 1) THEN q + 1 ELSE q
    BY DEF Rounded
  <2> HIDE DEF q, r
  <2> QED
    BY <2>1, <2>2
<1> HIDE DEF q, r
<1> QED
  BY <1>1, <1>2, <1>3

\* The scale is a power of two that is large enough.
LEMMA ScaleIs ==
    ASSUME NEW a \in Nat, NEW b \in Nat,
           \E k \in 0 .. MaxExponent : b * Full <= a * pow2[k]
    PROVE  \E k \in 0 .. MaxExponent :
               ScaleOf(a, b) = pow2[k] /\ b * Full <= a * pow2[k]
<1> DEFINE enough(k) == b * Full <= a * pow2[k]
           T == {k \in 0 .. MaxExponent : enough(k)}
           e == CHOOSE k \in 0 .. MaxExponent : enough(k) /\ (k > 0 => ~enough(k - 1))
<1>1. T \subseteq Nat /\ T # {}
  OBVIOUS
<1>2. PICK n \in T : \A m \in T : n <= m
  <2> HIDE DEF T
  <2> QED
    BY <1>1, LeastNat
<1>3. n > 0 => ~enough(n - 1)
  <2> SUFFICES ASSUME n > 0, enough(n - 1) PROVE FALSE
    OBVIOUS
  <2>1. n - 1 \in 0 .. MaxExponent /\ n \in Nat
    BY TimingAssumption
  <2>2. n - 1 \in T
    BY <2>1
  <2> HIDE DEF T
  <2> QED
    BY <1>2, <2>1, <2>2
<1>4. n \in 0 .. MaxExponent /\ enough(n)
  BY <1>2
<1> HIDE DEF T
<1>5. e \in 0 .. MaxExponent /\ enough(e)
  <2>1. \E k \in 0 .. MaxExponent : enough(k) /\ (k > 0 => ~enough(k - 1))
    BY <1>3, <1>4
  <2> HIDE DEF enough
  <2> QED
    BY <2>1
<1>6. ScaleOf(a, b) = pow2[e]
  BY DEF ScaleOf, Full
<1> HIDE DEF e
<1> QED
  BY <1>5, <1>6

\* A float is off by half its last digit at most, and has all its digits.
LEMMA NearestIs ==
    ASSUME NEW a \in Nat, a > 0, NEW b \in Nat, b > 0,
           \E k \in 0 .. MaxExponent : b * Full <= a * pow2[k]
    PROVE  LET x == Nearest(a, b)
               m == x.digits
               s == x.scale
           IN  /\ m \in Nat /\ s \in Nat /\ s > 0
               /\ \E k \in 0 .. MaxExponent : s = pow2[k]
               /\ b * Full <= a * s
               /\ 2 * (a * s) - b <= 2 * (m * b) /\ 2 * (m * b) <= 2 * (a * s) + b
<1>1. PICK k \in 0 .. MaxExponent : ScaleOf(a, b) = pow2[k] /\ b * Full <= a * pow2[k]
  BY ScaleIs
<1> DEFINE s == pow2[k]
<1>2. s \in Nat /\ s > 0
  BY PowersOfTwo
<1>3. Nearest(a, b) = [digits |-> Rounded(a * s, b), scale |-> s]
  BY <1>1 DEF Nearest
<1>4. b * Full <= a * s
  BY <1>1
<1>5. s = pow2[k]
  OBVIOUS
<1> HIDE DEF s
<1>6. a * s \in Nat
  BY <1>2
<1>7. /\ Rounded(a * s, b) \in Nat
      /\ 2 * (a * s) - b <= 2 * (Rounded(a * s, b) * b)
      /\ 2 * (Rounded(a * s, b) * b) <= 2 * (a * s) + b
  BY <1>6, RoundedIs
<1> QED
  BY <1>2, <1>3, <1>4, <1>5, <1>7

\* What is left of two roundings, each off by half a last digit: a product
\* R / U of the fraction num / den and the count n, with A / D in between.
\* It is never on the other side of an integer.
Rounds(num, den, n, A, D, R, U) ==
    /\ A \in Nat /\ D \in Nat /\ R \in Nat /\ U \in Nat
    /\ 2 * (num * D) - den <= 2 * (A * den) /\ 2 * (A * den) <= 2 * (num * D) + den
    /\ 2 * (A * n * U) - D <= 2 * (R * D) /\ 2 * (R * D) <= 2 * (A * n * U) + D
    /\ n * den < D
    /\ den <= U

LEMMA SameSide ==
    ASSUME NEW num \in Nat, NEW den \in Nat, den > 0, NEW n \in Nat, n > 0,
           NEW A, NEW D, NEW R, NEW U, Rounds(num, den, n, A, D, R, U),
           NEW q \in Nat
    PROVE  /\ q * den > num * n => R <= q * U
           /\ q * den < num * n => R > q * U
<1> DEFINE X == D * den
           Y == D * U
           Z == q * U * X
           V == num * n * Y
           W == A * n * U * den
           K == R * X
           E == n * U * den
<1>1. A \in Nat /\ D \in Nat /\ R \in Nat /\ U \in Nat /\ D > 0 /\ U > 0
  <2>1. n * den \in Nat
    OBVIOUS
  <2> QED
    BY <2>1 DEF Rounds
<1>2. /\ X \in Nat /\ X > 0 /\ Y \in Nat /\ Z \in Nat /\ V \in Nat
      /\ W \in Nat /\ K \in Nat /\ E \in Nat
  <2>1. X \in Nat /\ X > 0 /\ Y \in Nat
    BY <1>1
  <2>2. num * n \in Nat /\ q * U \in Nat /\ A * n * U \in Nat /\ n * U \in Nat
    BY <1>1
  <2> HIDE DEF X, Y
  <2> QED
    BY <1>1, <2>1, <2>2
<1>3. 2 * W - X <= 2 * K /\ 2 * K <= 2 * W + X
  <2>1. R * D \in Nat /\ A * n * U \in Nat
    BY <1>1
  <2>2. /\ (2 * (A * n * U) - D) * den <= 2 * (R * D) * den
        /\ 2 * (R * D) * den <= (2 * (A * n * U) + D) * den
    BY <1>1, <2>1, Monotone DEF Rounds
  <2>3. R * D * den = K
    BY <1>1
  <2> DEFINE a == A * n * U
             r == R * D
  <2>4. a \in Nat /\ r \in Nat /\ a * den = W /\ r * den = K
    BY <2>1, <2>3
  <2>5. (2 * a - D) * den <= 2 * r * den /\ 2 * r * den <= (2 * a + D) * den
    BY <2>2
  <2> HIDE DEF a, r
  <2>6. (2 * a - D) * den = 2 * (a * den) - X /\ (2 * a + D) * den = 2 * (a * den) + X
        /\ 2 * r * den = 2 * (r * den)
    BY <1>1, <2>4
  <2> QED
    BY <2>4, <2>5, <2>6
<1>4. 2 * V - E <= 2 * W /\ 2 * W <= 2 * V + E
  <2> DEFINE a == A * den
             v == num * D
             f == n * U
  <2>1. a \in Nat /\ v \in Nat /\ f \in Nat
    BY <1>1
  <2>2. 2 * v - den <= 2 * a /\ 2 * a <= 2 * v + den
    BY DEF Rounds
  <2>3. a * f = W /\ v * f = V /\ den * f = E
    BY <1>1
  <2> HIDE DEF a, v, f, W, V, E
  <2>4. (2 * v - den) * f <= 2 * a * f /\ 2 * a * f <= (2 * v + den) * f
    <3>1. 2 * v - den \in Int /\ 2 * a \in Int /\ 2 * v + den \in Int
      BY <2>1
    <3> QED
      BY <2>1, <2>2, <3>1, Monotone
  <2>5. (2 * v - den) * f = 2 * (v * f) - den * f /\ (2 * v + den) * f = 2 * (v * f) + den * f
        /\ 2 * a * f = 2 * (a * f)
    BY <2>1
  <2> QED
    BY <2>3, <2>4, <2>5
<1>5. E < Y
  <2>1. n * den + 1 <= D
    <3>1. n * den \in Nat
      OBVIOUS
    <3> QED
      BY <1>1, <3>1 DEF Rounds
  <2>2. (n * den + 1) * U <= D * U
    BY <1>1, <2>1, Monotone
  <2>3. (n * den + 1) * U = E + U
    BY <1>1
  <2> QED
    BY <1>1, <1>2, <2>2, <2>3
<1>6. X <= Y
  <2>1. den * D <= U * D
    BY <1>1, Monotone DEF Rounds
  <2> QED
    BY <1>1, <2>1
<1>7. ASSUME q * den > num * n, R > q * U PROVE FALSE
  <2>1. V + Y <= Z
    <3>1. (num * n + 1) * Y <= q * den * Y
      <4>1. num * n + 1 <= q * den /\ num * n + 1 \in Int /\ q * den \in Int
        BY <1>7
      <4> HIDE DEF Y
      <4> QED
        BY <1>2, <4>1, Monotone
    <3>2. q * den * Y = Z
      BY <1>1
    <3>3. (num * n + 1) * Y = V + Y
      <4>1. num * n \in Nat
        OBVIOUS
      <4> HIDE DEF Y
      <4> QED
        BY <1>2, <4>1
    <3> QED
      BY <3>1, <3>2, <3>3
  <2>2. Z + X <= K
    <3>1. q * U + 1 <= R /\ q * U + 1 \in Int
      BY <1>1, <1>7
    <3> HIDE DEF X
    <3>2. (q * U + 1) * X <= R * X
      BY <1>1, <1>2, <3>1, Monotone
    <3>3. (q * U + 1) * X = Z + X
      <4>1. q * U \in Nat
        BY <1>1
      <4> QED
        BY <1>2, <4>1
    <3> QED
      BY <3>2, <3>3
  <2> HIDE DEF X, Y, Z, V, W, K, E
  <2> QED
    BY <1>2, <1>3, <1>4, <1>5, <1>6, <2>1, <2>2
<1>8. ASSUME q * den < num * n, R <= q * U PROVE FALSE
  <2>1. Z + Y <= V
    <3>1. (q * den + 1) * Y <= num * n * Y
      <4>1. q * den + 1 <= num * n /\ q * den + 1 \in Int /\ num * n \in Int
        BY <1>8
      <4> HIDE DEF Y
      <4> QED
        BY <1>2, <4>1, Monotone
    <3>2. q * den * Y = Z
      BY <1>1
    <3>3. (q * den + 1) * Y = q * den * Y + Y
      <4>1. q * den \in Nat
        OBVIOUS
      <4> HIDE DEF Y
      <4> QED
        BY <1>2, <4>1
    <3> QED
      BY <3>1, <3>2, <3>3
  <2>2. K <= Z
    <3>1. q * U \in Int
      BY <1>1
    <3> HIDE DEF X
    <3> QED
      BY <1>1, <1>2, <1>8, <3>1, Monotone
  <2> HIDE DEF X, Y, Z, V, W, K, E
  <2> QED
    BY <1>2, <1>3, <1>4, <1>5, <1>6, <2>1, <2>2
<1>9. q * den \in Nat /\ num * n \in Nat /\ q * U \in Nat
  BY <1>1
<1> QED
  BY <1>1, <1>7, <1>8, <1>9

\* Fractions of n samples in parts of den are within the precision of a float.
Precise(den, n) == n * den < Full /\ den * Full <= pow2[MaxExponent]

\* The two roundings of the product.
LEMMA ProductIs ==
    ASSUME NEW num \in Nat, num > 0, NEW den \in Nat, num <= den,
           NEW n \in Nat, n > 0, Precise(den, n)
    PROVE  LET x == Nearest(num, den)
               y == Product(num, den, n)
           IN  /\ Rounds(num, den, n, x.digits, x.scale, y.digits, y.scale)
               /\ \E k \in Nat : x.scale = pow2[k]
               /\ \E k \in Nat : y.scale = pow2[k]
<1> DEFINE x == Nearest(num, den)
           A == x.digits
           D == x.scale
           y == Nearest(A * n, D)
           R == y.digits
           U == y.scale
<1>1. Full \in Nat /\ Full > 0 /\ den > 0 /\ MaxExponent \in Nat /\ n * den \in Nat
  BY FullIs, TimingAssumption
<1>2. den * Full <= num * pow2[MaxExponent]
  <2>1. pow2[MaxExponent] \in Nat
    BY <1>1, PowersOfTwo
  <2>2. 1 * pow2[MaxExponent] <= num * pow2[MaxExponent]
    BY <2>1, Monotone
  <2>3. den * Full \in Nat /\ num * pow2[MaxExponent] \in Nat
    BY <1>1, <2>1
  <2> QED
    BY <2>1, <2>2, <2>3 DEF Precise
<1>3. /\ A \in Nat /\ D \in Nat /\ D > 0
      /\ \E k \in 0 .. MaxExponent : D = pow2[k]
      /\ den * Full <= num * D
      /\ 2 * (num * D) - den <= 2 * (A * den) /\ 2 * (A * den) <= 2 * (num * D) + den
  <2>1. \E k \in 0 .. MaxExponent : den * Full <= num * pow2[k]
    BY <1>1, <1>2
  <2> QED
    BY <1>1, <2>1, NearestIs
<1> HIDE DEF x, A, D
<1>4. Full <= D
  <2>1. num * D <= den * D
    BY <1>3, Monotone
  <2>2. den * Full \in Nat /\ num * D \in Nat /\ den * D = D * den /\ Full * den = den * Full
        /\ D * den \in Nat
    BY <1>1, <1>3
  <2>3. Full * den <= D * den
    BY <1>3, <2>1, <2>2
  <2> QED
    BY <1>1, <1>3, <2>3, Cancel
<1>5. Full <= A
  <2> SUFFICES ASSUME A + 1 <= Full PROVE FALSE
    BY <1>1, <1>3
  <2>1. (A + 1) * den <= Full * den
    BY <1>1, <1>3, Monotone
  <2>2. (A + 1) * den = A * den + den /\ Full * den = den * Full /\ A * den \in Nat
        /\ den * Full \in Nat /\ num * D \in Nat
    BY <1>1, <1>3
  <2> QED
    BY <1>1, <1>3, <2>1, <2>2
<1>6. A <= D
  <2> SUFFICES ASSUME D + 1 <= A PROVE FALSE
    BY <1>3
  <2>1. (D + 1) * den <= A * den
    BY <1>3, Monotone
  <2>2. (D + 1) * den = D * den + den /\ A * den \in Nat /\ D * den \in Nat /\ num * D \in Nat
        /\ den * D = D * den
    BY <1>3
  <2>3. num * D <= den * D
    BY <1>3, Monotone
  <2> QED
    BY <1>1, <1>3, <2>1, <2>2, <2>3
<1>7. A * n \in Nat /\ A * n > 0 /\ Full <= A * n
  <2>1. A * n \in Nat
    BY <1>3
  <2>2. 1 * A <= n * A /\ n * A = A * n
    BY <1>3, Monotone
  <2> QED
    BY <1>1, <1>3, <1>5, <2>1, <2>2
<1>8. /\ R \in Nat /\ U \in Nat /\ U > 0
      /\ \E k \in 0 .. MaxExponent : U = pow2[k]
      /\ D * Full <= A * n * U
      /\ 2 * (A * n * U) - D <= 2 * (R * D) /\ 2 * (R * D) <= 2 * (A * n * U) + D
  <2>1. Full * D <= A * n * D /\ Full * D = D * Full
    BY <1>1, <1>3, <1>7, Monotone
  <2>2. \E k \in 0 .. MaxExponent : D * Full <= A * n * pow2[k]
    BY <1>3, <2>1
  <2> QED
    BY <1>3, <1>7, <2>2, NearestIs
<1> HIDE DEF y, R, U
<1>9. Full <= n * U
  <2>1. n * U \in Nat
    BY <1>8
  <2>2. A * (n * U) <= D * (n * U)
    BY <1>3, <1>6, <2>1, Monotone
  <2>3. A * n * U = A * (n * U) /\ D * (n * U) = n * U * D /\ D * Full = Full * D
        /\ Full * D \in Nat /\ n * U * D \in Nat /\ A * (n * U) \in Nat
    BY <1>1, <1>3, <1>8
  <2>4. Full * D <= n * U * D
    BY <1>8, <2>2, <2>3
  <2> QED
    BY <1>1, <1>3, <2>1, <2>4, Cancel
<1>10. den <= U
  <2>1. den * n <= U * n
    <3>1. den * n = n * den /\ U * n = n * U /\ n * U \in Nat
      BY <1>8
    <3> QED
      BY <1>1, <1>9, <3>1 DEF Precise
  <2> QED
    BY <1>8, <2>1, Cancel
<1>11. n * den < D
  BY <1>1, <1>3, <1>4 DEF Precise
<1>12. Rounds(num, den, n, A, D, R, U)
  BY <1>3, <1>8, <1>10, <1>11 DEF Rounds
<1>13. Product(num, den, n) = y
  BY DEF Product, y, A, D, x
<1>14. (\E k \in Nat : D = pow2[k]) /\ \E k \in Nat : U = pow2[k]
  BY <1>3, <1>8
<1> QED
  BY <1>12, <1>13, <1>14 DEF x, A, D, y, R, U

\* A rounded-up quotient is the smallest integer that is enough.
LEMMA CeilOf ==
    ASSUME NEW x \in Nat, NEW y \in Nat, y > 0
    PROVE  LET q == (x + y - 1) \div y IN
           q \in Nat /\ x <= q * y /\ (q = 0 \/ (q - 1) * y < x)
<1> DEFINE z == x + y - 1
           q == z \div y
<1>1. z \in Nat
  OBVIOUS
<1>2. q \in Nat /\ q * y <= z /\ z < q * y + y
  <2> HIDE DEF z
  <2> QED
    BY <1>1, Quotient
<1>3. q * y \in Nat
  BY <1>2
<1>4. (q - 1) * y = q * y - y
  BY <1>2
<1> HIDE DEF q
<1> QED
  BY <1>2, <1>3, <1>4 DEF q

\* The rank is the product's ceil, within the samples.
LEMMA IndexIs ==
    ASSUME NEW c \in Nat, NEW n \in Nat, n > 0
    PROVE  LET k == Min({Max({c, 1}) - 1, n - 1}) + 1 IN
           k \in 1 .. n /\ (k = 1 \/ k <= c) /\ (k = n \/ c <= k)
<1>1. PICK m \in Nat : m = Max({c, 1}) /\ m >= 1 /\ m >= c /\ (m = 1 \/ m = c)
  <2>1. CASE c >= 1
    <3>1. \A y \in {c, 1} : c >= y
      BY <2>1
    <3>2. Max({c, 1}) = c
      BY <3>1, MaxIs
    <3> QED
      BY <2>1, <3>2
  <2>2. CASE ~(c >= 1)
    <3>1. \A y \in {c, 1} : 1 >= y
      BY <2>2
    <3>2. Max({c, 1}) = 1
      BY <3>1, MaxIs
    <3> QED
      BY <2>2, <3>2
  <2> QED
    BY <2>1, <2>2
<1>2. PICK l \in Nat : /\ l = Min({m - 1, n - 1})
                       /\ (l = m - 1 /\ m <= n) \/ (l = n - 1 /\ n <= m)
  <2>1. CASE m <= n
    <3>1. \A y \in {m - 1, n - 1} : m - 1 <= y
      BY <1>1, <2>1
    <3>2. Min({m - 1, n - 1}) = m - 1
      <4>1. {m - 1, n - 1} \subseteq Int /\ m - 1 \in {m - 1, n - 1}
        BY <1>1
      <4> QED
        BY <3>1, <4>1, MinIs
    <3>3. m - 1 \in Nat
      BY <1>1
    <3> QED
      BY <2>1, <3>2, <3>3
  <2>2. CASE ~(m <= n)
    <3>1. \A y \in {m - 1, n - 1} : n - 1 <= y
      BY <1>1, <2>2
    <3>2. Min({m - 1, n - 1}) = n - 1
      <4>1. {m - 1, n - 1} \subseteq Int /\ n - 1 \in {m - 1, n - 1}
        BY <1>1
      <4> QED
        BY <3>1, <4>1, MinIs
    <3>3. n - 1 \in Nat
      OBVIOUS
    <3> QED
      BY <1>1, <2>2, <3>2, <3>3
  <2> QED
    BY <2>1, <2>2
<1> QED
  BY <1>1, <1>2

\* percentile's rank, for every fraction of so many samples.
LEMMA RankIs ==
    ASSUME NEW num \in Nat, NEW den \in Nat, den > 0, num <= den,
           NEW n \in Nat, n > 0, Precise(den, n)
    PROVE  IsNearestRank(num, den, n)
<1> DEFINE y == Product(num, den, n)
           R == y.digits
           U == y.scale
           c == (R + U - 1) \div U
           k == PercentileIndex(num, den, n) + 1
<1>1. PercentileIndex(num, den, n) = Min({Max({c, 1}) - 1, n - 1})
  BY DEF PercentileIndex
<1>2. CASE num = 0
  <2>1. Nearest(0, den) = [digits |-> 0, scale |-> 1] /\ Nearest(0, 1) = [digits |-> 0, scale |-> 1]
    BY DEF Nearest
  <2>2. 0 * n = 0
    OBVIOUS
  <2>3. R = 0 /\ U = 1
    BY <1>2, <2>1, <2>2 DEF Product
  <2>4. c = 0
    BY <2>3
  <2> HIDE DEF c
  <2>5. k \in 1 .. n /\ (k = 1 \/ k <= 0)
    BY <1>1, <2>4, IndexIs
  <2> HIDE DEF k
  <2>6. k * den \in Nat /\ num * n = 0
    BY <1>2, <2>2, <2>5
  <2> QED
    BY <2>5, <2>6 DEF IsNearestRank, k
<1>3. CASE num # 0
  <2> DEFINE A == Nearest(num, den).digits
             D == Nearest(num, den).scale
  <2>1. Rounds(num, den, n, A, D, R, U)
    BY <1>3, ProductIs
  <2> HIDE DEF y, A, D
  <2>2. R \in Nat /\ U \in Nat /\ U > 0
    BY <2>1 DEF Rounds
  <2>3. c \in Nat /\ R <= c * U /\ (c = 0 \/ (c - 1) * U < R)
    <3> HIDE DEF R, U
    <3> QED
      BY <2>2, CeilOf
  <2> HIDE DEF R, U, c
  <2>4. k \in 1 .. n /\ (k = 1 \/ k <= c) /\ (k = n \/ c <= k)
    BY <1>1, <2>3, IndexIs
  <2> HIDE DEF k
  <2>5. num * n <= k * den
    <3>1. CASE k = n
      <4>1. num * n <= den * n /\ den * n = n * den
        BY Monotone
      <4> QED
        BY <3>1, <4>1
    <3>2. CASE c <= k
      <4> SUFFICES ASSUME k * den < num * n PROVE FALSE
        <5>1. k \in Nat
          BY <2>4
        <5> QED
          BY <5>1
      <4>1. k \in Nat /\ R > k * U
        BY <2>1, <2>4, SameSide
      <4>2. c * U <= k * U /\ c * U \in Nat /\ k * U \in Nat
        BY <2>2, <2>3, <3>2, <4>1, Monotone
      <4> QED
        BY <2>2, <2>3, <4>1, <4>2
    <3> QED
      BY <2>4, <3>1, <3>2
  <2>6. ASSUME k # 1 PROVE (k - 1) * den <= num * n
    <3> SUFFICES ASSUME (k - 1) * den > num * n PROVE FALSE
      <4>1. k - 1 \in Nat
        BY <2>4
      <4> QED
        BY <4>1
    <3>1. k - 1 \in Nat /\ k - 1 <= c - 1 /\ c # 0
      BY <2>3, <2>4, <2>6
    <3>2. R <= (k - 1) * U
      BY <2>1, <3>1, SameSide
    <3>3. (k - 1) * U <= (c - 1) * U /\ (k - 1) * U \in Int /\ (c - 1) * U \in Int
      BY <2>2, <2>3, <3>1, Monotone
    <3> QED
      BY <2>2, <2>3, <3>1, <3>2, <3>3
  <2> QED
    BY <2>4, <2>5, <2>6 DEF IsNearestRank, k
<1> QED
  BY <1>2, <1>3

\* Half of the samples is an exact product.
LEMMA HalfIs ==
    ASSUME NEW n \in Nat, n > 0, Precise(2, n)
    PROVE  LET k == PercentileIndex(1, 2, n) + 1 IN k = 1 \/ (k - 1) * 2 < n
<1> DEFINE y == Product(1, 2, n)
           R == y.digits
           U == y.scale
           c == (R + U - 1) \div U
           k == PercentileIndex(1, 2, n) + 1
           A == Nearest(1, 2).digits
           D == Nearest(1, 2).scale
<1>1. PercentileIndex(1, 2, n) = Min({Max({c, 1}) - 1, n - 1})
  BY DEF PercentileIndex
<1>2. /\ Rounds(1, 2, n, A, D, R, U)
      /\ \E j \in Nat : D = pow2[j]
      /\ \E j \in Nat : U = pow2[j]
  <2>1. 1 \in Nat /\ 2 \in Nat /\ 1 > 0 /\ 1 <= 2
    OBVIOUS
  <2> QED
    BY <2>1, ProductIs
<1> HIDE DEF y, A, D
<1>3. R \in Nat /\ U \in Nat /\ U > 1 /\ A \in Nat /\ D \in Nat /\ D > 1
  BY <1>2 DEF Rounds
<1>4. ASSUME NEW x \in Nat, x > 1, \E j \in Nat : x = pow2[j]
      PROVE  \E h \in Nat : x = 2 * h
  <2>1. PICK j \in Nat : x = pow2[j]
    BY <1>4
  <2>2. j # 0
    BY <1>4, <2>1, PowersOfTwo
  <2>3. j - 1 \in Nat /\ (j - 1) + 1 = j
    BY <2>2
  <2>4. pow2[j - 1] \in Nat /\ x = 2 * pow2[j - 1]
    BY <2>1, <2>3, PowersOfTwo
  <2> QED
    BY <2>4
<1>5. PICK d \in Nat : D = 2 * d
  BY <1>2, <1>3, <1>4
<1>6. PICK u \in Nat : U = 2 * u
  BY <1>2, <1>3, <1>4
<1> HIDE DEF R, U
<1>7. A = d
  BY <1>2, <1>3, <1>5 DEF Rounds
<1>8. R = n * u
  <2>1. /\ 2 * (A * n * U) - D <= 2 * (R * D)
        /\ 2 * (R * D) <= 2 * (A * n * U) + D
    BY <1>2 DEF Rounds
  <2>2. A * n * U = n * u * D /\ n * u \in Nat
    BY <1>3, <1>5, <1>6, <1>7
  <2> DEFINE v == n * u
  <2>3. 2 * (v * D) - D <= 2 * (R * D) /\ 2 * (R * D) <= 2 * (v * D) + D /\ v \in Nat
    BY <2>1, <2>2
  <2> HIDE DEF v
  <2>4. R <= v
    <3> SUFFICES ASSUME v + 1 <= R PROVE FALSE
      BY <1>3, <2>3
    <3>1. (v + 1) * D <= R * D /\ (v + 1) * D = v * D + D /\ v * D \in Nat /\ R * D \in Nat
      BY <1>3, <2>3, Monotone
    <3> QED
      BY <1>3, <2>3, <3>1
  <2>5. v <= R
    <3> SUFFICES ASSUME R + 1 <= v PROVE FALSE
      BY <1>3, <2>3
    <3>1. (R + 1) * D <= v * D /\ (R + 1) * D = R * D + D /\ v * D \in Nat /\ R * D \in Nat
      BY <1>3, <2>3, Monotone
    <3> QED
      BY <1>3, <2>3, <3>1
  <2> QED
    BY <1>3, <2>3, <2>4, <2>5 DEF v
<1>9. c \in Nat /\ R <= c * U /\ (c = 0 \/ (c - 1) * U < R)
  BY <1>3, CeilOf
<1> HIDE DEF c
<1>10. k \in 1 .. n /\ (k = 1 \/ k <= c)
  BY <1>1, <1>9, IndexIs
<1> HIDE DEF k
<1>11. ASSUME k # 1 PROVE (k - 1) * 2 < n
  <2> SUFFICES ASSUME n <= (k - 1) * 2 PROVE FALSE
    BY <1>10
  <2>1. k - 1 \in Nat /\ k - 1 <= c - 1 /\ c # 0
    BY <1>9, <1>10, <1>11
  <2>2. n * u <= (k - 1) * 2 * u
    BY <1>6, <2>1, Monotone
  <2>3. (k - 1) * 2 * u = (k - 1) * U
    BY <1>6, <2>1
  <2>4. (k - 1) * U <= (c - 1) * U /\ (k - 1) * U \in Int /\ (c - 1) * U \in Int
    BY <1>3, <1>9, <2>1, Monotone
  <2> QED
    BY <1>3, <1>8, <1>9, <2>1, <2>2, <2>3, <2>4
<1> QED
  BY <1>11 DEF k

-----------------------------------------------------------------------------
(* What the sorted samples count *)

\* o lists the positions of d, and s the samples in that order.
Sorting(o, s, d) ==
    /\ o \in [DOMAIN d -> DOMAIN d]
    /\ \A a, b \in DOMAIN d : o[a] = o[b] => a = b
    /\ \A i \in DOMAIN d : \E a \in DOMAIN d : o[a] = i
    /\ s = [i \in DOMAIN d |-> d[o[i]]]
    /\ \A a, b \in DOMAIN d : a <= b => s[a] <= s[b]

\* sorted puts the samples in order, by a bijection of their positions.
LEMMA SortedIs ==
    ASSUME NEW d \in Durations
    PROVE  \E o : Sorting(o, sorted(d), d)
<1> DEFINE D == DOMAIN d
           o == CHOOSE p \in Bijection(D, D) : Sorts(p, d)
<1>1. o \in Bijection(D, D) /\ Sorts(o, d)
  BY OrderExists, Zenon
<1>2. sorted(d) = [i \in D |-> d[o[i]]]
  BY DEF sorted
<1> HIDE DEF o
<1>3. o \in [D -> D] /\ DOMAIN o = D
  BY <1>1 DEF Bijection, Injection
<1>4. \A a, b \in D : o[a] = o[b] => a = b
  BY <1>1, <1>3 DEF Bijection, Injection, IsInjective
<1>5. \A i \in D : \E a \in D : o[a] = i
  BY <1>1 DEF Bijection, Surjection
<1>6. d \in Seq(Nat) /\ D = 1 .. Len(d) /\ \A i \in D : d[i] \in Nat
  BY DEF Durations
<1>7. \A a, b \in D : a <= b => d[o[a]] <= d[o[b]]
  <2> SUFFICES ASSUME NEW a \in D, NEW b \in D, a <= b PROVE d[o[a]] <= d[o[b]]
    OBVIOUS
  <2>1. CASE a = b
    BY <1>3, <1>6, <2>1
  <2>2. CASE a < b
    BY <1>1, <1>3, <2>2 DEF Sorts
  <2> QED
    BY <1>6, <2>1, <2>2
<1> QED
  BY <1>2, <1>3, <1>4, <1>5, <1>7 DEF Sorting

\* At least k samples are at or below the one of rank k, fewer than k below
\* it, and at most n - k above it.
LEMMA RankCounts ==
    ASSUME NEW d \in Durations, NEW o, NEW s, Sorting(o, s, d), NEW k \in DOMAIN d
    PROVE  /\ AtOrBelow(d, s[k]) \in Nat /\ k <= AtOrBelow(d, s[k])
           /\ Cardinality({i \in DOMAIN d : d[i] < s[k]}) <= k - 1
           /\ Cardinality({i \in DOMAIN d : d[i] > s[k]}) <= Len(d) - k
<1> DEFINE D == DOMAIN d
           n == Len(d)
           atOrBelow == {i \in D : d[i] <= s[k]}
           below == {i \in D : d[i] < s[k]}
           above == {i \in D : d[i] > s[k]}
           at == [i \in D |-> CHOOSE a \in D : o[a] = i]
<1>1. /\ d \in Seq(Nat) /\ n \in Nat /\ D = 1 .. n /\ IsFiniteSet(D)
      /\ \A i \in D : d[i] \in Nat
  BY FS_Interval DEF Durations
<1>2. /\ o \in [D -> D]
      /\ \A a, b \in D : o[a] = o[b] => a = b
      /\ \A i \in D : \E a \in D : o[a] = i
      /\ \A a \in D : s[a] = d[o[a]]
      /\ \A a, b \in D : a <= b => s[a] <= s[b]
  BY DEF Sorting
<1>3. \A i \in D : at[i] \in D /\ o[at[i]] = i
  BY <1>2
<1>4. \A a \in D : s[a] \in Nat
  BY <1>1, <1>2
<1> HIDE DEF at
<1>5. AtOrBelow(d, s[k]) \in Nat /\ k <= AtOrBelow(d, s[k])
  <2> DEFINE f == [a \in 1 .. k |-> o[a]]
  <2>1. \A a \in 1 .. k : a \in D /\ o[a] \in atOrBelow
    <3> SUFFICES ASSUME NEW a \in 1 .. k PROVE a \in D /\ o[a] \in atOrBelow
      OBVIOUS
    <3>1. a \in D /\ a <= k
      BY <1>1
    <3>2. o[a] \in D /\ s[a] = d[o[a]] /\ s[a] <= s[k]
      BY <1>2, <3>1
    <3> QED
      BY <3>1, <3>2
  <2>2. f \in Injection(1 .. k, atOrBelow)
    BY <1>2, <2>1 DEF Injection, IsInjective
  <2>3. IsFiniteSet(atOrBelow)
    BY <1>1, FS_Subset
  <2> HIDE DEF f, atOrBelow
  <2>4. Cardinality(1 .. k) <= Cardinality(atOrBelow)
    BY <2>2, <2>3, FS_Injection
  <2>5. k \in Nat /\ k > 0
    BY <1>1
  <2>6. Cardinality(1 .. k) = k
    <3>1. Cardinality(1 .. k) = IF 1 > k THEN 0 ELSE k - 1 + 1
      BY <2>5, FS_Interval
    <3> QED
      BY <2>5, <3>1
  <2>7. Cardinality(atOrBelow) \in Nat
    BY <2>3, FS_CardinalityType
  <2> QED
    BY <2>4, <2>6, <2>7 DEF AtOrBelow, atOrBelow
<1>6. Cardinality(below) <= k - 1
  <2> DEFINE f == [i \in below |-> at[i]]
  <2>1. \A i \in below : at[i] \in 1 .. k - 1
    <3> SUFFICES ASSUME NEW i \in below, k <= at[i] PROVE FALSE
      BY <1>1, <1>3
    <3>1. i \in D /\ d[i] < s[k]
      OBVIOUS
    <3>2. s[k] <= s[at[i]] /\ s[at[i]] = d[i]
      BY <1>2, <1>3, <3>1
    <3> QED
      BY <1>1, <1>4, <3>1, <3>2
  <2>2. \A i, j \in below : at[i] = at[j] => i = j
    BY <1>3
  <2>3. f \in Injection(below, 1 .. k - 1)
    BY <2>1, <2>2 DEF Injection, IsInjective
  <2>4. k \in Nat /\ k > 0
    BY <1>1
  <2>5. IsFiniteSet(1 .. k - 1) /\ Cardinality(1 .. k - 1) = IF 1 > k - 1 THEN 0 ELSE k - 1 - 1 + 1
    BY <2>4, FS_Interval
  <2> HIDE DEF f, below
  <2>6. Cardinality(below) <= Cardinality(1 .. k - 1)
    BY <2>3, <2>5, FS_Injection
  <2>7. (IF 1 > k - 1 THEN 0 ELSE k - 1 - 1 + 1) = k - 1
    BY <2>4
  <2> QED
    BY <2>5, <2>6, <2>7
<1>7. Cardinality(above) <= n - k
  <2> DEFINE f == [i \in above |-> at[i]]
  <2>1. \A i \in above : at[i] \in k + 1 .. n
    <3> SUFFICES ASSUME NEW i \in above, at[i] <= k PROVE FALSE
      BY <1>1, <1>3
    <3>1. i \in D /\ d[i] > s[k]
      OBVIOUS
    <3>2. s[at[i]] <= s[k] /\ s[at[i]] = d[i]
      BY <1>2, <1>3, <3>1
    <3> QED
      BY <1>1, <1>4, <3>1, <3>2
  <2>2. \A i, j \in above : at[i] = at[j] => i = j
    BY <1>3
  <2>3. f \in Injection(above, k + 1 .. n)
    BY <2>1, <2>2 DEF Injection, IsInjective
  <2>4. k \in Nat /\ k <= n /\ n \in Nat
    BY <1>1
  <2>5. IsFiniteSet(k + 1 .. n) /\ Cardinality(k + 1 .. n) = IF k + 1 > n THEN 0 ELSE n - (k + 1) + 1
    <3>1. k + 1 \in Int /\ n \in Int
      BY <2>4
    <3> HIDE DEF n
    <3> QED
      BY <3>1, FS_Interval, Zenon
  <2> HIDE DEF f, above
  <2>6. Cardinality(above) <= Cardinality(k + 1 .. n)
    BY <2>3, <2>5, FS_Injection
  <2>7. (IF k + 1 > n THEN 0 ELSE n - (k + 1) + 1) = n - k
    BY <2>4
  <2> QED
    BY <2>5, <2>6, <2>7
<1> QED
  BY <1>5, <1>6, <1>7

\* TimingStats::percentile returns a sample with at least the fraction at or
\* below it, and the smallest one but for an integer product that f64 makes too
\* large by one rank: for any samples, and any fraction in so many parts that
\* the product with the count is within the precision of a float.
THEOREM PercentileIsNearestRank ==
    ASSUME NEW d \in Durations,
           NEW num \in Nat, NEW den \in Nat, den > 0, num <= den,
           Len(d) * den < pow2[Precision - 1],
           den * pow2[Precision - 1] <= pow2[MaxExponent]
    PROVE  IsRank(d, num, den)
<1> DEFINE n == Len(d)
           k == PercentileIndex(num, den, n) + 1
           s == sorted(d)
<1>1. d \in Seq(Nat) /\ n \in Nat /\ n > 0 /\ DOMAIN d = 1 .. n
  BY DEF Durations
<1>2. k \in 1 .. n /\ num * n <= k * den /\ (k = 1 \/ (k - 1) * den <= num * n)
  <2>1. Precise(den, n)
    BY DEF Precise, Full
  <2> HIDE DEF n
  <2>2. IsNearestRank(num, den, n)
    BY <1>1, <2>1, RankIs
  <2> HIDE DEF k
  <2>3. k \in 1 .. n /\ k * den >= num * n /\ (k = 1 \/ (k - 1) * den <= num * n)
    BY <2>2 DEF IsNearestRank, k
  <2>4. k * den \in Nat /\ num * n \in Nat
    BY <1>1, <2>3
  <2> QED
    BY <2>3, <2>4
<1> HIDE DEF k, s
<1>3. PICK o : Sorting(o, s, d)
  BY SortedIs DEF s
<1>4. /\ AtOrBelow(d, s[k]) \in Nat /\ k <= AtOrBelow(d, s[k])
      /\ Cardinality({i \in DOMAIN d : d[i] < s[k]}) <= k - 1
  BY <1>1, <1>2, <1>3, RankCounts
<1>5. s[k] \in Nat /\ Range(d) \subseteq Nat
  <2>1. s[k] = d[o[k]] /\ o[k] \in DOMAIN d
    BY <1>1, <1>2, <1>3 DEF Sorting
  <2> QED
    BY <1>1, <2>1 DEF Range
<1>6. AtOrBelow(d, s[k]) * den >= num * n
  <2>1. k * den <= AtOrBelow(d, s[k]) * den
    BY <1>2, <1>4, Monotone
  <2>2. k * den \in Nat /\ num * n \in Nat /\ AtOrBelow(d, s[k]) * den \in Nat
    BY <1>1, <1>2, <1>4
  <2> QED
    BY <1>2, <2>1, <2>2
<1>7. ASSUME NEW v \in Range(d), v < s[k] PROVE AtOrBelow(d, v) * den <= num * n
  <2> DEFINE T == {i \in DOMAIN d : d[i] <= v}
             U == {i \in DOMAIN d : d[i] < s[k]}
  <2>1. IsFiniteSet(DOMAIN d)
    BY <1>1, FS_Interval
  <2>2. T \subseteq U /\ U \subseteq DOMAIN d
    <3>1. \A i \in DOMAIN d : d[i] \in Nat
      BY <1>1
    <3> QED
      BY <1>5, <1>7, <3>1
  <2>3. IsFiniteSet(U) /\ IsFiniteSet(T)
    BY <2>1, <2>2, FS_Subset
  <2>4. Cardinality(T) <= Cardinality(U)
    BY <2>2, <2>3, FS_Subset
  <2>5. Cardinality(T) \in Nat /\ Cardinality(U) \in Nat
    BY <2>3, FS_CardinalityType
  <2>6. Cardinality(U) <= k - 1
    BY <1>4
  <2>7. AtOrBelow(d, v) = Cardinality(T)
    BY DEF AtOrBelow
  <2>8. \E i \in DOMAIN d : d[i] = v
    BY DEF Range
  <2>9. T # {}
    BY <1>1, <2>8
  <2> HIDE DEF T, U
  <2>10. Cardinality(T) > 0
    BY <2>3, <2>5, <2>9, FS_EmptySet
  <2>11. Cardinality(T) <= k - 1
    BY <1>2, <2>4, <2>5, <2>6
  <2>12. k # 1
    BY <2>5, <2>10, <2>11
  <2>13. Cardinality(T) * den <= (k - 1) * den
    BY <1>2, <2>5, <2>11, Monotone
  <2>14. Cardinality(T) * den \in Nat /\ (k - 1) * den \in Nat /\ num * n \in Nat
    BY <1>1, <1>2, <2>5
  <2> QED
    BY <1>2, <2>7, <2>12, <2>13, <2>14
<1>8. percentile(d, num, den) = s[k]
  BY DEF percentile, s, k
<1> QED
  BY <1>6, <1>7, <1>8 DEF IsRank

\* The median has at most half of the samples on either side.
LEMMA MedianIsMiddle ==
    ASSUME NEW d \in Durations, Precise(2, Len(d))
    PROVE  IsMiddle(d)
<1> DEFINE n == Len(d)
           k == PercentileIndex(1, 2, n) + 1
           s == sorted(d)
           below == {i \in DOMAIN d : d[i] < s[k]}
           above == {i \in DOMAIN d : d[i] > s[k]}
<1>1. d \in Seq(Nat) /\ n \in Nat /\ n > 0 /\ DOMAIN d = 1 .. n
  BY DEF Durations
<1>2. k \in 1 .. n /\ n <= k * 2 /\ (k = 1 \/ (k - 1) * 2 < n)
  <2>1. 1 \in Nat /\ 2 \in Nat /\ 2 > 0 /\ 1 <= 2
    OBVIOUS
  <2> HIDE DEF n
  <2>2. IsNearestRank(1, 2, n) /\ (k = 1 \/ (k - 1) * 2 < n)
    BY <1>1, <2>1, RankIs, HalfIs DEF n
  <2> HIDE DEF k
  <2>3. k \in 1 .. n /\ k * 2 >= 1 * n
    BY <2>2 DEF IsNearestRank, k
  <2> QED
    BY <1>1, <2>2, <2>3
<1> HIDE DEF k, s
<1>3. PICK o : Sorting(o, s, d)
  BY SortedIs DEF s
<1>4. Cardinality(below) <= k - 1 /\ Cardinality(above) <= n - k
  BY <1>1, <1>2, <1>3, RankCounts
<1>5. median(d) = s[k]
  BY DEF median, percentile, s, k
<1>6. IsFiniteSet(below) /\ IsFiniteSet(above)
  <2>1. IsFiniteSet(DOMAIN d)
    BY <1>1, FS_Interval
  <2>2. below \in SUBSET (DOMAIN d) /\ above \in SUBSET (DOMAIN d)
    OBVIOUS
  <2> HIDE DEF below, above
  <2> QED
    BY <2>1, <2>2, FS_Subset
<1>7. Cardinality(below) \in Nat /\ Cardinality(above) \in Nat
  BY <1>6, FS_CardinalityType
<1>8. 2 * Cardinality(below) < n /\ 2 * Cardinality(above) <= n
  <2> HIDE DEF below, above, n
  <2> QED
    BY <1>1, <1>2, <1>4, <1>7
<1> QED
  BY <1>5, <1>8 DEF IsMiddle

\* A quotient of a sum of n numbers between lo and hi lies there too.
LEMMA MeanBounds ==
    ASSUME NEW n \in Nat, n > 0, NEW lo \in Nat, NEW hi \in Nat,
           NEW t \in Nat, n * lo <= t, t <= n * hi,
           NEW m \in Nat, m * n <= t, t < m * n + n
    PROVE  lo <= m /\ m <= hi
<1>1. lo <= m
  <2> SUFFICES ASSUME m + 1 <= lo PROVE FALSE
    OBVIOUS
  <2>1. (m + 1) * n <= lo * n
    BY Monotone
  <2>2. (m + 1) * n = m * n + n /\ lo * n = n * lo
    OBVIOUS
  <2>3. m * n \in Nat /\ lo * n \in Nat /\ n * lo \in Nat /\ (m + 1) * n \in Nat
    OBVIOUS
  <2> QED
    BY <2>1, <2>2, <2>3
<1>2. m <= hi
  <2> SUFFICES ASSUME hi + 1 <= m PROVE FALSE
    OBVIOUS
  <2>1. (hi + 1) * n <= m * n
    BY Monotone
  <2>2. (hi + 1) * n = hi * n + n /\ hi * n = n * hi
    OBVIOUS
  <2>3. m * n \in Nat /\ hi * n \in Nat /\ n * hi \in Nat /\ (hi + 1) * n \in Nat
    OBVIOUS
  <2> QED
    BY <2>1, <2>2, <2>3
<1> QED
  BY <1>1, <1>2

\* The mean lies between the extremes.
LEMMA MeanBetween ==
    ASSUME NEW d \in Durations
    PROVE  mean(d) \in min(d) .. max(d)
<1> DEFINE D == DOMAIN d
           n == Len(d)
           V == Range(d)
           lo == Min(V)
           hi == Max(V)
<1>1. d \in Seq(Nat) /\ n \in Nat /\ n > 0 /\ D = 1 .. n /\ d \in [D -> Nat]
  BY DEF Durations
<1>2. IsFiniteSet(D) /\ Cardinality(D) = n
  <2>1. IsFiniteSet(1 .. n) /\ Cardinality(1 .. n) = IF 1 > n THEN 0 ELSE n - 1 + 1
    BY <1>1, FS_Interval
  <2> QED
    BY <1>1, <2>1
<1>3. V \subseteq Nat /\ V # {} /\ IsFiniteSet(V)
  <2>1. V \subseteq Nat /\ V # {}
    BY <1>1 DEF Range
  <2>2. d \in Surjection(D, V)
    BY <1>1 DEF Surjection, Range
  <2> QED
    BY <1>2, <2>1, <2>2, FS_Surjection
<1>4. /\ lo \in V /\ \A v \in V : lo <= v
      /\ hi \in V /\ \A v \in V : v <= hi
  <2>1. V \subseteq Int
    BY <1>3
  <2> HIDE DEF V
  <2> QED
    BY <1>3, <2>1, ExtremesExist, Zenon
<1>5. \A i \in D : lo <= d[i] /\ d[i] <= hi
  <2>1. \A i \in D : d[i] \in V
    BY DEF Range
  <2> QED
    BY <1>4, <2>1
<1>6. lo \in Nat /\ hi \in Nat
  BY <1>3, <1>4
<1> HIDE DEF lo, hi, V
<1>7. PICK g : IsSum(g, D, d) /\ SumFunction(d) = g[D]
  BY <1>1, <1>2, SumOf
<1>8. n * lo <= g[D] /\ g[D] <= n * hi
  BY <1>1, <1>2, <1>5, <1>6, <1>7, SumBounds
<1>9. g[D] \in Nat
  BY <1>7 DEF IsSum
<1> DEFINE t == g[D]
           m == t \div n
<1>10. m \in Nat /\ m * n <= t /\ t < m * n + n
  <2> HIDE DEF t, n
  <2> QED
    BY <1>1, <1>9, Quotient DEF t
<1> HIDE DEF m, n
<1>11. t \in Nat /\ n * lo <= t /\ t <= n * hi
  BY <1>8, <1>9
<1> HIDE DEF t
<1>12. lo <= m /\ m <= hi
  BY <1>1, <1>6, <1>10, <1>11, MeanBounds
<1>13. mean(d) = m /\ min(d) = lo /\ max(d) = hi
  BY <1>7 DEF mean, total, min, max, m, n, t, lo, hi, V
<1> QED
  BY <1>6, <1>10, <1>12, <1>13

-----------------------------------------------------------------------------
(* 3. Durations written as text *)

\* TrimEnd takes the blanks off the end, and nothing else.
Trimmed(t, u) ==
    \E b \in 0 .. Len(t) :
        /\ Len(u) = b /\ \A i \in 1 .. b : u[i] = t[i]
        /\ b > 0 => t[b] # Blank
        /\ \A i \in 1 .. Len(t) : i > b => t[i] = Blank

\* TrimEnd does that, whatever the tokens.
LEMMA TrimEndIs ==
    ASSUME NEW S, NEW t \in Seq(S)
    PROVE  TrimEnd(t) \in Seq(S) /\ Trimmed(t, TrimEnd(t))
<1> DEFINE T == {i \in DOMAIN t : t[i] # Blank} \cup {0}
           b == Max(T)
<1>1. Len(t) \in Nat /\ DOMAIN t = 1 .. Len(t)
  OBVIOUS
<1>2. T \subseteq 0 .. Len(t) /\ T # {}
  BY <1>1
<1>3. b \in T /\ \A i \in T : b >= i
  <2> HIDE DEF T
  <2>1. \E x \in T : \A y \in T : x >= y
    BY <1>1, <1>2, GreatestNat
  <2> QED
    BY <2>1, Zenon DEF Max
<1>4. TrimEnd(t) = SubSeq(t, 1, b)
  BY DEF TrimEnd
<1> HIDE DEF b
<1>5. b \in 0 .. Len(t)
  BY <1>2, <1>3
<1>6. /\ SubSeq(t, 1, b) \in Seq(S) /\ Len(SubSeq(t, 1, b)) = b
      /\ \A i \in 1 .. b : SubSeq(t, 1, b)[i] = t[i]
  <2>1. b \in Nat /\ b <= Len(t)
    BY <1>1, <1>5
  <2>2. 1 \in 1 .. Len(t) + 1 /\ b \in 0 .. Len(t)
    BY <1>1, <1>5
  <2> QED
    BY <1>1, <2>1, <2>2, SubSeqProperties
<1>7. b > 0 => t[b] # Blank
  BY <1>3
<1>8. \A i \in 1 .. Len(t) : i > b => t[i] = Blank
  BY <1>1, <1>3, <1>5
<1> QED
  BY <1>4, <1>5, <1>6, <1>7, <1>8 DEF Trimmed

\* Reverse, position by position.
LEMMA ReverseIs ==
    ASSUME NEW S, NEW t \in Seq(S)
    PROVE  /\ Reverse(t) \in Seq(S) /\ Len(Reverse(t)) = Len(t)
           /\ \A i \in 1 .. Len(t) : Reverse(t)[i] = t[Len(t) - i + 1]
<1>1. Len(t) \in Nat /\ \A i \in 1 .. Len(t) : t[i] \in S
  OBVIOUS
<1>2. \A i \in 1 .. Len(t) : Len(t) - i + 1 \in 1 .. Len(t)
  BY <1>1
<1>3. Reverse(t) = [i \in 1 .. Len(t) |-> t[Len(t) - i + 1]]
  BY DEF Reverse
<1>4. [i \in 1 .. Len(t) |-> t[Len(t) - i + 1]] \in Seq(S)
  BY <1>1, <1>2
<1>5. Len([i \in 1 .. Len(t) |-> t[Len(t) - i + 1]]) = Len(t)
  BY <1>1
<1> QED
  BY <1>3, <1>4, <1>5

\* w is t from position a to position b, and that is all but blanks.
Stripped(t, w, a, b) ==
    /\ a \in 1 .. b /\ b \in 1 .. Len(t)
    /\ Len(w) = b - a + 1 /\ \A i \in 1 .. b - a + 1 : w[i] = t[a - 1 + i]
    /\ t[a] # Blank /\ t[b] # Blank
    /\ \A i \in 1 .. Len(t) : i < a \/ i > b => t[i] = Blank

\* Trim strips the blanks at both ends, or everything if all is blank.
LEMMA TrimIs ==
    ASSUME NEW S, NEW t \in Seq(S)
    PROVE  /\ Trim(t) \in Seq(S)
           /\ \/ Trim(t) = <<>> /\ \A i \in 1 .. Len(t) : t[i] = Blank
              \/ \E a, b \in 1 .. Len(t) : Stripped(t, Trim(t), a, b)
<1> DEFINE u == TrimEnd(t)
           r == Reverse(u)
           v == TrimEnd(r)
           w == Reverse(v)
<1>1. u \in Seq(S) /\ Trimmed(t, u)
  BY TrimEndIs
<1> HIDE DEF u
<1>2. /\ r \in Seq(S) /\ Len(r) = Len(u)
      /\ \A i \in 1 .. Len(u) : r[i] = u[Len(u) - i + 1]
  BY <1>1, ReverseIs
<1> HIDE DEF r
<1>3. v \in Seq(S) /\ Trimmed(r, v)
  BY <1>2, TrimEndIs
<1> HIDE DEF v
<1>4. /\ w \in Seq(S) /\ Len(w) = Len(v)
      /\ \A i \in 1 .. Len(v) : w[i] = v[Len(v) - i + 1]
  BY <1>3, ReverseIs
<1> HIDE DEF w
<1>5. Trim(t) = w
  BY DEF Trim, u, r, v, w
<1>6. PICK b \in 0 .. Len(t) :
          /\ Len(u) = b /\ \A i \in 1 .. b : u[i] = t[i]
          /\ b > 0 => t[b] # Blank
          /\ \A i \in 1 .. Len(t) : i > b => t[i] = Blank
  BY <1>1 DEF Trimmed
<1>7. PICK c \in 0 .. Len(r) :
          /\ Len(v) = c /\ \A i \in 1 .. c : v[i] = r[i]
          /\ c > 0 => r[c] # Blank
          /\ \A i \in 1 .. Len(r) : i > c => r[i] = Blank
  BY <1>3 DEF Trimmed
<1>8. Len(t) \in Nat /\ b \in Nat /\ c \in Nat /\ b <= Len(t) /\ c <= b /\ Len(r) = b
  <2>1. Len(t) \in Nat
    OBVIOUS
  <2> QED
    BY <1>2, <1>6, <1>7, <2>1
<1>9. CASE b = 0
  <2>1. Len(w) = 0
    BY <1>4, <1>7, <1>8, <1>9
  <2>2. w = <<>>
    BY <1>4, <2>1, EmptySeq
  <2>3. \A i \in 1 .. Len(t) : t[i] = Blank
    BY <1>6, <1>8, <1>9
  <2> QED
    BY <1>4, <1>5, <2>2, <2>3
<1>10. CASE b > 0
  <2>1. r[1] = t[b]
    <3>1. 1 \in 1 .. b /\ b - 1 + 1 = b /\ b \in 1 .. b
      BY <1>8, <1>10
    <3> QED
      BY <1>2, <1>6, <3>1
  <2>2. c > 0
    <3>1. 1 \in 1 .. Len(r)
      BY <1>8, <1>10
    <3>2. r[1] # Blank
      BY <1>6, <1>10, <2>1
    <3>3. ~(1 > c)
      BY <1>7, <3>1, <3>2
    <3> QED
      BY <1>8, <3>3
  <2> DEFINE a == b - c + 1
  <2>3. a \in 1 .. b /\ b \in 1 .. Len(t) /\ Len(w) = b - a + 1 /\ b - a + 1 = c
    BY <1>4, <1>7, <1>8, <1>10, <2>2
  <2>4. \A i \in 1 .. b - a + 1 : w[i] = t[a - 1 + i]
    <3> SUFFICES ASSUME NEW i \in 1 .. c PROVE w[i] = t[b - c + i]
      BY <1>8, <2>3
    <3>1. c - i + 1 \in 1 .. c /\ c - i + 1 \in 1 .. b
      BY <1>8
    <3>2. w[i] = v[c - i + 1] /\ v[c - i + 1] = r[c - i + 1]
      BY <1>4, <1>7, <3>1
    <3>3. r[c - i + 1] = u[b - (c - i + 1) + 1]
      BY <1>2, <1>6, <3>1
    <3>4. b - (c - i + 1) + 1 = b - c + i /\ b - c + i \in 1 .. b
      BY <1>8
    <3>5. u[b - c + i] = t[b - c + i]
      BY <1>6, <3>4
    <3> QED
      BY <3>2, <3>3, <3>4, <3>5
  <2>5. \A i \in 1 .. b : r[i] = t[b - i + 1]
    <3> SUFFICES ASSUME NEW i \in 1 .. b PROVE r[i] = t[b - i + 1]
      OBVIOUS
    <3>1. b - i + 1 \in 1 .. b
      BY <1>8
    <3> QED
      BY <1>2, <1>6, <3>1
  <2>6. t[a] # Blank /\ t[b] # Blank
    <3>1. c \in 1 .. b
      BY <1>8, <2>2
    <3> QED
      BY <1>6, <1>7, <1>10, <2>2, <2>5, <3>1
  <2>7. ASSUME NEW i \in 1 .. Len(t), i < a PROVE t[i] = Blank
    <3>1. b - i + 1 \in 1 .. b /\ b - i + 1 > c /\ b - (b - i + 1) + 1 = i
      BY <1>8, <2>2, <2>7
    <3>2. r[b - i + 1] = Blank
      BY <1>7, <1>8, <3>1
    <3> QED
      BY <2>5, <3>1, <3>2
  <2>8. ASSUME NEW i \in 1 .. Len(t), i > b PROVE t[i] = Blank
    BY <1>6, <2>8
  <2> HIDE DEF a
  <2>9. Stripped(t, w, a, b)
    BY <2>3, <2>4, <2>6, <2>7, <2>8 DEF Stripped
  <2>10. a \in 1 .. Len(t)
    BY <1>8, <2>3
  <2> QED
    BY <1>4, <1>5, <2>3, <2>9, <2>10
<1> QED
  BY <1>8, <1>9, <1>10

\* A prefix, position by position.
LEMMA PrefixIs ==
    ASSUME NEW S, NEW x \in Seq(S), NEW y \in Seq(S)
    PROVE  IsPrefix(x, y) <=> Len(x) <= Len(y) /\ \A i \in 1 .. Len(x) : x[i] = y[i]
<1>1. Len(x) \in Nat /\ Len(y) \in Nat
  OBVIOUS
<1>2. SubSeq(x, 1, Len(x)) = x
  BY SubSeqFull
<1>3. ASSUME Len(x) <= Len(y)
      PROVE  SubSeq(y, 1, Len(x)) = x <=> \A i \in 1 .. Len(x) : x[i] = y[i]
  <2> DEFINE z == SubSeq(y, 1, Len(x))
  <2>1. z \in Seq(S) /\ Len(z) = Len(x) /\ \A i \in 1 .. Len(x) : z[i] = y[i]
    <3>1. 1 \in 1 .. Len(y) + 1 /\ Len(x) \in 0 .. Len(y)
      BY <1>1, <1>3
    <3> QED
      BY <1>1, <1>3, <3>1, SubSeqProperties
  <2> HIDE DEF z
  <2>2. z = x <=> \A i \in 1 .. Len(x) : x[i] = z[i]
    BY <2>1, SeqEqual
  <2> QED
    BY <2>1, <2>2 DEF z
<1> QED
  BY <1>2, <1>3 DEF IsPrefix

\* A suffix, position by position.
LEMMA SuffixIs ==
    ASSUME NEW S, NEW x \in Seq(S), NEW y \in Seq(S)
    PROVE  IsSuffix(x, y) <=>
               /\ Len(x) <= Len(y)
               /\ \A i \in 1 .. Len(x) : x[i] = y[Len(y) - Len(x) + i]
<1> DEFINE p == Reverse(x)
           q == Reverse(y)
<1>1. Len(x) \in Nat /\ Len(y) \in Nat
  OBVIOUS
<1>2. p \in Seq(S) /\ Len(p) = Len(x) /\ \A i \in 1 .. Len(x) : p[i] = x[Len(x) - i + 1]
  BY ReverseIs
<1>3. q \in Seq(S) /\ Len(q) = Len(y) /\ \A i \in 1 .. Len(y) : q[i] = y[Len(y) - i + 1]
  BY ReverseIs
<1>4. IsSuffix(x, y) <=> IsPrefix(p, q)
  BY DEF IsSuffix
<1> HIDE DEF p, q
<1>5. IsPrefix(p, q) <=> Len(x) <= Len(y) /\ \A i \in 1 .. Len(x) : p[i] = q[i]
  BY <1>2, <1>3, PrefixIs
<1>6. ASSUME Len(x) <= Len(y), \A i \in 1 .. Len(x) : p[i] = q[i], NEW i \in 1 .. Len(x)
      PROVE  x[i] = y[Len(y) - Len(x) + i]
  <2> DEFINE j == Len(x) - i + 1
  <2>1. /\ j \in 1 .. Len(x) /\ j \in 1 .. Len(y)
        /\ Len(x) - j + 1 = i /\ Len(y) - j + 1 = Len(y) - Len(x) + i
    BY <1>1, <1>6
  <2> HIDE DEF j
  <2> QED
    BY <1>2, <1>3, <1>6, <2>1
<1>7. ASSUME Len(x) <= Len(y), \A i \in 1 .. Len(x) : x[i] = y[Len(y) - Len(x) + i],
             NEW i \in 1 .. Len(x)
      PROVE  p[i] = q[i]
  <2> DEFINE j == Len(x) - i + 1
  <2>1. /\ j \in 1 .. Len(x) /\ i \in 1 .. Len(y)
        /\ Len(y) - i + 1 = Len(y) - Len(x) + j
    BY <1>1, <1>7
  <2>2. p[i] = x[j] /\ q[i] = y[Len(y) - i + 1]
    BY <1>2, <1>3, <2>1
  <2> HIDE DEF j
  <2> QED
    BY <1>7, <2>1, <2>2
<1> QED
  BY <1>4, <1>5, <1>6, <1>7

\* The letter before the "s" of the units that have one.
Initials == <<"m", "micro", "u", "n">>

\* The five units: one letter and an "s", with four different letters, or the "s".
LEMMA UnitsAre ==
    /\ DOMAIN Units = 1 .. 5 /\ DOMAIN Ticks = {Units[u] : u \in 1 .. 5}
    /\ \A u \in 1 .. 4 : Units[u] = <<Initials[u], "s">>
    /\ Units[5] = <<"s">>
    /\ \A u \in 1 .. 5 : Units[u] \in Seq(Tokens) /\ Len(Units[u]) \in {1, 2}
    /\ \A u \in 1 .. 5 : \A i \in 1 .. Len(Units[u]) : Units[u][i] # Blank
    /\ \A u \in 1 .. 4 : Initials[u] \in Letters
    /\ \A u, v \in 1 .. 4 : Initials[u] = Initials[v] => u = v
<1>1. DOMAIN Units = 1 .. 5
  BY DEF Units
<1>2. DOMAIN Ticks = {Units[u] : u \in 1 .. 5}
  BY <1>1, GrammarAssumption DEF Range
<1>3. /\ Units[1] = <<"m", "s">> /\ Units[2] = <<"micro", "s">>
      /\ Units[3] = <<"u", "s">> /\ Units[4] = <<"n", "s">> /\ Units[5] = <<"s">>
  BY DEF Units
<1>4. /\ Initials[1] = "m" /\ Initials[2] = "micro"
      /\ Initials[3] = "u" /\ Initials[4] = "n"
  BY DEF Initials
<1>5. 1 .. 4 = {1, 2, 3, 4} /\ 1 .. 5 = {1, 2, 3, 4, 5}
  OBVIOUS
<1>6. \A u \in 1 .. 4 : Units[u] = <<Initials[u], "s">>
  BY <1>3, <1>4, <1>5
<1>7. \A u \in 1 .. 4 : Initials[u] \in Letters /\ Initials[u] # Blank
  BY <1>4, <1>5 DEF Letters, Blank
<1>8. \A u, v \in 1 .. 4 : Initials[u] = Initials[v] => u = v
  BY <1>4, <1>5
<1>9. "s" \in Tokens /\ "s" # Blank /\ \A u \in 1 .. 4 : Initials[u] \in Tokens
  BY <1>7 DEF Tokens, Letters, Blank
<1>10. ASSUME NEW u \in 1 .. 5
       PROVE  /\ Units[u] \in Seq(Tokens) /\ Len(Units[u]) \in {1, 2}
              /\ \A i \in 1 .. Len(Units[u]) : Units[u][i] # Blank
  <2>1. CASE u = 5
    <3> DEFINE c == "s"
    <3>1. c \in Tokens /\ c # Blank /\ Units[u] = <<c>>
      BY <1>3, <1>9, <2>1
    <3> HIDE DEF c
    <3>2. <<c>> \in Seq(Tokens) /\ Len(<<c>>) = 1
      BY <3>1
    <3>3. \A i \in 1 .. 1 : <<c>>[i] # Blank
      BY <3>1
    <3> QED
      BY <3>1, <3>2, <3>3
  <2>2. CASE u \in 1 .. 4
    <3> DEFINE x == Initials[u]
    <3>1. x \in Tokens /\ x # Blank /\ Units[u] = <<x, "s">>
      BY <1>6, <1>7, <1>9, <2>2
    <3> HIDE DEF x
    <3>2. <<x, "s">> \in Seq(Tokens) /\ Len(<<x, "s">>) = 2
      BY <1>9, <3>1
    <3>3. \A i \in 1 .. 2 : <<x, "s">>[i] # Blank
      BY <1>9, <3>1
    <3> QED
      BY <3>1, <3>2, <3>3
  <2> QED
    BY <2>1, <2>2
<1> QED
  BY <1>1, <1>2, <1>3, <1>6, <1>7, <1>8, <1>10

\* What parse_duration makes of a trimmed text.
UnitOf(w)   == Min({u \in DOMAIN Units : IsSuffix(Units[u], w)} \cup {6})
NumberOf(w) == TrimEnd(SubSeq(w, 1, Len(w) - Len(Units[UnitOf(w)])))

\* The unit is the first one that the text ends in.
LEMMA UnitOfIs ==
    ASSUME NEW w \in Seq(Tokens)
    PROVE  /\ UnitOf(w) \in 1 .. 6
           /\ UnitOf(w) # 6 => IsSuffix(Units[UnitOf(w)], w)
           /\ \A u \in 1 .. 5 : IsSuffix(Units[u], w) => UnitOf(w) <= u
<1> DEFINE T == {u \in DOMAIN Units : IsSuffix(Units[u], w)} \cup {6}
<1>1. T \subseteq 1 .. 6 /\ 6 \in T
  BY UnitsAre
<1>2. IsFiniteSet(T)
  <2>1. IsFiniteSet(1 .. 6)
    <3>1. 1 \in Int /\ 6 \in Int
      OBVIOUS
    <3> QED
      BY <3>1, FS_Interval, Zenon
  <2> QED
    BY <1>1, <2>1, FS_Subset
<1>3. Min(T) \in T /\ \A u \in T : Min(T) <= u
  <2>1. T \subseteq Int /\ T # {}
    BY <1>1
  <2> HIDE DEF T
  <2> QED
    BY <1>2, <2>1, ExtremesExist
<1>4. \A u \in 1 .. 5 : IsSuffix(Units[u], w) => u \in T
  BY UnitsAre
<1>5. UnitOf(w) = Min(T)
  BY DEF UnitOf
<1>6. \A u \in T : u # 6 => IsSuffix(Units[u], w)
  OBVIOUS
<1> HIDE DEF T
<1> QED
  BY <1>1, <1>3, <1>4, <1>5, <1>6

\* The first part of a sequence.
LEMMA FrontPart ==
    ASSUME NEW S, NEW w \in Seq(S), NEW m \in 0 .. Len(w)
    PROVE  /\ SubSeq(w, 1, m) \in Seq(S) /\ Len(SubSeq(w, 1, m)) = m
           /\ \A i \in 1 .. m : SubSeq(w, 1, m)[i] = w[i]
<1>1. Len(w) \in Nat /\ m \in Nat /\ m <= Len(w) /\ \A i \in 1 .. m : w[i] \in S
  OBVIOUS
<1>2. /\ SubSeq(w, 1, m) \in Seq(S)
      /\ Len(SubSeq(w, 1, m)) = IF 1 <= m THEN m - 1 + 1 ELSE 0
      /\ \A i \in 1 .. m - 1 + 1 : SubSeq(w, 1, m)[i] = w[1 + i - 1]
  BY <1>1, SubSeqProperties
<1>3. m - 1 + 1 = m /\ \A i \in 1 .. m : 1 + i - 1 = i
  BY <1>1
<1> QED
  BY <1>1, <1>2, <1>3

\* A text that the grammar reads is cut where the grammar cuts it.
LEMMA ReadingParsed ==
    ASSUME NEW text \in Seq(Tokens), NEW n \in DOMAIN Numerals, NEW k \in 1 .. 5,
           Reads(text, n, Units[k])
    PROVE  /\ Trim(text) # <<>>
           /\ UnitOf(Trim(text)) = k
           /\ NumberOf(Trim(text)) = <<n>>
<1> DEFINE w == Trim(text)
           unit == Units[k]
           L == Len(unit)
           N == Len(text)
<1>1. /\ unit \in Seq(Tokens) /\ L \in {1, 2} /\ N \in Nat
      /\ \A m \in 1 .. L : unit[m] # Blank
  BY UnitsAre
<1>2. n # Blank /\ n \notin Letters
  BY GrammarAssumption
<1>3. PICK i \in 1 .. N, j \in 1 .. N :
          /\ i < j /\ text[i] = n
          /\ IsPrefix(unit, SubSeq(text, j, N))
          /\ \A q \in 1 .. N : q \in {i} \cup j .. j + L - 1 \/ text[q] = Blank
  <2>1. DOMAIN text = 1 .. N
    OBVIOUS
  <2> QED
    BY <2>1 DEF Reads
<1> DEFINE e == j + L - 1
<1> HIDE DEF w, unit, N, L
<1>4. e \in 1 .. N /\ j <= e /\ \A m \in 1 .. L : text[j - 1 + m] = unit[m]
  <2> DEFINE y == SubSeq(text, j, N)
  <2>1. /\ y \in Seq(Tokens) /\ Len(y) = N - j + 1
        /\ \A m \in 1 .. N - j + 1 : y[m] = text[j + m - 1]
    <3>1. \A q \in j .. N : text[q] \in Tokens
      BY <1>1 DEF N
    <3>2. /\ y \in Seq(Tokens)
          /\ Len(y) = IF j <= N THEN N - j + 1 ELSE 0
          /\ \A m \in 1 .. N - j + 1 : y[m] = text[j + m - 1]
      BY <1>1, <3>1, SubSeqProperties
    <3> QED
      BY <1>1, <3>2
  <2> HIDE DEF y
  <2>2. L <= Len(y) /\ \A m \in 1 .. L : unit[m] = y[m]
    <3>1. IsPrefix(unit, y)
      BY <1>3 DEF y
    <3> QED
      <4>1. IsPrefix(unit, y)
                <=> Len(unit) <= Len(y) /\ \A m \in 1 .. Len(unit) : unit[m] = y[m]
        <5>1. unit \in Seq(Tokens) /\ y \in Seq(Tokens)
          BY <1>1, <2>1
        <5> QED
          BY <5>1, PrefixIs
      <4> QED
        BY <3>1, <4>1 DEF L
  <2>3. e \in 1 .. N /\ j <= e
    BY <1>1, <2>1, <2>2
  <2>4. ASSUME NEW m \in 1 .. L PROVE text[j - 1 + m] = unit[m]
    <3>1. m \in 1 .. N - j + 1 /\ j + m - 1 = j - 1 + m
      BY <1>1, <2>1, <2>2
    <3> QED
      BY <2>1, <2>2, <3>1
  <2> QED
    BY <2>3, <2>4
<1>5. text[e] # Blank
  <2>1. L \in 1 .. L /\ j - 1 + L = e
    BY <1>1
  <2> QED
    BY <1>1, <1>4, <2>1
<1>6. ASSUME NEW q \in 1 .. N, text[q] # Blank PROVE (q = i \/ (j <= q /\ q <= e))
  BY <1>1, <1>3, <1>6
<1> HIDE DEF e
<1>7. w \in Seq(Tokens) /\ \E a, b \in 1 .. N : Stripped(text, w, a, b)
  <2>1. text[i] # Blank
    BY <1>2, <1>3
  <2> QED
    BY <1>3, <2>1, TrimIs DEF w, N
<1>8. Stripped(text, w, i, e)
  <2>1. PICK a \in 1 .. N, b \in 1 .. N : Stripped(text, w, a, b)
    BY <1>7
  <2>2. /\ a <= b /\ text[a] # Blank /\ text[b] # Blank
        /\ \A q \in 1 .. N : q < a \/ q > b => text[q] = Blank
    BY <1>1, <2>1 DEF Stripped, N
  <2>3. i <= a
    BY <1>1, <1>3, <1>6, <2>2
  <2>4. ~(i < a)
    BY <1>2, <1>3, <2>2
  <2>5. b <= e
    BY <1>1, <1>3, <1>4, <1>6, <2>2
  <2>6. ~(e > b)
    BY <1>4, <1>5, <2>2
  <2>7. a = i /\ b = e
    BY <1>1, <1>3, <1>4, <2>3, <2>4, <2>5, <2>6
  <2> QED
    BY <2>1, <2>7
<1>9. /\ i \in 1 .. e /\ Len(w) = e - i + 1
      /\ \A m \in 1 .. e - i + 1 : w[m] = text[i - 1 + m]
  BY <1>8 DEF Stripped
<1>10. j = e - L + 1 /\ L <= Len(w) /\ Len(w) - L = j - i
  BY <1>1, <1>3, <1>4, <1>9 DEF e
<1>11. IsSuffix(unit, w)
  <2>1. ASSUME NEW m \in 1 .. L PROVE unit[m] = w[Len(w) - L + m]
    <3>1. Len(w) - L + m \in 1 .. e - i + 1 /\ i - 1 + (Len(w) - L + m) = j - 1 + m
      BY <1>1, <1>3, <1>4, <1>9, <1>10
    <3> QED
      BY <1>4, <1>9, <3>1
  <2> QED
    BY <1>1, <1>7, <1>10, <2>1, SuffixIs DEF L
<1>12. UnitOf(w) = k
  <2> DEFINE u == UnitOf(w)
  <2>1. u \in 1 .. 6 /\ u <= k /\ (u # 6 => IsSuffix(Units[u], w))
    BY <1>7, <1>11, UnitOfIs DEF unit
  <2> HIDE DEF u
  <2> SUFFICES ASSUME u < k PROVE FALSE
    BY <2>1 DEF u
  <2>2. u \in 1 .. 4 /\ IsSuffix(<<Initials[u], "s">>, w)
    <3>1. u \in 1 .. 4 /\ u # 6
      BY <2>1
    <3>2. Units[u] = <<Initials[u], "s">>
      BY <3>1, UnitsAre
    <3> QED
      BY <2>1, <3>1, <3>2
  <2>3. Initials[u] \in Letters /\ Units[u] \in Seq(Tokens) /\ Units[u] = <<Initials[u], "s">>
    BY <2>2, UnitsAre
  <2>4. 2 <= Len(w) /\ w[Len(w) - 1] = Initials[u]
    <3> DEFINE x == Initials[u]
    <3>1. IsSuffix(<<x, "s">>, w) /\ <<x, "s">> \in Seq(Tokens)
      BY <2>2, <2>3
    <3> HIDE DEF x
    <3>2. Len(<<x, "s">>) = 2 /\ <<x, "s">>[1] = x
      OBVIOUS
    <3>3. 2 <= Len(w) /\ \A m \in 1 .. 2 : <<x, "s">>[m] = w[Len(w) - 2 + m]
      BY <1>7, <3>1, <3>2, SuffixIs
    <3>4. 1 \in 1 .. 2 /\ Len(w) - 2 + 1 = Len(w) - 1
      BY <1>1, <1>9
    <3> QED
      BY <3>2, <3>3, <3>4 DEF x
  <2>5. CASE k \in 1 .. 4
    <3>1. L = 2 /\ unit[1] = Initials[k]
      <4> DEFINE y == Initials[k]
      <4>1. unit = <<y, "s">>
        BY <2>5, UnitsAre DEF unit
      <4> HIDE DEF y
      <4>2. Len(<<y, "s">>) = 2 /\ <<y, "s">>[1] = y
        OBVIOUS
      <4> QED
        BY <4>1, <4>2 DEF y, L
    <3>2. text[j] = Initials[k]
      <4>1. 1 \in 1 .. L /\ j - 1 + 1 = j
        BY <1>3, <1>1, <3>1
      <4> QED
        BY <1>4, <3>1, <4>1
    <3>3. w[Len(w) - 1] = text[j]
      <4>1. Len(w) - 1 \in 1 .. e - i + 1 /\ i - 1 + (Len(w) - 1) = j
        BY <1>1, <1>3, <1>4, <1>9, <1>10, <2>4, <3>1
      <4> QED
        BY <1>9, <4>1
    <3>4. Initials[u] = Initials[k]
      BY <2>4, <3>2, <3>3
    <3> QED
      BY <2>1, <2>2, <2>5, <3>4, UnitsAre
  <2>6. CASE k = 5
    <3>1. L = 1
      BY <2>6, UnitsAre DEF L, unit
    <3>2. w[Len(w) - 1] = text[j - 1] /\ j - 1 \in 1 .. N
      <4>1. Len(w) - 1 \in 1 .. e - i + 1 /\ i - 1 + (Len(w) - 1) = j - 1
        BY <1>1, <1>3, <1>4, <1>9, <1>10, <2>4, <3>1
      <4>2. j - 1 \in 1 .. N
        BY <1>1, <1>3
      <4> QED
        BY <1>9, <4>1, <4>2
    <3>3. text[j - 1] = n \/ text[j - 1] = Blank
      BY <1>1, <1>3, <1>6, <3>2
    <3>4. Blank \notin Letters
      BY DEF Blank, Letters
    <3> QED
      BY <1>2, <2>3, <2>4, <3>2, <3>3, <3>4
  <2> QED
    BY <2>5, <2>6
<1>13. NumberOf(w) = <<n>>
  <2> DEFINE z == SubSeq(w, 1, Len(w) - L)
  <2>1. NumberOf(w) = TrimEnd(z)
    BY <1>12 DEF NumberOf, L, unit
  <2>2. Len(w) - L = j - i /\ j - i \in 0 .. Len(w) /\ 1 <= j - i
    BY <1>1, <1>3, <1>4, <1>9, <1>10
  <2>3. /\ z \in Seq(Tokens) /\ Len(z) = j - i
        /\ \A m \in 1 .. j - i : z[m] = w[m]
    BY <1>7, <2>2, FrontPart
  <2> HIDE DEF z
  <2>4. ASSUME NEW m \in 1 .. j - i PROVE z[m] = text[i - 1 + m]
    <3>1. m \in 1 .. e - i + 1
      BY <1>1, <1>3, <1>4, <1>9
    <3> QED
      BY <1>9, <2>3, <3>1
  <2>5. z[1] = n
    <3>1. 1 \in 1 .. j - i /\ i - 1 + 1 = i
      BY <1>1, <1>3
    <3> QED
      BY <1>3, <2>4, <3>1
  <2>6. ASSUME NEW m \in 1 .. j - i, m > 1 PROVE z[m] = Blank
    <3>1. i - 1 + m \in 1 .. N /\ i - 1 + m # i /\ ~(j <= i - 1 + m)
      BY <1>1, <1>3, <2>6
    <3>2. text[i - 1 + m] = Blank
      BY <1>6, <3>1
    <3> QED
      BY <2>4, <3>2
  <2> DEFINE v == TrimEnd(z)
  <2>7. v \in Seq(Tokens) /\ Trimmed(z, v)
    BY <2>3, TrimEndIs
  <2> HIDE DEF v
  <2>8. PICK c \in 0 .. Len(z) :
            /\ Len(v) = c /\ \A m \in 1 .. c : v[m] = z[m]
            /\ c > 0 => z[c] # Blank
            /\ \A m \in 1 .. Len(z) : m > c => z[m] = Blank
    BY <2>7 DEF Trimmed
  <2>9. c # 0
    <3>1. 1 \in 1 .. Len(z)
      BY <2>2, <2>3
    <3> QED
      BY <1>2, <2>5, <2>8, <3>1
  <2>10. ~(c > 1)
    <3> SUFFICES ASSUME c > 1 PROVE FALSE
      OBVIOUS
    <3>1. c \in 1 .. j - i
      BY <1>1, <1>3, <2>3, <2>8
    <3> QED
      BY <2>6, <2>8, <3>1
  <2>11. c = 1
    BY <2>2, <2>3, <2>8, <2>9, <2>10
  <2>12. v[1] = n /\ Len(v) = 1
    BY <2>5, <2>8, <2>11
  <2>13. v = <<n>>
    BY <2>7, <2>12
  <2> QED
    BY <2>1, <2>13 DEF v
<1>14. w # <<>>
  <2>1. Len(w) # 0
    BY <1>1, <1>10
  <2> QED
    BY <2>1
<1> QED
  BY <1>12, <1>13, <1>14 DEF w

\* Where the parser finds a number of one token, the grammar reads it.
LEMMA ParsedReads ==
    ASSUME NEW text \in Seq(Tokens), NEW k \in 1 .. 5,
           Trim(text) # <<>>, UnitOf(Trim(text)) = k,
           Len(NumberOf(Trim(text))) = 1
    PROVE  Reads(text, NumberOf(Trim(text))[1], Units[k])
<1> DEFINE w == Trim(text)
           unit == Units[k]
           L == Len(unit)
           N == Len(text)
           v == NumberOf(w)
<1>1. /\ unit \in Seq(Tokens) /\ L \in {1, 2} /\ N \in Nat /\ DOMAIN text = 1 .. N
  BY UnitsAre
<1>2. w \in Seq(Tokens) /\ \E a, b \in 1 .. N : Stripped(text, w, a, b)
  BY TrimIs
<1>3. IsSuffix(unit, w)
  BY <1>2, UnitOfIs
<1> DEFINE z == SubSeq(w, 1, Len(w) - L)
<1>4. v = TrimEnd(z) /\ Len(v) = 1
  BY DEF NumberOf
<1> HIDE DEF w, unit, L, N, v
<1>5. PICK a \in 1 .. N, b \in 1 .. N : Stripped(text, w, a, b)
  BY <1>2
<1>6. /\ a <= b /\ Len(w) = b - a + 1
      /\ \A m \in 1 .. b - a + 1 : w[m] = text[a - 1 + m]
      /\ \A q \in 1 .. N : q < a \/ q > b => text[q] = Blank
  BY <1>1, <1>5 DEF Stripped, N
<1>7. L <= Len(w) /\ \A m \in 1 .. L : unit[m] = w[Len(w) - L + m]
  BY <1>1, <1>2, <1>3, SuffixIs DEF L
<1>8. /\ z \in Seq(Tokens) /\ Len(z) = Len(w) - L
      /\ \A m \in 1 .. Len(w) - L : z[m] = w[m]
  <2>1. Len(w) - L \in 0 .. Len(w)
    BY <1>1, <1>6, <1>7
  <2> QED
    BY <1>2, <2>1, FrontPart
<1> HIDE DEF z
<1>9. Trimmed(z, v)
  BY <1>4, <1>8, TrimEndIs
<1>10. PICK c \in 0 .. Len(z) :
          /\ Len(v) = c /\ \A m \in 1 .. c : v[m] = z[m]
          /\ \A m \in 1 .. Len(z) : m > c => z[m] = Blank
  BY <1>9 DEF Trimmed
<1>11. c = 1 /\ 1 <= Len(z) /\ v[1] = z[1]
  <2>1. c = 1
    BY <1>4, <1>10
  <2>2. 1 \in 1 .. c /\ c <= Len(z)
    BY <1>8, <1>10, <2>1
  <2> QED
    BY <1>10, <2>1, <2>2
<1> DEFINE i == a
           j == b - L + 1
<1>12. i \in 1 .. N /\ j \in 1 .. N /\ i < j
  BY <1>1, <1>6, <1>7, <1>8, <1>11
<1>13. text[i] = v[1]
  <2>1. 1 \in 1 .. b - a + 1 /\ 1 \in 1 .. Len(w) - L /\ a - 1 + 1 = a
    BY <1>1, <1>6, <1>8, <1>11
  <2> QED
    BY <1>6, <1>8, <1>11, <2>1
<1>14. IsPrefix(unit, SubSeq(text, j, N))
  <2> DEFINE y == SubSeq(text, j, N)
  <2>1. /\ y \in Seq(Tokens) /\ Len(y) = N - j + 1
        /\ \A m \in 1 .. N - j + 1 : y[m] = text[j + m - 1]
    <3>1. \A q \in j .. N : text[q] \in Tokens
      BY <1>1, <1>12
    <3>2. /\ y \in Seq(Tokens)
          /\ Len(y) = IF j <= N THEN N - j + 1 ELSE 0
          /\ \A m \in 1 .. N - j + 1 : y[m] = text[j + m - 1]
      <4>1. j \in Int /\ N \in Int
        BY <1>1, <1>12
      <4> HIDE DEF j
      <4> QED
        BY <4>1, <3>1, SubSeqProperties
    <3> QED
      BY <1>1, <1>12, <3>2
  <2> HIDE DEF y
  <2>2. ASSUME NEW m \in 1 .. L PROVE unit[m] = y[m]
    <3>1. /\ m \in 1 .. N - j + 1 /\ Len(w) - L + m \in 1 .. b - a + 1
          /\ a - 1 + (Len(w) - L + m) = j + m - 1
      <4>1. /\ L \in Nat /\ m \in Nat /\ 1 <= m /\ m <= L /\ N \in Nat
            /\ a \in Nat /\ b \in Nat /\ 1 <= a /\ b <= N
            /\ Len(w) = b - a + 1 /\ L <= Len(w)
        BY <1>1, <1>6, <1>7
      <4>2. Len(w) - L + m = b - a + 1 - L + m
        BY <4>1
      <4> QED
        BY <4>1, <4>2
    <3> QED
      BY <1>6, <1>7, <2>1, <3>1
  <2>3. L <= Len(y)
    BY <1>1, <1>6, <1>12, <2>1
  <2>4. IsPrefix(unit, y)
    BY <1>1, <2>1, <2>2, <2>3, PrefixIs DEF L
  <2> QED
    BY <2>4 DEF y
<1>15. ASSUME NEW q \in 1 .. N, q \notin {i} \cup j .. j + L - 1
       PROVE  text[q] = Blank
  <2>1. CASE q < a \/ q > b
    BY <1>6, <2>1
  <2>2. CASE a < q /\ q < j
    <3> DEFINE m == q - a + 1
    <3>1. /\ m \in 1 .. b - a + 1 /\ a - 1 + m = q /\ m \in 1 .. Len(w) - L /\ m > 1
      BY <1>1, <1>6, <1>12, <2>2
    <3> HIDE DEF m
    <3>2. z[m] = Blank
      BY <1>8, <1>10, <1>11, <3>1
    <3> QED
      BY <1>6, <1>8, <3>1, <3>2
  <2>3. q < a \/ q > b \/ (a < q /\ q < j)
    BY <1>1, <1>6, <1>12, <1>15
  <2> QED
    BY <2>1, <2>2, <2>3
<1> HIDE DEF i, j
<1>16. \A q \in 1 .. N : q \in {i} \cup j .. j + L - 1 \/ text[q] = Blank
  BY <1>15
<1>17. \E i1, j1 \in DOMAIN text :
          /\ i1 < j1 /\ text[i1] = v[1]
          /\ IsPrefix(unit, SubSeq(text, j1, N))
          /\ \A q \in DOMAIN text : q \in {i1} \cup j1 .. j1 + L - 1 \/ text[q] = Blank
  BY <1>1, <1>12, <1>13, <1>14, <1>16
<1> QED
  BY <1>17 DEF Reads, v, w, unit, L, N

\* A text has at most MaxText tokens.
LEMMA TextIs ==
    ASSUME NEW text \in Texts
    PROVE  text \in Seq(Tokens) /\ Len(text) \in 0 .. MaxText
<1>1. text \in BoundedSeq(Tokens, MaxText)
  BY DEF Texts
<1>2. PICK m \in 0 .. MaxText : text \in [1 .. m -> Tokens]
  BY <1>1 DEF BoundedSeq, SeqOf
<1>3. m \in Nat /\ text \in Seq(Tokens)
  BY <1>2, TimingAssumption
<1>4. Len(text) = m
  BY <1>2, <1>3
<1> QED
  BY <1>3, <1>4

\* Trimming leaves nothing of blanks, and only of blanks.
LEMMA BlanksAreEmpty ==
    ASSUME NEW text \in Seq(Tokens), Len(text) \in 0 .. MaxText
    PROVE  Trim(text) = <<>> <=> text \in BoundedSeq({Blank}, MaxText)
<1> DEFINE N == Len(text)
<1>1. N \in Nat /\ text \in [1 .. N -> Tokens] /\ N \in 0 .. MaxText
  OBVIOUS
<1>2. \/ Trim(text) = <<>> /\ \A i \in 1 .. N : text[i] = Blank
      \/ \E a, b \in 1 .. N : Stripped(text, Trim(text), a, b)
  BY TrimIs
<1> HIDE DEF N
<1>3. ASSUME Trim(text) = <<>> PROVE text \in BoundedSeq({Blank}, MaxText)
  <2>1. \A a, b \in 1 .. N : ~Stripped(text, Trim(text), a, b)
    <3> SUFFICES ASSUME NEW a \in 1 .. N, NEW b \in 1 .. N, Stripped(text, Trim(text), a, b)
                 PROVE  FALSE
      OBVIOUS
    <3>1. a \in 1 .. b /\ Len(Trim(text)) = b - a + 1
      BY DEF Stripped
    <3>2. Len(Trim(text)) = 0
      BY <1>3
    <3> QED
      BY <1>1, <3>1, <3>2
  <2>2. text \in [1 .. N -> {Blank}]
    BY <1>1, <1>2, <2>1
  <2> QED
    BY <1>1, <2>2 DEF BoundedSeq, SeqOf
<1>4. ASSUME text \in BoundedSeq({Blank}, MaxText) PROVE Trim(text) = <<>>
  <2>1. PICK m \in 0 .. MaxText : text \in [1 .. m -> {Blank}]
    BY <1>4 DEF BoundedSeq, SeqOf
  <2>2. \A i \in 1 .. N : text[i] = Blank
    BY <1>1, <2>1
  <2>3. \A a, b \in 1 .. N : ~Stripped(text, Trim(text), a, b)
    BY <2>2 DEF Stripped
  <2> QED
    BY <1>2, <2>3
<1> QED
  BY <1>3, <1>4

\* The number and the unit of a text, where the parser sees a duration.
Accepts(text) ==
    /\ Trim(text) # <<>> /\ UnitOf(Trim(text)) \in 1 .. 5
    /\ ~Invalid(NumberOf(Trim(text)))

\* What the grammar reads in a text, negative numbers aside.
Readings(text) ==
    {r \in (DOMAIN Numerals) \X (DOMAIN Ticks) :
        Numerals[r[1]] >= 0 /\ Reads(text, r[1], r[2])}

\* What is not invalid is one numeral that is finite and not negative.
LEMMA ValidIs ==
    ASSUME NEW v
    PROVE  ~Invalid(v) <=> Len(v) = 1 /\ v[1] \in DOMAIN Numerals /\ Numerals[v[1]] >= 0
<1>1. ASSUME v[1] \in DOMAIN Numerals
      PROVE  Numerals[v[1]] \in Int
  BY <1>1, TimingAssumption
<1>2. NotFinite \in Int /\ NotFinite < 0
  BY DEF NotFinite
<1>3. ASSUME NEW x \in Int PROVE x >= 0 <=> ~(x = NotFinite \/ x < 0)
  BY <1>2
<1> QED
  BY <1>1, <1>3 DEF Invalid

\* A text that is accepted has one reading, the one that the parser finds.
LEMMA AcceptedReadings ==
    ASSUME NEW text \in Seq(Tokens), Accepts(text)
    PROVE  Readings(text) = {<<NumberOf(Trim(text))[1], Units[UnitOf(Trim(text))]>>}
<1> DEFINE v == NumberOf(Trim(text))
           k == UnitOf(Trim(text))
<1>1. /\ Trim(text) # <<>> /\ k \in 1 .. 5
      /\ Len(v) = 1 /\ v[1] \in DOMAIN Numerals /\ Numerals[v[1]] >= 0
  BY ValidIs DEF Accepts
<1>2. Units[k] \in DOMAIN Ticks
  BY <1>1, UnitsAre
<1>3. Reads(text, v[1], Units[k])
  BY <1>1, ParsedReads
<1> HIDE DEF v, k
<1>4. <<v[1], Units[k]>> \in Readings(text)
  BY <1>1, <1>2, <1>3 DEF Readings
<1>5. ASSUME NEW r \in Readings(text) PROVE r = <<v[1], Units[k]>>
  <2>1. PICK n \in DOMAIN Numerals, unit \in DOMAIN Ticks :
            r = <<n, unit>> /\ Reads(text, n, unit)
    BY DEF Readings
  <2>2. PICK l \in 1 .. 5 : unit = Units[l]
    BY UnitsAre
  <2>3. k = l /\ v = <<n>>
    BY <2>1, <2>2, ReadingParsed DEF k, v
  <2> QED
    BY <2>1, <2>2, <2>3
<1> QED
  BY <1>4, <1>5 DEF v, k

\* A text that is not accepted has none.
LEMMA RefusedReadings ==
    ASSUME NEW text \in Seq(Tokens), ~Accepts(text)
    PROVE  Readings(text) = {}
<1> SUFFICES ASSUME NEW r \in Readings(text) PROVE FALSE
  OBVIOUS
<1>1. PICK n \in DOMAIN Numerals, unit \in DOMAIN Ticks :
          Numerals[n] >= 0 /\ Reads(text, n, unit)
  BY DEF Readings
<1>2. PICK l \in 1 .. 5 : unit = Units[l]
  BY UnitsAre
<1>3. /\ Trim(text) # <<>> /\ UnitOf(Trim(text)) = l
      /\ NumberOf(Trim(text)) = <<n>>
  BY <1>1, <1>2, ReadingParsed
<1>4. Len(<<n>>) = 1 /\ <<n>>[1] = n
  OBVIOUS
<1>5. ~Invalid(NumberOf(Trim(text)))
  BY <1>1, <1>3, <1>4, ValidIs
<1> QED
  BY <1>3, <1>5 DEF Accepts

\* What parse_duration answers.
LEMMA ParsedIs ==
    ASSUME NEW text \in Seq(Tokens)
    PROVE  /\ parse_duration(text).is = "Empty" <=> Trim(text) = <<>>
           /\ ~Accepts(text) => parse_duration(text).is \notin {"Ok", "OutOfRange", "panic"}
           /\ Accepts(text) =>
                  parse_duration(text) = Scaled(Numerals[NumberOf(Trim(text))[1]]
                                                * Ticks[Units[UnitOf(Trim(text))]])
<1> DEFINE w == Trim(text)
           k == UnitOf(w)
           v == NumberOf(w)
           s == Scaled(Numerals[v[1]] * Ticks[Units[k]])
           p == parse_duration(text)
<1>1. p = IF w = <<>> THEN [is |-> "Empty"]
          ELSE IF k = 6 THEN [is |-> "MissingUnit"]
          ELSE IF v = <<>> THEN [is |-> "MissingNumber"]
          ELSE IF Invalid(v) THEN [is |-> "InvalidNumber"]
          ELSE s
  BY DEF parse_duration, UnitOf, NumberOf
<1>2. w \in Seq(Tokens)
  BY TrimIs
<1>3. k \in 1 .. 6
  BY <1>2, UnitOfIs
<1>4. v = <<>> => Invalid(v)
  <2>1. Len(<<>>) # 1
    OBVIOUS
  <2> QED
    BY <2>1 DEF Invalid
<1>5. Accepts(text) <=> w # <<>> /\ k # 6 /\ v # <<>> /\ ~Invalid(v)
  BY <1>3, <1>4 DEF Accepts
<1>6. s.is \in {"Ok", "OutOfRange", "panic"}
  BY DEF Scaled
<1> HIDE DEF w, k, v, s, p
<1>7. p.is = "Empty" <=> w = <<>>
  BY <1>1, <1>6
<1>8. ~Accepts(text) => p.is \notin {"Ok", "OutOfRange", "panic"}
  BY <1>1, <1>5
<1>9. Accepts(text) => p = s
  BY <1>1, <1>5
<1> QED
  BY <1>7, <1>8, <1>9 DEF w, k, v, s, p

\* parse_duration reads every text as the grammar does, but for the limit itself.
THEOREM ParserFollowsGrammar ==
    ASSUME NEW text \in Texts
    PROVE  ParseRight(text)
<1> DEFINE parsed == parse_duration(text)
           lengths == {Numerals[r[1]] * Ticks[r[2]] : r \in Readings(text)}
<1>1. text \in Seq(Tokens) /\ Len(text) \in 0 .. MaxText
  BY TextIs
<1>2. parsed.is = "Empty" <=> text \in BoundedSeq({Blank}, MaxText)
  BY <1>1, ParsedIs, BlanksAreEmpty
<1>3. SUFFICES /\ Cardinality(Readings(text)) <= 1
               /\ parsed.is = "Ok" => lengths = {parsed.duration}
               /\ parsed.is = "Ok" <=> \E d \in lengths : d < DurationEnd
               /\ parsed.is = "OutOfRange" => \E d \in lengths : d >= DurationEnd
               /\ (\E d \in lengths : d > DurationEnd) => parsed.is = "OutOfRange"
  BY <1>2, Zenon DEF ParseRight, Readings
<1>4. CASE Accepts(text)
  <2> DEFINE n == NumberOf(Trim(text))[1]
             unit == Units[UnitOf(Trim(text))]
             d == Numerals[n] * Ticks[unit]
  <2>1. n \in DOMAIN Numerals /\ unit \in DOMAIN Ticks
    BY <1>4, ValidIs, UnitsAre DEF Accepts
  <2>2. Readings(text) = {<<n, unit>>} /\ parsed = Scaled(d)
    BY <1>1, <1>4, AcceptedReadings, ParsedIs
  <2> HIDE DEF n, unit, parsed
  <2>3. d \in Int /\ DurationEnd \in Int
    <3>1. Numerals[n] \in Int /\ Ticks[unit] \in Int
      BY <2>1, TimingAssumption
    <3> QED
      BY <3>1, TimingAssumption
  <2>4. lengths = {d}
    BY <2>2
  <2>5. Cardinality(Readings(text)) = 1
    BY <2>2, FS_Singleton
  <2> HIDE DEF d, lengths
  <2>6. /\ parsed.is = "Ok" => parsed.duration = d
        /\ parsed.is = "Ok" <=> d < DurationEnd
        /\ parsed.is = "OutOfRange" => d >= DurationEnd
        /\ d > DurationEnd => parsed.is = "OutOfRange"
    <3>1. CASE d > DurationEnd
      <4>1. Scaled(d) = [is |-> "OutOfRange"]
        BY <2>3, <3>1 DEF Scaled
      <4> QED
        BY <2>2, <2>3, <3>1, <4>1
    <3>2. CASE d = DurationEnd
      <4>1. Scaled(d) = [is |-> "panic"]
        BY <2>3, <3>2 DEF Scaled
      <4> QED
        BY <2>2, <2>3, <3>2, <4>1
    <3>3. CASE d < DurationEnd
      <4>1. Scaled(d) = [is |-> "Ok", duration |-> d]
        BY <2>3, <3>3 DEF Scaled
      <4> QED
        BY <2>2, <2>3, <3>3, <4>1
    <3> QED
      BY <2>3, <3>1, <3>2, <3>3
  <2> QED
    BY <2>4, <2>5, <2>6
<1>5. CASE ~Accepts(text)
  <2>1. Readings(text) = {}
    BY <1>1, <1>5, RefusedReadings
  <2>2. Cardinality(Readings(text)) = 0 /\ lengths = {}
    BY <2>1, FS_EmptySet
  <2>3. parsed.is \notin {"Ok", "OutOfRange", "panic"}
    BY <1>1, <1>5, ParsedIs
  <2> QED
    BY <2>2, <2>3
<1> QED
  BY <1>4, <1>5

-----------------------------------------------------------------------------
(* 4. The measuring loop *)

\* What is known of a callback.
Frame == [index : Nat, took : Nat, allocated : Nat, reported : Nat]

\* The types of the loop's state.
LoopTypes ==
    /\ pc \in {"idle", "warmup", "warming", "measure", "measuring", "done", "failed"}
    /\ conf \in [warmup : Nat, iterations : Nat] /\ conf.iterations <= MaxIterations
    /\ frame_index \in Nat /\ now \in Nat /\ start \in Nat /\ allocated \in Nat
    /\ durations \in Seq(Nat)
    /\ work \in Seq(Frame)

\* Where run is, how many callbacks it has made and how many it has recorded.
Before ==
    /\ durations = <<>> /\ allocated = 0
    /\ tracker = 0
    /\ frame_index <= conf.warmup

\* After the warm-up the records are those of the callbacks after it.
After ==
    /\ frame_index = conf.warmup + Len(durations)
    /\ Len(durations) <= conf.iterations
    /\ Len(work) >= frame_index
    /\ \A i \in 1 .. Len(durations) : durations[i] = work[conf.warmup + i].took
    /\ allocated = SumFunction([i \in 1 .. Len(durations) |-> work[conf.warmup + i].allocated])

\* What holds where run is.
Control ==
    /\ pc \in {"idle", "warmup", "warming"} => Before
    /\ pc \in {"measure", "measuring", "done"} => After
    /\ pc = "idle" => frame_index = 0
    /\ pc \in {"warmup", "warming", "measure", "measuring", "done"} => conf.iterations > 0
    /\ pc \in {"idle", "warmup", "measure", "done"} => Len(work) = frame_index
    /\ Calling => Len(work) = frame_index + 1
    /\ pc = "warming" => frame_index < conf.warmup
    /\ pc = "measuring" => Len(durations) < conf.iterations
    /\ pc = "done" => Len(durations) = conf.iterations

\* What a callback was told, and what its budget told it.
Frames ==
    \A i \in DOMAIN work : LET f == work[i] IN
        /\ f.index = i - 1
        /\ f.reported # 0 => f.reported > BlockDuration /\ f.reported <= f.took

\* The guard of the loop and the clock of the loop see what the callback does.
Watched ==
    /\ pc # "measuring" => tracker = 0
    /\ pc = "measuring" =>
          /\ tracker \in DOMAIN guards[Audio]
          /\ now - start = work[Len(work)].took
          /\ panic[Audio] = "none" =>
                guards[Audio][tracker].real = work[Len(work)].allocated

\* The budget of the callback began no earlier than the callback.
Budgeted ==
    budget # NoBudget =>
        /\ Calling
        /\ budget \in [start : Nat, budget : {BlockDuration}]
        /\ budget.start <= now
        /\ now - budget.start <= work[Len(work)].took

\* The invariant of the loop, next to Inv of its thread.
LoopInv == LoopTypes /\ Control /\ Frames /\ Watched /\ Budgeted

-----------------------------------------------------------------------------
\* A callback writes only its own frame.
LEMMA LastFrame ==
    ASSUME NEW s \in Seq(Frame), Len(s) > 0, NEW f \in Frame,
           NEW w, w = [s EXCEPT ![Len(s)] = f]
    PROVE  /\ w \in Seq(Frame) /\ Len(w) = Len(s) /\ w[Len(s)] = f
           /\ \A i \in 1 .. Len(s) : i # Len(s) => w[i] = s[i]
<1>1. Len(s) \in Nat /\ s \in [1 .. Len(s) -> Frame] /\ Len(s) \in 1 .. Len(s)
  OBVIOUS
<1> DEFINE n == Len(s)
<1> HIDE DEF n
<1>2. w \in [1 .. n -> Frame] /\ n \in Nat
  BY <1>1 DEF n
<1>3. w \in Seq(Frame) /\ Len(w) = n
  BY <1>2
<1> QED
  BY <1>1, <1>3 DEF n

\* Steps of the loop that leave the thread alone.
LEMMA StillInv == Inv /\ UNCHANGED vars => Inv'
  BY QuietInv DEF vars, tls, Inv, TypeOK

\* The thread of the loop and its guards.
LEMMA AudioGuards ==
    ASSUME Inv
    PROVE  /\ Audio \in Threads /\ guards[Audio] \in Seq(Guard)
           /\ guards \in [Threads -> Seq(Guard)] /\ panic \in [Threads -> Payloads \cup {"none"}]
           /\ Len(guards[Audio]) \in Nat /\ DOMAIN guards[Audio] = 1 .. Len(guards[Audio])
<1>1. Audio \in Threads /\ guards \in [Threads -> Seq(Guard)]
      /\ panic \in [Threads -> Payloads \cup {"none"}]
  BY BlockAssumption DEF Inv, TypeOK
<1> QED
  BY <1>1

\* A callback that writes its frame disturbs nothing that was recorded.
LEMMA ControlKept ==
    ASSUME LoopTypes, Control, Calling,
           work' \in Seq(Frame), Len(work') = Len(work),
           \A i \in 1 .. Len(work) : i # Len(work) => work'[i] = work[i],
           UNCHANGED <<pc, conf, frame_index, durations, allocated>>,
           tracker' = 0 \/ pc = "measuring"
    PROVE  Control'
<1>1. /\ Len(durations) \in Nat /\ conf.warmup \in Nat /\ frame_index \in Nat
      /\ Len(work) \in Nat
  BY DEF LoopTypes
<1>2. Calling' /\ pc' = pc
  BY DEF Calling
<1>3. CASE pc = "warming"
  BY <1>2, <1>3 DEF Control, Before, Calling
<1>4. CASE pc = "measuring"
  <2>1. After /\ Len(work) = frame_index + 1 /\ Len(durations) < conf.iterations
    BY <1>4 DEF Control, Calling
  <2>2. \A i \in 1 .. Len(durations) : work'[conf.warmup + i] = work[conf.warmup + i]
    <3> SUFFICES ASSUME NEW i \in 1 .. Len(durations)
                 PROVE  work'[conf.warmup + i] = work[conf.warmup + i]
      OBVIOUS
    <3>1. frame_index = conf.warmup + Len(durations)
      BY <2>1 DEF After
    <3>2. conf.warmup + i \in 1 .. Len(work) /\ conf.warmup + i # Len(work)
      BY <1>1, <2>1, <3>1
    <3> QED
      BY <3>2
  <2>3. After'
    BY <2>1, <2>2 DEF After
  <2> QED
    BY <1>2, <1>4, <2>1, <2>3 DEF Control, Calling
<1> QED
  BY <1>3, <1>4 DEF Calling

\* Steps of the thread that leave the loop and the callback's frame alone.
LEMMA OutsideKept ==
    ASSUME LoopInv, UNCHANGED <<loop, now, closure>>,
           pc = "measuring" =>
              /\ tracker \in DOMAIN guards'[Audio]
              /\ panic'[Audio] = "none" =>
                    /\ panic[Audio] = "none"
                    /\ guards'[Audio][tracker].real = guards[Audio][tracker].real
    PROVE  LoopInv'
<1>1. LoopTypes' /\ Control' /\ Frames' /\ Budgeted'
  BY DEF LoopInv, loop, closure, LoopTypes, Control, Before, After, Calling, Frames, Budgeted
<1>2. Watched'
  BY DEF LoopInv, loop, closure, Watched
<1> QED
  BY <1>1, <1>2 DEF LoopInv

-----------------------------------------------------------------------------
\* What the steps of the allocation tracker do to the guard of the loop.
LEMMA AllocatesMore ==
    ASSUME Inv, RecordAlloc(Audio)
    PROVE  /\ DOMAIN guards'[Audio] = DOMAIN guards[Audio]
           /\ \A i \in DOMAIN guards[Audio] :
                 guards'[Audio][i].real = guards[Audio][i].real + 1
<1>1. guards'[Audio] = OneMore(guards[Audio])
  BY AudioGuards DEF RecordAlloc
<1> QED
  BY <1>1, AudioGuards, OneMoreGuards

\* A new guard goes on top and has seen nothing.
LEMMA EntersAbove ==
    ASSUME Inv, NEW kind \in Kinds, NEW strict \in BOOLEAN, Enter(Audio, kind, strict)
    PROVE  /\ DOMAIN guards'[Audio] = 1 .. Len(guards[Audio]) + 1
           /\ \A i \in DOMAIN guards[Audio] : guards'[Audio][i] = guards[Audio][i]
           /\ guards'[Audio][Len(guards[Audio]) + 1].real = 0
           /\ UNCHANGED panic
<1> DEFINE s == guards[Audio]
           g == [kind |-> kind, strict |-> strict, late |-> panic[Audio] # "none",
                 snapshot |-> allocations[Audio], real |-> 0]
<1>1. s \in Seq(Guard) /\ g \in Guard /\ g.real = 0
  BY AudioGuards DEF Guard, Inv, TypeOK
<1>2. guards'[Audio] = Append(s, g)
  BY AudioGuards DEF Enter
<1> HIDE DEF s, g
<1>3. DOMAIN Append(s, g) = 1 .. Len(s) + 1 /\ Append(s, g)[Len(s) + 1] = g
      /\ \A i \in DOMAIN s : Append(s, g)[i] = s[i]
  BY <1>1
<1>4. UNCHANGED panic
  BY DEF Enter
<1> QED
  BY <1>1, <1>2, <1>3, <1>4 DEF s

\* Another guard that goes away moves it down by at most one place.
LEMMA DropsOther ==
    ASSUME Inv, NEW i \in DOMAIN guards[Audio], NEW how, Drop(Audio, i, how)
    PROVE  /\ \A k \in DOMAIN guards[Audio] : k # i =>
                 LET m == IF i < k THEN k - 1 ELSE k
                 IN  m \in DOMAIN guards'[Audio] /\ guards'[Audio][m] = guards[Audio][k]
           /\ panic'[Audio] = "none" => panic[Audio] = "none"
<1>1. guards'[Audio] = Without(guards[Audio], i)
  BY AudioGuards DEF Drop, Release
<1>2. panic'[Audio] = "none" => panic[Audio] = "none"
  <2>1. CASE DropPanics(Audio, i)
    BY <2>1 DEF DropPanics
  <2>2. CASE ~DropPanics(Audio, i)
    BY <2>2 DEF Drop
  <2> QED
    BY <2>1, <2>2
<1>3. ASSUME NEW k \in DOMAIN guards[Audio], k # i,
             NEW m, m = IF i < k THEN k - 1 ELSE k
      PROVE  m \in DOMAIN guards'[Audio] /\ guards'[Audio][m] = guards[Audio][k]
  <2> DEFINE s == guards[Audio]
  <2>1. s \in Seq(Guard)
    BY AudioGuards
  <2> HIDE DEF s
  <2>2. i \in DOMAIN s /\ k \in DOMAIN s
    BY DEF s
  <2>3. m \in DOMAIN Without(s, i) /\ Without(s, i)[m] = s[k]
    BY <1>3, <2>1, <2>2, WithoutAt
  <2> QED
    BY <1>1, <2>3 DEF s
<1> QED
  BY <1>2, <1>3

\* A panic of the closure leaves the guards as they are.
LEMMA PanicsOnly ==
    ASSUME Inv, UserPanic(Audio)
    PROVE  Inv' /\ UNCHANGED guards /\ panic'[Audio] = "user"
<1>1. panic' \in [Threads -> Payloads \cup {"none"}] /\ aborted' \in BOOLEAN
  BY AudioGuards, RaiseTypes DEF UserPanic, Payloads, Inv
<1>2. Inv'
  BY <1>1, QuietInv DEF UserPanic, tls, Inv, TypeOK
<1>3. panic'[Audio] = "user"
  BY AudioGuards DEF UserPanic, Running, Raise
<1> QED
  BY <1>2, <1>3 DEF UserPanic

-----------------------------------------------------------------------------
\* The steps of run that are not in a callback.
LEMMA InitLoop == BlockInit => LoopInv
<1> SUFFICES ASSUME BlockInit PROVE LoopInv
  OBVIOUS
<1>1. /\ Len(durations) = 0 /\ Len(work) = 0 /\ DOMAIN work = {}
      /\ durations = <<>> /\ durations \in Seq(Nat) /\ work \in Seq(Frame)
  BY DEF BlockInit
<1>2. LoopTypes
  BY <1>1, BlockAssumption DEF BlockInit, LoopTypes
<1>3. Control
  BY <1>1 DEF BlockInit, Control, Before, Calling
<1>4. Frames /\ Watched /\ Budgeted
  BY <1>1 DEF BlockInit, Frames, Watched, Budgeted
<1> QED
  BY <1>2, <1>3, <1>4 DEF LoopInv

\* run refuses to measure nothing.
LEMMA RunNothingKeeps == Inv /\ LoopInv /\ RunNothing => Inv' /\ LoopInv'
<1> SUFFICES ASSUME Inv, LoopInv, RunNothing PROVE Inv' /\ LoopInv'
  OBVIOUS
<1>1. Inv'
  BY PanicsOnly DEF RunNothing
<1>2. /\ pc = "idle" /\ pc' = "failed" /\ tracker = 0
      /\ UNCHANGED <<conf, frame_index, now, start, tracker, durations, allocated, closure>>
  BY DEF RunNothing, LoopInv, Watched
<1>3. LoopTypes' /\ Control' /\ Frames' /\ Watched' /\ Budgeted'
  BY <1>2 DEF LoopInv, LoopTypes, Control, Calling, Frames, Watched, Budgeted, closure
<1> QED
  BY <1>1, <1>3 DEF LoopInv

\* The loop's own allocations go to the guards of its caller.
LEMMA HarnessKeeps ==
    ASSUME Inv, HarnessAllocates
    PROVE  Inv'
  BY AudioGuards, RecordAllocInv DEF HarnessAllocates, Inv, TypeOK

\* run begins.
LEMMA RunKeeps ==
    ASSUME Inv, LoopInv, NEW warmup \in 0 .. MaxWarmup, NEW iterations \in 1 .. MaxIterations,
           Run(warmup, iterations)
    PROVE  Inv' /\ LoopInv'
<1>1. Inv'
  BY HarnessKeeps DEF Run
<1>2. warmup \in Nat /\ iterations \in Nat /\ iterations > 0
  BY BlockAssumption
<1>3. /\ pc = "idle" /\ pc' = "warmup" /\ tracker = 0
      /\ conf' = [warmup |-> warmup, iterations |-> iterations]
      /\ UNCHANGED <<frame_index, now, start, tracker, durations, allocated, closure>>
  BY DEF Run, LoopInv, Watched
<1>4. LoopTypes'
  BY <1>2, <1>3 DEF LoopInv, LoopTypes, closure
<1>5. Control'
  BY <1>2, <1>3 DEF LoopInv, Control, Before, Calling, closure
<1>6. Frames' /\ Watched' /\ Budgeted'
  BY <1>3 DEF LoopInv, Calling, Frames, Watched, Budgeted, closure
<1> QED
  BY <1>1, <1>4, <1>5, <1>6 DEF LoopInv

\* A callback begins with a frame of its own.
LEMMA BeginsFrame ==
    ASSUME LoopInv, Len(work) = frame_index, Begins
    PROVE  /\ work' \in Seq(Frame) /\ Len(work') = frame_index + 1
           /\ \A i \in 1 .. Len(work) : work'[i] = work[i]
           /\ work'[frame_index + 1].took = 0 /\ work'[frame_index + 1].allocated = 0
           /\ Frames'
<1> DEFINE f == [index |-> frame_index, took |-> 0, allocated |-> 0, reported |-> 0]
<1>1. f \in Frame /\ work \in Seq(Frame) /\ frame_index \in Nat
  BY DEF LoopInv, LoopTypes, Frame
<1>2. f.index = frame_index /\ f.took = 0 /\ f.allocated = 0 /\ f.reported = 0
  OBVIOUS
<1>3. work' = Append(work, f)
  BY DEF Begins
<1> HIDE DEF f
<1>4. /\ work' \in Seq(Frame) /\ Len(work') = frame_index + 1
      /\ \A i \in 1 .. frame_index : work'[i] = work[i]
      /\ work'[frame_index + 1] = f
  BY <1>1, <1>3, AppendProperties
<1>5. Frames'
  <2> SUFFICES ASSUME NEW i \in 1 .. frame_index + 1
               PROVE  /\ work'[i].index = i - 1
                      /\ work'[i].reported # 0 => work'[i].reported > BlockDuration
                                                  /\ work'[i].reported <= work'[i].took
    BY <1>4 DEF Frames
  <2>1. CASE i = frame_index + 1
    BY <1>1, <1>2, <1>4, <2>1
  <2>2. CASE i # frame_index + 1
    <3>1. i \in 1 .. frame_index /\ i \in DOMAIN work
      BY <1>1, <2>2
    <3> QED
      BY <1>4, <3>1 DEF LoopInv, Frames
  <2> QED
    BY <2>1, <2>2
<1> QED
  BY <1>2, <1>4, <1>5

\* A warm-up callback begins.
LEMMA WarmUpKeeps == Inv /\ LoopInv /\ WarmUp => Inv' /\ LoopInv'
<1> SUFFICES ASSUME Inv, LoopInv, WarmUp PROVE Inv' /\ LoopInv'
  OBVIOUS
<1>1. Inv'
  BY StillInv DEF WarmUp
<1>2. /\ pc = "warmup" /\ pc' = "warming" /\ Begins /\ frame_index < conf.warmup
      /\ UNCHANGED <<conf, frame_index, now, start, tracker, durations, allocated, budget>>
  BY DEF WarmUp
<1>3. Before /\ Len(work) = frame_index /\ conf.iterations > 0
  BY <1>2 DEF LoopInv, Control
<1>4. work' \in Seq(Frame) /\ Len(work') = frame_index + 1 /\ Frames'
  BY <1>2, <1>3, BeginsFrame
<1>5. LoopTypes'
  BY <1>2, <1>4 DEF LoopInv, LoopTypes
<1>6. Control'
  BY <1>2, <1>3, <1>4 DEF Control, Before, Calling
<1>7. Watched' /\ Budgeted'
  BY <1>2 DEF LoopInv, Watched, Budgeted, Calling
<1> QED
  BY <1>1, <1>4, <1>5, <1>6, <1>7 DEF LoopInv

\* A warm-up callback returns, unrecorded.
LEMMA WarmedUpKeeps == Inv /\ LoopInv /\ WarmedUp => Inv' /\ LoopInv'
<1> SUFFICES ASSUME Inv, LoopInv, WarmedUp PROVE Inv' /\ LoopInv'
  OBVIOUS
<1>1. Inv'
  BY StillInv DEF WarmedUp
<1>2. /\ pc = "warming" /\ pc' = "warmup" /\ frame_index' = frame_index + 1
      /\ budget' = NoBudget
      /\ UNCHANGED <<conf, now, start, tracker, durations, allocated, work>>
  BY DEF WarmedUp
<1>3. /\ Before /\ Len(work) = frame_index + 1 /\ frame_index < conf.warmup
      /\ conf.iterations > 0
      /\ frame_index \in Nat /\ conf.warmup \in Nat
  BY <1>2 DEF LoopInv, LoopTypes, Control, Calling
<1>4. LoopTypes'
  BY <1>2 DEF LoopInv, LoopTypes
<1>5. Control'
  BY <1>2, <1>3 DEF Control, Before, Calling
<1>6. Frames' /\ Watched' /\ Budgeted'
  BY <1>2 DEF LoopInv, Frames, Watched, Budgeted
<1> QED
  BY <1>1, <1>4, <1>5, <1>6 DEF LoopInv


\* Nothing has been summed yet.
LEMMA EmptySum ==
    ASSUME NEW f, DOMAIN f = {}, f = [i \in {} |-> f[i]]
    PROVE  SumFunction(f) = 0
<1>1. IsFiniteSet({}) /\ f \in [{} -> Nat]
  BY FS_EmptySet
<1>2. PICK g : IsSum(g, {}, f) /\ SumFunction(f) = g[{}]
  BY <1>1, SumOf
<1> QED
  BY <1>2 DEF IsSum

\* The measured part begins with nothing recorded.
LEMMA ReserveKeeps == Inv /\ LoopInv /\ Reserve => Inv' /\ LoopInv'
<1> SUFFICES ASSUME Inv, LoopInv, Reserve PROVE Inv' /\ LoopInv'
  OBVIOUS
<1>1. Inv'
  BY HarnessKeeps DEF Reserve
<1>2. /\ pc = "warmup" /\ pc' = "measure" /\ frame_index = conf.warmup
      /\ UNCHANGED <<conf, frame_index, now, start, tracker, durations, allocated, closure>>
  BY DEF Reserve
<1>3. /\ Before /\ Len(work) = frame_index /\ conf.iterations > 0
      /\ conf \in [warmup : Nat, iterations : Nat]
  BY <1>2 DEF LoopInv, LoopTypes, Control
<1>4. LoopTypes'
  BY <1>2 DEF LoopInv, LoopTypes, closure
<1>5. After'
  <2> DEFINE f == [i \in 1 .. Len(durations) |-> work[conf.warmup + i].allocated]
  <2>1. Len(durations) = 0 /\ 1 .. Len(durations) = {}
    BY <1>3 DEF Before
  <2>2. SumFunction(f) = 0
    <3>1. DOMAIN f = {} /\ f = [i \in {} |-> f[i]]
      BY <2>1
    <3> HIDE DEF f
    <3> QED
      BY <3>1, EmptySum
  <2>3. UNCHANGED <<conf, frame_index, durations, allocated, work>>
    BY <1>2 DEF closure
  <2>4. After
    BY <1>2, <1>3, <2>1, <2>2 DEF After, Before
  <2> QED
    BY <2>3, <2>4 DEF After
<1>6. Control'
  BY <1>2, <1>3, <1>5 DEF Control, Calling, closure
<1>7. Frames' /\ Watched' /\ Budgeted'
  BY <1>2 DEF LoopInv, Calling, Frames, Watched, Budgeted, closure
<1> QED
  BY <1>1, <1>4, <1>5, <1>6, <1>7 DEF LoopInv

\* A measured callback begins with its guard at zero and its clock at now.
LEMMA MeasureKeeps == Inv /\ LoopInv /\ Measure => Inv' /\ LoopInv'
<1> SUFFICES ASSUME Inv, LoopInv, Measure PROVE Inv' /\ LoopInv'
  OBVIOUS
<1>1. Enter(Audio, "scope", FALSE) /\ "scope" \in Kinds /\ FALSE \in BOOLEAN
  BY DEF Measure, Kinds
<1>2. Inv'
  BY <1>1, AudioGuards, EnterInv
<1>3. /\ pc = "measure" /\ pc' = "measuring" /\ Begins
      /\ Len(durations) < conf.iterations
      /\ tracker' = Len(guards[Audio]) + 1 /\ start' = now
      /\ UNCHANGED <<conf, frame_index, now, durations, allocated, budget>>
  BY DEF Measure
<1>4. After /\ Len(work) = frame_index /\ budget = NoBudget /\ conf.iterations > 0
  BY <1>3 DEF LoopInv, Control, Budgeted, Calling
<1>5. /\ work' \in Seq(Frame) /\ Len(work') = frame_index + 1 /\ Frames'
      /\ \A i \in 1 .. Len(work) : work'[i] = work[i]
      /\ work'[frame_index + 1].took = 0 /\ work'[frame_index + 1].allocated = 0
  BY <1>3, <1>4, BeginsFrame
<1>6. /\ DOMAIN guards'[Audio] = 1 .. Len(guards[Audio]) + 1
      /\ guards'[Audio][Len(guards[Audio]) + 1].real = 0
      /\ Len(guards[Audio]) \in Nat
  BY <1>1, AudioGuards, EntersAbove
<1>7. /\ conf.warmup \in Nat /\ Len(durations) \in Nat /\ now \in Nat
      /\ frame_index \in Nat
  BY DEF LoopInv, LoopTypes
<1>8. LoopTypes'
  <2>1. tracker' \in Nat
    BY <1>3, <1>6
  <2> QED
    BY <1>3, <1>5, <2>1 DEF LoopInv, LoopTypes
<1>9. After'
  <2>1. \A i \in 1 .. Len(durations) : work'[conf.warmup + i] = work[conf.warmup + i]
    <3> SUFFICES ASSUME NEW i \in 1 .. Len(durations)
                 PROVE  work'[conf.warmup + i] = work[conf.warmup + i]
      OBVIOUS
    <3>1. conf.warmup + i \in 1 .. Len(work)
      BY <1>4, <1>7 DEF After
    <3> QED
      BY <1>5, <3>1
  <2>2. Len(work') >= frame_index
    BY <1>5, <1>7
  <2> QED
    BY <1>3, <1>4, <2>1, <2>2 DEF After
<1>10. Control'
  BY <1>3, <1>4, <1>5, <1>9 DEF Control, Calling
<1>11. Watched'
  <2>1. tracker' \in DOMAIN guards'[Audio] /\ now' - start' = 0
    BY <1>3, <1>6, <1>7
  <2> QED
    BY <1>3, <1>5, <1>6, <2>1 DEF Watched
<1>12. Budgeted'
  BY <1>3, <1>4 DEF Budgeted
<1> QED
  BY <1>2, <1>5, <1>8, <1>10, <1>11, <1>12 DEF LoopInv

\* What the loop records of a callback is what the callback did.
LEMMA MeasuredKeeps == Inv /\ LoopInv /\ Measured => Inv' /\ LoopInv'
<1> SUFFICES ASSUME Inv, LoopInv, Measured PROVE Inv' /\ LoopInv'
  OBVIOUS
<1> DEFINE N == Len(work)
           W == conf.warmup
           D == Len(durations)
           f == [i \in 1 .. D |-> work[W + i].allocated]
           e == [i \in 1 .. D + 1 |-> work[W + i].allocated]
<1>1. /\ pc = "measuring" /\ pc' = "measure" /\ Running(Audio)
      /\ durations' = Append(durations, now - start)
      /\ allocated' = allocated + Observed(Audio, guards[Audio][tracker])
      /\ frame_index' = frame_index + 1
      /\ Drop(Audio, tracker, "return")
      /\ tracker' = 0 /\ budget' = NoBudget
      /\ UNCHANGED <<conf, now, start, work>>
  BY DEF Measured
<1>2. /\ After /\ N = frame_index + 1 /\ D < conf.iterations /\ conf.iterations > 0
      /\ tracker \in DOMAIN guards[Audio] /\ now - start = work[N].took
      /\ panic[Audio] = "none" => guards[Audio][tracker].real = work[N].allocated
  BY <1>1 DEF LoopInv, Control, Watched, Calling
<1>3. Inv'
  BY <1>1, <1>2, AudioGuards, DropInv
<1>4. /\ work \in Seq(Frame) /\ N \in Nat /\ durations \in Seq(Nat) /\ D \in Nat
      /\ W \in Nat /\ conf.iterations \in Nat /\ frame_index \in Nat
  BY DEF LoopInv, LoopTypes
<1>5. N = W + D + 1 /\ N \in 1 .. N /\ frame_index = W + D
  BY <1>2, <1>4 DEF After
<1>6. \A i \in 1 .. N : work[i].took \in Nat /\ work[i].allocated \in Nat
  <2> SUFFICES ASSUME NEW i \in 1 .. N
               PROVE  work[i].took \in Nat /\ work[i].allocated \in Nat
    OBVIOUS
  <2>1. work[i] \in Frame
    BY <1>4
  <2> QED
    BY <2>1 DEF Frame
<1>7. Observed(Audio, guards[Audio][tracker]) = work[N].allocated
  BY <1>1, <1>2, AudioGuards, InvExact DEF ExactCounts, Running
<1>8. /\ durations' \in Seq(Nat) /\ Len(durations') = D + 1
      /\ \A i \in 1 .. D : durations'[i] = durations[i]
      /\ durations'[D + 1] = work[N].took
  BY <1>1, <1>2, <1>4, <1>5, <1>6, AppendProperties
<1>9. allocated' = SumFunction(e)
  <2>1. e \in [1 .. D + 1 -> Nat]
    BY <1>4, <1>5, <1>6
  <2>2. f = [i \in 1 .. D |-> e[i]] /\ e[D + 1] = work[N].allocated
    <3>1. \A i \in 1 .. D : i \in 1 .. D + 1
      BY <1>4
    <3>2. D + 1 \in 1 .. D + 1 /\ W + (D + 1) = N
      BY <1>4, <1>5
    <3>3. \A i \in 1 .. D + 1 : e[i] = work[W + i].allocated
      OBVIOUS
    <3>4. e[D + 1] = work[N].allocated
      BY <3>2, <3>3, Zenon
    <3> QED
      BY <3>1, <3>3, <3>4
  <2>3. allocated = SumFunction(f)
    BY <1>2 DEF After
  <2> HIDE DEF e, f
  <2>4. /\ SumFunction([i \in 1 .. D |-> e[i]]) \in Nat
        /\ SumFunction(e) = e[D + 1] + SumFunction([i \in 1 .. D |-> e[i]])
    BY <1>4, <2>1, SumAppend
  <2>5. allocated' = allocated + work[N].allocated
    BY <1>1, <1>7
  <2>6. work[N].allocated \in Nat
    BY <1>5, <1>6
  <2> QED
    BY <2>2, <2>3, <2>4, <2>5, <2>6
<1>10. allocated' \in Nat
  <2>1. allocated \in Nat /\ work[N].allocated \in Nat
    BY <1>5, <1>6 DEF LoopInv, LoopTypes
  <2> QED
    BY <1>1, <1>7, <2>1
<1>11. LoopTypes'
  BY <1>1, <1>4, <1>8, <1>10 DEF LoopInv, LoopTypes
<1>12. After'
  <2>1. /\ frame_index' = conf'.warmup + Len(durations') /\ Len(durations') <= conf'.iterations
        /\ Len(work') >= frame_index'
    <3>1. /\ Len(durations') = D + 1 /\ frame_index' = frame_index + 1
          /\ Len(work') = N /\ conf' = conf
      BY <1>1, <1>8
    <3>2. frame_index + 1 = W + (D + 1) /\ D + 1 <= conf.iterations /\ N >= frame_index + 1
      BY <1>2, <1>4, <1>5
    <3> QED
      BY <3>1, <3>2
  <2>2. \A i \in 1 .. Len(durations') : durations'[i] = work'[conf'.warmup + i].took
    <3> SUFFICES ASSUME NEW i \in 1 .. D + 1 PROVE durations'[i] = work[W + i].took
      BY <1>1, <1>8
    <3>1. CASE i = D + 1
      <4>1. W + i = N
        BY <1>4, <1>5, <3>1
      <4> QED
        BY <1>8, <3>1, <4>1
    <3>2. CASE i # D + 1
      <4>1. i \in 1 .. D
        BY <1>4, <3>2
      <4> QED
        BY <1>2, <1>8, <4>1 DEF After
    <3> QED
      BY <3>1, <3>2
  <2>3. e = [i \in 1 .. Len(durations') |-> work'[conf'.warmup + i].allocated]
    BY <1>1, <1>8
  <2> HIDE DEF e
  <2> QED
    BY <1>9, <2>1, <2>2, <2>3 DEF After
<1>13. Control'
  <2>1. Len(work') = frame_index'
    BY <1>1, <1>2
  <2> QED
    BY <1>1, <1>2, <1>12, <2>1 DEF Control, Calling
<1>14. Frames' /\ Watched' /\ Budgeted'
  BY <1>1 DEF LoopInv, Frames, Watched, Budgeted
<1> QED
  BY <1>3, <1>11, <1>13, <1>14 DEF LoopInv

\* The last callback has been recorded.
LEMMA FinishKeeps == Inv /\ LoopInv /\ Finish => Inv' /\ LoopInv'
<1> SUFFICES ASSUME Inv, LoopInv, Finish PROVE Inv' /\ LoopInv'
  OBVIOUS
<1>1. Inv'
  BY StillInv DEF Finish
<1>2. /\ pc = "measure" /\ pc' = "done" /\ Len(durations) = conf.iterations
      /\ UNCHANGED <<conf, frame_index, now, start, tracker, durations, allocated, closure>>
  BY DEF Finish
<1>3. After /\ Len(work) = frame_index /\ conf.iterations > 0 /\ UNCHANGED work
  BY <1>2 DEF LoopInv, Control, closure
<1>4. LoopTypes'
  BY <1>2 DEF LoopInv, LoopTypes, closure
<1>5. After'
  BY <1>2, <1>3 DEF After
<1>6. Control'
  BY <1>2, <1>3, <1>5 DEF Control, Calling
<1>7. Frames' /\ Watched' /\ Budgeted'
  BY <1>2 DEF LoopInv, Frames, Watched, Budgeted, Calling, closure
<1> QED
  BY <1>1, <1>4, <1>6, <1>7 DEF LoopInv

\* A panic leaves the loop.
LEMMA AbandonKeeps == Inv /\ LoopInv /\ Abandon => Inv' /\ LoopInv'
<1> SUFFICES ASSUME Inv, LoopInv, Abandon PROVE Inv' /\ LoopInv'
  OBVIOUS
<1>1. /\ Calling /\ pc' = "failed" /\ tracker' = 0 /\ budget' = NoBudget
      /\ IF tracker = 0 THEN UNCHANGED vars ELSE Drop(Audio, tracker, "unwind")
      /\ UNCHANGED <<conf, frame_index, now, start, durations, allocated, work>>
  BY DEF Abandon
<1>2. Inv'
  <2>1. tracker # 0 => tracker \in DOMAIN guards[Audio]
    BY <1>1 DEF LoopInv, Watched, Calling
  <2> QED
    BY <1>1, <2>1, AudioGuards, StillInv, DropInv
<1>3. LoopTypes' /\ Control' /\ Frames' /\ Watched' /\ Budgeted'
  BY <1>1 DEF LoopInv, LoopTypes, Control, Calling, Frames, Watched, Budgeted
<1> QED
  BY <1>2, <1>3 DEF LoopInv

-----------------------------------------------------------------------------
\* The steps within a callback.
LEMMA CallbackFrame ==
    ASSUME LoopInv, Calling
    PROVE  /\ work \in Seq(Frame) /\ Len(work) \in Nat /\ Len(work) > 0
           /\ Len(work) \in 1 .. Len(work) /\ work[Len(work)] \in Frame
<1>1. work \in Seq(Frame) /\ Len(work) = frame_index + 1 /\ frame_index \in Nat
  BY DEF LoopInv, LoopTypes, Control
<1> QED
  BY <1>1

\* A callback that writes its frame keeps the loop's part of the invariant.
LEMMA CallbackKeeps ==
    ASSUME LoopInv, Calling, NEW f \in Frame,
           work' = [work EXCEPT ![Len(work)] = f],
           f.index = work[Len(work)].index,
           f.reported # 0 => f.reported > BlockDuration /\ f.reported <= f.took,
           now' \in Nat,
           UNCHANGED loop
    PROVE  /\ LoopTypes' /\ Control' /\ Frames'
           /\ Len(work') = Len(work) /\ work'[Len(work)] = f
<1>1. /\ work \in Seq(Frame) /\ Len(work) \in Nat /\ Len(work) > 0
      /\ Len(work) \in 1 .. Len(work)
  BY CallbackFrame
<1>2. /\ work' \in Seq(Frame) /\ Len(work') = Len(work) /\ work'[Len(work)] = f
      /\ \A i \in 1 .. Len(work) : i # Len(work) => work'[i] = work[i]
  BY <1>1, LastFrame
<1>3. LoopTypes'
  BY <1>2 DEF LoopInv, LoopTypes, loop
<1>4. Control'
  <2>1. tracker' = 0 \/ pc = "measuring"
    BY DEF LoopInv, Watched, loop
  <2> QED
    BY <1>2, <2>1, ControlKept DEF LoopInv, loop
<1>5. Frames'
  <2> SUFFICES ASSUME NEW i \in 1 .. Len(work)
               PROVE  /\ work'[i].index = i - 1
                      /\ work'[i].reported # 0 => work'[i].reported > BlockDuration
                                                  /\ work'[i].reported <= work'[i].took
    <3>1. DOMAIN work' = 1 .. Len(work)
      <4>1. DOMAIN work' = 1 .. Len(work')
        BY <1>2, LenProperties
      <4> QED
        BY <1>2, <4>1, Zenon
    <3> QED
      BY <3>1 DEF Frames
  <2>1. /\ work[i].index = i - 1
        /\ work[i].reported # 0 => work[i].reported > BlockDuration
                                   /\ work[i].reported <= work[i].took
    BY <1>1 DEF LoopInv, Frames
  <2>2. CASE i = Len(work)
    BY <1>2, <2>1, <2>2
  <2>3. CASE i # Len(work)
    BY <1>2, <2>1, <2>3
  <2> QED
    BY <2>2, <2>3
<1> QED
  BY <1>2, <1>3, <1>4, <1>5

\* A budget begins now, and the callback began earlier.
LEMMA StartBudgetKeeps == Inv /\ LoopInv /\ StartBudget => Inv' /\ LoopInv'
<1> SUFFICES ASSUME Inv, LoopInv, StartBudget PROVE Inv' /\ LoopInv'
  OBVIOUS
<1>1. Inv'
  BY StillInv DEF StartBudget
<1>2. /\ Calling /\ budget' = [start |-> now, budget |-> BlockDuration]
      /\ UNCHANGED <<vars, loop, now, work>>
  BY DEF StartBudget
<1>3. now \in Nat /\ work[Len(work)].took \in Nat
  BY <1>2, CallbackFrame DEF LoopInv, LoopTypes, Frame
<1>4. Budgeted'
  <2>1. now - now = 0 /\ now <= now /\ 0 <= work[Len(work)].took
    BY <1>3
  <2>2. budget' \in [start : Nat, budget : {BlockDuration}] /\ budget'.start = now
    BY <1>2, <1>3
  <2> QED
    BY <1>2, <2>1, <2>2 DEF Budgeted, Calling, loop
<1>5. LoopTypes' /\ Control' /\ Frames' /\ Watched'
  BY <1>2 DEF LoopInv, LoopTypes, Control, Before, After, Calling, Frames, Watched, loop, vars
<1> QED
  BY <1>1, <1>4, <1>5 DEF LoopInv

\* A callback that takes time, and may find its budget exhausted.
LEMMA TimePasses ==
    ASSUME LoopInv, Calling, Running(Audio), NEW later \in Nat, now <= later, now' = later,
           NEW f \in Frame, work' = [work EXCEPT ![Len(work)] = f],
           f.index = work[Len(work)].index,
           f.took = work[Len(work)].took + (later - now),
           f.allocated = work[Len(work)].allocated,
           f.reported # 0 => f.reported > BlockDuration /\ f.reported <= f.took,
           UNCHANGED <<vars, loop, budget>>
    PROVE  LoopInv'
<1> DEFINE N == Len(work)
<1>1. /\ work[N] \in Frame /\ N \in Nat
  BY CallbackFrame
<1>2. now \in Nat /\ start \in Nat /\ work[N].took \in Nat
  BY <1>1 DEF LoopInv, LoopTypes, Frame
<1>3. LoopTypes' /\ Control' /\ Frames' /\ Len(work') = N /\ work'[N] = f
  BY CallbackKeeps
<1>4. Watched'
  <2>1. CASE pc = "measuring"
    <3>1. /\ tracker \in DOMAIN guards[Audio] /\ now - start = work[N].took
          /\ panic[Audio] = "none" => guards[Audio][tracker].real = work[N].allocated
      BY <2>1 DEF LoopInv, Watched
    <3>2. later - start = f.took
      BY <1>2, <3>1
    <3> QED
      BY <1>3, <2>1, <3>1, <3>2 DEF Watched, loop, vars
  <2>2. CASE pc # "measuring"
    BY <2>2 DEF LoopInv, Watched, loop
  <2> QED
    BY <2>1, <2>2
<1>5. Budgeted'
  <2>1. CASE budget = NoBudget
    BY <2>1 DEF Budgeted
  <2>2. CASE budget # NoBudget
    <3>1. /\ budget \in [start : Nat, budget : {BlockDuration}]
          /\ budget.start <= now /\ now - budget.start <= work[N].took
      BY <2>2 DEF LoopInv, Budgeted
    <3>2. budget.start \in Nat
      BY <3>1
    <3>3. budget.start <= later /\ later - budget.start <= f.took
      BY <1>2, <3>1, <3>2
    <3> QED
      BY <1>3, <2>2, <3>1, <3>3 DEF Budgeted, Calling, loop
  <2> QED
    BY <2>1, <2>2
<1> QED
  BY <1>3, <1>4, <1>5 DEF LoopInv

\* A callback takes time.
LEMMA TickKeeps == Inv /\ LoopInv /\ Tick => Inv' /\ LoopInv'
<1> SUFFICES ASSUME Inv, LoopInv, Tick PROVE Inv' /\ LoopInv'
  OBVIOUS
<1>1. Inv'
  BY StillInv DEF Tick
<1> DEFINE w == work[Len(work)]
           f == [w EXCEPT !.took = @ + 1]
<1>2. /\ Calling /\ Running(Audio) /\ now' = now + 1
      /\ work' = [work EXCEPT ![Len(work)].took = @ + 1]
      /\ UNCHANGED <<vars, loop, budget>>
  BY DEF Tick
<1>3. w \in Frame /\ now \in Nat /\ Len(work) \in 1 .. Len(work)
  BY <1>2, CallbackFrame DEF LoopInv, LoopTypes
<1>4. work' = [work EXCEPT ![Len(work)] = f]
  BY <1>2, <1>3
<1>5. w.reported # 0 => w.reported > BlockDuration /\ w.reported <= w.took
  BY <1>3 DEF LoopInv, Frames
<1> HIDE DEF w
<1>6. /\ f \in Frame /\ f.index = w.index /\ f.took = w.took + 1
      /\ f.allocated = w.allocated /\ f.reported = w.reported
      /\ w.took \in Nat /\ w.reported \in Nat
  BY <1>3 DEF Frame
<1>7. f.reported # 0 => f.reported > BlockDuration /\ f.reported <= f.took
  BY <1>5, <1>6, BlockAssumption
<1> HIDE DEF f
<1>8. now + 1 \in Nat /\ now <= now + 1 /\ now + 1 - now = 1
  BY <1>3
<1>9. /\ f.index = work[Len(work)].index
      /\ f.took = work[Len(work)].took + (now + 1 - now)
      /\ f.allocated = work[Len(work)].allocated
  BY <1>6, <1>8 DEF w
<1>10. LoopInv'
  <2> SUFFICES ASSUME NEW later \in Nat, later = now + 1 PROVE LoopInv'
    BY <1>8
  <2>1. /\ now <= later /\ now' = later
        /\ f.took = work[Len(work)].took + (later - now)
    <3>1. later - now = 1 /\ now <= later
      BY <1>3
    <3>2. f.took = work[Len(work)].took + (later - now)
      BY <1>6, <3>1 DEF w
    <3> QED
      BY <1>2, <3>1, <3>2
  <2> QED
    BY <1>2, <1>4, <1>6, <1>7, <1>9, <2>1, TimePasses
<1> QED
  BY <1>1, <1>10

\* check reports the time since the budget began, which the callback took as well.
LEMMA CheckBudgetKeeps ==
    ASSUME Inv, LoopInv, NEW later \in now .. MaxTime, CheckBudget(later)
    PROVE  Inv' /\ LoopInv'
<1>1. Inv'
  BY StillInv DEF CheckBudget
<1> DEFINE w == work[Len(work)]
           x == w.took + (later - now)
           r == later - budget.start
           f == [w EXCEPT !.took = x, !.reported = r]
<1>2. /\ Calling /\ Running(Audio) /\ now' = later
      /\ work' = [work EXCEPT ![Len(work)].took = @ + (later - now),
                              ![Len(work)].reported = elapsed(budget, later)]
      /\ UNCHANGED <<vars, loop, budget>>
  BY DEF CheckBudget
<1>3. budget # NoBudget /\ now - budget.start > budget.budget
  BY DEF CheckBudget, exhausted, elapsed
<1>4. w \in Frame /\ now \in Nat /\ Len(work) \in 1 .. Len(work) /\ work \in Seq(Frame)
  BY <1>2, CallbackFrame DEF LoopInv, LoopTypes
<1>5. /\ budget.start \in Nat /\ budget.budget = BlockDuration
      /\ now - budget.start <= w.took
  BY <1>3 DEF LoopInv, Budgeted
<1>6. later \in Nat /\ now <= later
  BY <1>4, BlockAssumption
<1>7. work' = [work EXCEPT ![Len(work)] = f]
  BY <1>2, <1>4 DEF elapsed
<1>8. w.took \in Nat
  <2> HIDE DEF w
  <2> QED
    BY <1>4 DEF Frame
<1>9. r \in Nat /\ r > BlockDuration /\ r <= x /\ x \in Nat
  <2> DEFINE s == budget.start
             c == w.took
  <2>1. /\ now - s > BlockDuration /\ now - s <= c /\ s \in Nat /\ c \in Nat
        /\ now \in Nat /\ later \in Nat /\ now <= later /\ BlockDuration \in Nat
    BY <1>3, <1>4, <1>5, <1>6, <1>8, BlockAssumption
  <2>2. r = later - s /\ x = c + (later - now)
    OBVIOUS
  <2> HIDE DEF s, r, c, x
  <2> QED
    BY <2>1, <2>2
<1>10. x = work[Len(work)].took + (later - now)
  OBVIOUS
<1> HIDE DEF w, x, r
<1>11. /\ f \in Frame /\ f.index = w.index /\ f.took = x
       /\ f.allocated = w.allocated /\ f.reported = r
  BY <1>4, <1>9 DEF Frame
<1> HIDE DEF f
<1>12. /\ f.index = work[Len(work)].index /\ f.allocated = work[Len(work)].allocated
       /\ f.took = work[Len(work)].took + (later - now)
       /\ f.reported # 0 => f.reported > BlockDuration /\ f.reported <= f.took
  BY <1>9, <1>10, <1>11 DEF w
<1>13. LoopInv'
  BY <1>2, <1>6, <1>7, <1>11, <1>12, TimePasses
<1> QED
  BY <1>1, <1>13

\* What a callback allocates its guard has seen.
LEMMA AllocatesKeeps == Inv /\ LoopInv /\ Allocates => Inv' /\ LoopInv'
<1> SUFFICES ASSUME Inv, LoopInv, Allocates PROVE Inv' /\ LoopInv'
  OBVIOUS
<1> DEFINE N == Len(work)
           w == work[N]
           f == [w EXCEPT !.allocated = @ + 1]
<1>1. /\ Calling
      /\ Alloc(Audio) \/ Realloc(Audio)
      /\ work' = [work EXCEPT ![N].allocated = @ + 1]
      /\ UNCHANGED <<loop, now, budget>>
  BY DEF Allocates
<1>2. /\ Running(Audio) /\ RecordAlloc(Audio)
      /\ UNCHANGED <<depth, global, panic, aborted>>
  BY <1>1 DEF Alloc, Realloc
<1>3. Inv'
  <2>1. deallocations' \in [Threads -> Nat]
    BY <1>1, AudioGuards, RecordDeallocTypes DEF Alloc, Realloc, Inv, TypeOK
  <2> QED
    BY <1>2, <2>1, AudioGuards, RecordAllocInv
<1>4. w \in Frame /\ N \in 1 .. N
  BY <1>1, CallbackFrame
<1>5. work' = [work EXCEPT ![N] = f]
  BY <1>1, <1>4
<1>6. w.reported # 0 => w.reported > BlockDuration /\ w.reported <= w.took
  BY <1>4 DEF LoopInv, Frames
<1> HIDE DEF w
<1>7. /\ f \in Frame /\ f.index = w.index /\ f.took = w.took
      /\ f.allocated = w.allocated + 1 /\ f.reported = w.reported
  BY <1>4 DEF Frame
<1> HIDE DEF f
<1>8. now' \in Nat
  BY <1>1 DEF LoopInv, LoopTypes
<1>9. LoopTypes' /\ Control' /\ Frames' /\ Len(work') = N /\ work'[N] = f
  <2>1. /\ f.index = work[N].index
        /\ f.reported # 0 => f.reported > BlockDuration /\ f.reported <= f.took
    BY <1>6, <1>7 DEF w
  <2> QED
    BY <1>1, <1>5, <1>7, <1>8, <2>1, CallbackKeeps
<1>10. Watched'
  <2>1. CASE pc = "measuring"
    <3>1. /\ tracker \in DOMAIN guards[Audio] /\ now - start = w.took
          /\ panic[Audio] = "none" => guards[Audio][tracker].real = w.allocated
      BY <2>1 DEF LoopInv, Watched, w
    <3>2. /\ tracker \in DOMAIN guards'[Audio]
          /\ guards'[Audio][tracker].real = guards[Audio][tracker].real + 1
      BY <1>2, <3>1, AllocatesMore
    <3> QED
      BY <1>1, <1>2, <1>7, <1>9, <2>1, <3>1, <3>2 DEF Watched, loop
  <2>2. CASE pc # "measuring"
    BY <1>1, <2>2 DEF LoopInv, Watched, loop
  <2> QED
    BY <2>1, <2>2
<1>11. Budgeted'
  BY <1>1, <1>7, <1>9 DEF LoopInv, Budgeted, Calling, loop, w
<1> QED
  BY <1>3, <1>9, <1>10, <1>11 DEF LoopInv

-----------------------------------------------------------------------------
\* The steps of the closure's own guards, and of panics.
LEMMA CountsGloballyKeeps == Inv /\ LoopInv /\ CountsGlobally => Inv' /\ LoopInv'
<1> SUFFICES ASSUME Inv, LoopInv, CountsGlobally PROVE Inv' /\ LoopInv'
  OBVIOUS
<1>1. AddGlobal(Audio) /\ UNCHANGED <<loop, now, closure>>
  BY DEF CountsGlobally
<1>2. Inv'
  <2>1. global' \in Nat /\ adding' \in [Threads -> BOOLEAN]
    BY <1>1, AudioGuards DEF AddGlobal, Inv, TypeOK
  <2> QED
    BY <1>1, <2>1, QuietInv DEF AddGlobal, tls, Inv, TypeOK
<1>3. UNCHANGED <<guards, panic>>
  BY <1>1 DEF AddGlobal
<1>4. LoopInv'
  <2>1. pc = "measuring" => tracker \in DOMAIN guards[Audio]
    BY DEF LoopInv, Watched
  <2> QED
    BY <1>1, <1>3, <2>1, OutsideKept
<1> QED
  BY <1>2, <1>4

\* A guard of the closure goes on top of the loop's.
LEMMA KeepKeeps == Inv /\ LoopInv /\ Keep => Inv' /\ LoopInv'
<1> SUFFICES ASSUME Inv, LoopInv, Keep PROVE Inv' /\ LoopInv'
  OBVIOUS
<1>1. /\ Enter(Audio, "scope", FALSE) /\ "scope" \in Kinds /\ FALSE \in BOOLEAN
      /\ UNCHANGED <<loop, now, closure>>
  BY DEF Keep, Kinds
<1>2. Inv'
  BY <1>1, AudioGuards, EnterInv
<1>3. /\ DOMAIN guards'[Audio] = 1 .. Len(guards[Audio]) + 1
      /\ DOMAIN guards[Audio] = 1 .. Len(guards[Audio]) /\ Len(guards[Audio]) \in Nat
      /\ \A i \in DOMAIN guards[Audio] : guards'[Audio][i] = guards[Audio][i]
      /\ UNCHANGED panic
  BY <1>1, EntersAbove, AudioGuards
<1>4. LoopInv'
  <2>1. pc = "measuring" => tracker \in DOMAIN guards[Audio]
    BY DEF LoopInv, Watched
  <2>2. pc = "measuring" => /\ tracker \in DOMAIN guards'[Audio]
                            /\ guards'[Audio][tracker] = guards[Audio][tracker]
    BY <1>3, <2>1
  <2> QED
    BY <1>1, <1>3, <2>2, OutsideKept
<1> QED
  BY <1>2, <1>4

\* A panic begins within a callback.
LEMMA PanicKeeps ==
    ASSUME Inv, LoopInv, UserPanic(Audio), UNCHANGED <<loop, now, closure>>
    PROVE  Inv' /\ LoopInv'
<1>1. Inv' /\ UNCHANGED guards /\ panic'[Audio] = "user"
  BY PanicsOnly
<1>2. pc = "measuring" => tracker \in DOMAIN guards'[Audio]
  BY <1>1 DEF LoopInv, Watched
<1>3. LoopInv'
  BY <1>1, <1>2, OutsideKept
<1> QED
  BY <1>1, <1>3

\* A guard of the closure goes away, above or below the loop's.
LEMMA LetGoKeeps ==
    ASSUME Inv, LoopInv, NEW i \in 1 .. MaxGuards, LetGo(i)
    PROVE  Inv' /\ LoopInv'
<1>1. /\ Calling \/ pc = "done"
      /\ i # tracker /\ i \in DOMAIN guards[Audio] /\ Drop(Audio, i, "return")
      /\ tracker' = IF i < tracker THEN tracker - 1 ELSE tracker
      /\ UNCHANGED <<pc, conf, frame_index, now, start, durations, allocated, closure>>
  BY DEF LetGo, DropScope
<1>2. Inv'
  BY <1>1, AudioGuards, DropInv
<1>3. Watched'
  <2>1. CASE pc = "measuring"
    <3>1. /\ tracker \in DOMAIN guards[Audio] /\ now - start = work[Len(work)].took
          /\ panic[Audio] = "none" =>
                guards[Audio][tracker].real = work[Len(work)].allocated
      BY <2>1 DEF LoopInv, Watched
    <3>2. /\ tracker' \in DOMAIN guards'[Audio]
          /\ guards'[Audio][tracker'] = guards[Audio][tracker]
          /\ panic'[Audio] = "none" => panic[Audio] = "none"
      BY <1>1, <3>1, DropsOther
    <3> QED
      BY <1>1, <2>1, <3>1, <3>2 DEF Watched, closure
  <2>2. CASE pc # "measuring"
    <3>1. tracker = 0 /\ i \in Nat /\ i > 0
      BY <1>1, <2>2, AudioGuards DEF LoopInv, Watched
    <3>2. tracker' = 0
      BY <1>1, <3>1
    <3> QED
      BY <1>1, <2>2, <3>2 DEF Watched
  <2> QED
    BY <2>1, <2>2
<1>4. LoopTypes' /\ Control' /\ Frames' /\ Budgeted'
  <2>1. pc # "measuring" => tracker' = 0
    BY <1>1, <1>3 DEF Watched
  <2>2. LoopTypes' /\ Frames' /\ Budgeted'
    BY <1>1 DEF LoopInv, LoopTypes, Frames, Budgeted, Calling, closure
  <2>3. Control'
    BY <1>1, <2>1 DEF LoopInv, Control, Before, After, Calling, closure
  <2> QED
    BY <2>2, <2>3
<1> QED
  BY <1>2, <1>3, <1>4 DEF LoopInv

\* The panic machinery, and what happens to a panic outside run.
LEMMA UnwindsKeeps == Inv /\ LoopInv /\ Unwinds => Inv' /\ LoopInv'
<1> SUFFICES ASSUME Inv, LoopInv, Unwinds PROVE Inv' /\ LoopInv'
  OBVIOUS
<1>1. UNCHANGED <<loop, now, closure>>
  BY DEF Unwinds
<1>2. CASE MachineryAllocates(Audio)
  <2>1. /\ RecordAlloc(Audio) /\ panic[Audio] # "none"
        /\ UNCHANGED <<depth, deallocations, global, panic, aborted>>
    BY <1>2 DEF MachineryAllocates
  <2>2. Inv'
    BY <2>1, AudioGuards, RecordAllocInv DEF Inv, TypeOK
  <2>3. pc = "measuring" => tracker \in DOMAIN guards'[Audio]
    BY <2>1, AllocatesMore DEF LoopInv, Watched
  <2>4. LoopInv'
    BY <1>1, <2>1, <2>3, OutsideKept
  <2> QED
    BY <2>2, <2>4
<1>3. CASE pc = "failed" /\ (Unwind(Audio) \/ Catch(Audio))
  <2>1. LoopInv'
    BY <1>1, <1>3, OutsideKept
  <2>2. CASE Unwind(Audio)
    BY <2>1, <2>2, AudioGuards, LastGuard, DropInv DEF Unwind
  <2>3. CASE Catch(Audio)
    <3>1. panic' \in [Threads -> Payloads \cup {"none"}]
      BY <2>3 DEF Catch, Inv, TypeOK
    <3>2. Inv'
      BY <2>3, <3>1, QuietInv DEF Catch, tls, Inv, TypeOK
    <3> QED
      BY <2>1, <3>2
  <2> QED
    BY <1>3, <2>2, <2>3
<1> QED
  BY <1>2, <1>3 DEF Unwinds

\* Every step of the benchmark keeps the invariant.
LEMMA LoopNext == Inv /\ LoopInv /\ [BlockNext]_blockVars => Inv' /\ LoopInv'
<1> SUFFICES ASSUME Inv, LoopInv, [BlockNext]_blockVars PROVE Inv' /\ LoopInv'
  OBVIOUS
<1>1. CASE UNCHANGED blockVars
  <2>1. UNCHANGED vars /\ UNCHANGED <<loop, now, closure>>
    BY <1>1 DEF blockVars
  <2>2. pc = "measuring" => tracker \in DOMAIN guards[Audio]
    BY DEF LoopInv, Watched
  <2>3. LoopInv'
    BY <2>1, <2>2, OutsideKept DEF vars
  <2> QED
    BY <2>1, <2>3, StillInv
<1>2. CASE RunNothing
  BY <1>2, RunNothingKeeps
<1>3. ASSUME NEW warmup \in 0 .. MaxWarmup, NEW iterations \in 1 .. MaxIterations,
             Run(warmup, iterations)
      PROVE  Inv' /\ LoopInv'
  BY <1>3, RunKeeps
<1>4. CASE WarmUp \/ WarmedUp \/ Reserve
  BY <1>4, WarmUpKeeps, WarmedUpKeeps, ReserveKeeps
<1>5. CASE Measure \/ Measured \/ Finish \/ Abandon
  BY <1>5, MeasureKeeps, MeasuredKeeps, FinishKeeps, AbandonKeeps
<1>6. CASE StartBudget \/ Tick \/ Allocates
  BY <1>6, StartBudgetKeeps, TickKeeps, AllocatesKeeps
<1>7. ASSUME NEW later \in now .. MaxTime, CheckBudget(later) PROVE Inv' /\ LoopInv'
  BY <1>7, CheckBudgetKeeps
<1>8. CASE AssertWithin \/ Panics
  BY <1>8, PanicKeeps DEF AssertWithin, Panics
<1>9. CASE CountsGlobally \/ Keep \/ Unwinds
  BY <1>9, CountsGloballyKeeps, KeepKeeps, UnwindsKeeps
<1>10. ASSUME NEW i \in 1 .. MaxGuards, LetGo(i) PROVE Inv' /\ LoopInv'
  BY <1>10, LetGoKeeps
<1> QED
  BY <1>1, <1>2, <1>3, <1>4, <1>5, <1>6, <1>7, <1>8, <1>9, <1>10 DEF BlockNext

\* The invariant holds in every state of the benchmark.
LEMMA LoopAlways == BlockSpec => [](Inv /\ LoopInv)
<1>1. BlockInit => Inv /\ LoopInv
  BY InitInv, InitLoop DEF BlockInit
<1> QED
  BY <1>1, LoopNext, PTL DEF BlockSpec

-----------------------------------------------------------------------------
(* What the invariant says of a result.                                    *)

\* A sum of numbers is zero if and only if all of them are.
LEMMA ZeroSum ==
    ASSUME NEW n \in Nat, NEW f \in [1 .. n -> Nat]
    PROVE  SumFunction(f) = 0 <=> \A i \in 1 .. n : f[i] = 0
<1> SUFFICES ASSUME NEW S, S = 1 .. n
             PROVE  SumFunction(f) = 0 <=> \A i \in S : f[i] = 0
  OBVIOUS
<1>1. IsFiniteSet(1 .. n)
  BY FS_Interval
<1>2. IsFiniteSet(S) /\ f \in [S -> Nat]
  BY <1>1
<1>3. PICK g : IsSum(g, S, f) /\ SumFunction(f) = g[S]
  BY <1>2, SumOf, Zenon
<1> QED
  BY <1>2, <1>3, SumIsZero

\* The longest of some durations.
LEMMA LongestIs ==
    ASSUME NEW d \in Durations
    PROVE  /\ max(d) \in Nat /\ \A i \in 1 .. Len(d) : d[i] <= max(d)
           /\ \E i \in 1 .. Len(d) : max(d) = d[i]
<1> DEFINE V == Range(d)
<1>1. d \in Seq(Nat) /\ Len(d) \in Nat /\ Len(d) > 0 /\ DOMAIN d = 1 .. Len(d)
  BY DEF Durations
<1>2. V = {d[i] : i \in 1 .. Len(d)}
  BY <1>1 DEF Range
<1>3. V \subseteq Nat /\ V # {}
  BY <1>1, <1>2
<1>4. IsFiniteSet(V)
  <2>1. IsFiniteSet(1 .. Len(d))
    <3>1. 1 \in Int /\ Len(d) \in Int
      BY <1>1
    <3> QED
      BY <3>1, FS_Interval, Zenon
  <2>2. d \in Surjection(1 .. Len(d), V)
    BY <1>1, <1>2 DEF Surjection
  <2> QED
    BY <2>1, <2>2, FS_Surjection
<1>5. Max(V) \in V /\ \A v \in V : v <= Max(V)
  <2>1. V \subseteq Int
    BY <1>3
  <2> HIDE DEF V
  <2> QED
    BY <1>3, <1>4, <2>1, ExtremesExist
<1>6. max(d) = Max(V)
  BY DEF max
<1> HIDE DEF V
<1> QED
  BY <1>2, <1>3, <1>5, <1>6

\* The callbacks that a finished run measured.
LEMMA MeasuredPart ==
    ASSUME LoopInv, pc = "done"
    PROVE  LET measured == SubSeq(work, conf.warmup + 1, Len(work))
               D == conf.iterations IN
           /\ D \in Nat /\ D > 0 /\ Len(durations) = D /\ Len(work) = conf.warmup + D
           /\ measured \in Seq(Frame) /\ Len(measured) = D
           /\ \A i \in 1 .. D : measured[i] = work[conf.warmup + i]
<1> DEFINE W == conf.warmup
           D == conf.iterations
           measured == SubSeq(work, W + 1, Len(work))
<1>1. /\ W \in Nat /\ D \in Nat /\ D > 0 /\ Len(durations) = D
      /\ work \in Seq(Frame) /\ Len(work) \in Nat /\ Len(work) = W + D
  BY DEF LoopInv, LoopTypes, Control, After
<1>2. \A i \in W + 1 .. Len(work) : work[i] \in Frame
  BY <1>1
<1> HIDE DEF W, D
<1>3. /\ measured \in Seq(Frame)
      /\ Len(measured) = IF W + 1 <= Len(work) THEN Len(work) - (W + 1) + 1 ELSE 0
      /\ \A i \in 1 .. Len(work) - (W + 1) + 1 : measured[i] = work[W + 1 + i - 1]
  <2>1. W + 1 \in Int /\ Len(work) \in Int
    BY <1>1
  <2> QED
    BY <1>2, <2>1, SubSeqProperties
<1>4. Len(work) - (W + 1) + 1 = D /\ W + 1 <= Len(work) /\ \A i \in 1 .. D : W + 1 + i - 1 = W + i
  BY <1>1
<1> HIDE DEF measured
<1>5. Len(measured) = D /\ \A i \in 1 .. D : measured[i] = work[W + i]
  BY <1>3, <1>4
<1> QED
  BY <1>1, <1>3, <1>5 DEF W, D, measured

\* At the end the record of the callbacks is the result.
LEMMA InvReports == LoopInv => ReportIsExact
<1> SUFFICES ASSUME LoopInv, pc = "done" PROVE ReportIsExact
  BY DEF ReportIsExact
<1> DEFINE W == conf.warmup
           D == conf.iterations
           measured == SubSeq(work, W + 1, Len(work))
<1>1. /\ D \in Nat /\ D > 0 /\ Len(durations) = D /\ Len(work) = W + D
      /\ measured \in Seq(Frame) /\ Len(measured) = D
      /\ \A i \in 1 .. D : measured[i] = work[W + i]
  BY MeasuredPart
<1>2. After
  BY DEF LoopInv, Control
<1>3. \A i \in DOMAIN work : work[i].index = i - 1
  BY DEF LoopInv, Frames
<1>4. durations \in Seq(Nat) /\ durations \in [1 .. D -> Nat] /\ durations \in Durations
  <2>1. durations \in Seq(Nat)
    BY DEF LoopInv, LoopTypes
  <2> QED
    BY <1>1, <2>1 DEF Durations
<1> HIDE DEF W, D, measured
<1>5. DOMAIN measured = 1 .. D
  BY <1>1
<1>6. \A i \in 1 .. D : measured[i].took \in Nat /\ measured[i].allocated \in Nat
  <2> SUFFICES ASSUME NEW i \in 1 .. D
               PROVE  measured[i].took \in Nat /\ measured[i].allocated \in Nat
    OBVIOUS
  <2>1. measured[i] \in Frame
    BY <1>1, <1>5
  <2> QED
    BY <2>1 DEF Frame
<1>7. \A i \in 1 .. D : durations[i] = measured[i].took
  BY <1>1, <1>2 DEF After, W
<1>8. durations = [i \in 1 .. D |-> measured[i].took]
  BY <1>4, <1>7
<1> DEFINE f == [i \in 1 .. D |-> measured[i].allocated]
<1>9. f \in [1 .. D -> Nat] /\ \A i \in 1 .. D : f[i] = measured[i].allocated
  BY <1>6
<1>10. allocated = SumFunction(f)
  <2>1. f = [i \in 1 .. Len(durations) |-> work[conf.warmup + i].allocated]
    BY <1>1 DEF W
  <2> HIDE DEF f
  <2> QED
    BY <1>2, <2>1 DEF After
<1> HIDE DEF f
<1>11. RealTimeSafe <=> \A i \in 1 .. D : measured[i].allocated = 0
  BY <1>1, <1>9, <1>10, ZeroSum DEF RealTimeSafe
<1>12. WithinBlockBudget <=> \A i \in 1 .. D : measured[i].took <= BlockDuration
  <2>1. /\ max(durations) \in Nat /\ \A i \in 1 .. D : measured[i].took <= max(durations)
        /\ \E i \in 1 .. D : max(durations) = measured[i].took
    BY <1>1, <1>4, <1>7, LongestIs
  <2> QED
    BY <1>6, <2>1, BlockAssumption DEF WithinBlockBudget
<1> QED
  BY <1>1, <1>3, <1>5, <1>8, <1>10, <1>11, <1>12 DEF ReportIsExact, W, D, measured, f

\* Times within the callback, so within what the loop measured.
LEMMA InvBudgets == LoopInv => BudgetAgrees
<1> SUFFICES ASSUME LoopInv PROVE BudgetAgrees
  OBVIOUS
<1>1. ASSUME NEW i \in DOMAIN work, work[i].reported # 0
      PROVE  /\ work[i].reported > BlockDuration
             /\ pc = "done" /\ i > conf.warmup =>
                   durations[i - conf.warmup] >= work[i].reported /\ ~WithinBlockBudget
  <2> DEFINE t == work[i].reported
             W == conf.warmup
  <2>1. t > BlockDuration /\ t <= work[i].took
    BY <1>1 DEF LoopInv, Frames
  <2>2. work[i].took \in Nat /\ t \in Nat
    <3>1. work[i] \in Frame
      BY DEF LoopInv, LoopTypes
    <3> QED
      BY <3>1 DEF Frame
  <2>3. ASSUME pc = "done", i > W
        PROVE  durations[i - W] >= t /\ ~WithinBlockBudget
    <3>1. /\ Len(work) = W + Len(durations) /\ Len(durations) \in Nat /\ Len(durations) > 0
          /\ durations \in Durations /\ W \in Nat
      BY <2>3, MeasuredPart DEF LoopInv, LoopTypes, Durations
    <3>2. i \in 1 .. Len(work)
      BY DEF LoopInv, LoopTypes
    <3>3. i - W \in 1 .. Len(durations) /\ W + (i - W) = i
      BY <2>3, <3>1, <3>2
    <3>4. durations[i - W] = work[i].took
      BY <2>3, <3>3 DEF LoopInv, Control, After
    <3>5. durations[i - W] <= max(durations) /\ max(durations) \in Nat
      BY <3>1, <3>3, LongestIs
    <3> QED
      BY <2>1, <2>2, <3>4, <3>5, BlockAssumption DEF WithinBlockBudget
  <2> QED
    BY <2>1, <2>3
<1>2. ASSUME budget # NoBudget, NEW used \in 1 .. remaining(budget, now)
      PROVE  ~exhausted(budget, now + used)
  <2> DEFINE s == budget.start
             left == BlockDuration - (now - s)
             r == remaining(budget, now)
  <2>1. budget.budget = BlockDuration /\ s \in Nat /\ now \in Nat /\ BlockDuration \in Nat
    BY <1>2, BlockAssumption DEF LoopInv, LoopTypes, Budgeted
  <2>2. r = Max({left, 0})
    BY <2>1 DEF remaining, elapsed
  <2>3. left \in Int
    BY <2>1
  <2>4. r \in {left, 0}
    <3> HIDE DEF left, r
    <3>1. left >= 0 => \A y \in {left, 0} : left >= y
      BY <2>3
    <3>2. ~(left >= 0) => \A y \in {left, 0} : 0 >= y
      BY <2>3
    <3>3. {left, 0} \subseteq Int
      BY <2>3
    <3>4. left >= 0 => Max({left, 0}) = left
      BY <3>1, <3>3, MaxIs
    <3>5. ~(left >= 0) => Max({left, 0}) = 0
      BY <3>2, <3>3, MaxIs
    <3> QED
      BY <2>2, <3>4, <3>5
  <2>5. used \in Int /\ 1 <= used /\ used <= left
    <3>1. used \in 1 .. r /\ r \in Int
      BY <2>3, <2>4
    <3> HIDE DEF r, left
    <3>2. r # 0
      BY <3>1
    <3> QED
      BY <2>4, <3>1, <3>2
  <2>6. ~(now + used - s > BlockDuration)
    BY <2>1, <2>5
  <2> QED
    BY <2>1, <2>6 DEF exhausted, elapsed
<1> QED
  BY <1>1, <1>2 DEF BudgetAgrees

\* Fractions in at most a hundred parts of what was measured are precise.
LEMMA MeasuredPrecise ==
    ASSUME NEW n \in Nat, n <= MaxIterations, NEW den \in 1 .. 100
    PROVE  Precise(den, n)
<1>1. /\ MaxIterations \in Nat /\ Full \in Nat /\ pow2[MaxExponent] \in Nat
      /\ 100 * MaxIterations < Full /\ 100 * Full <= pow2[MaxExponent]
  <2>1. MaxExponent \in Nat
    BY TimingAssumption
  <2> QED
    BY <2>1, BlockAssumption, PrecisionAssumption, FullIs, PowersOfTwo DEF Full
<1>2. n * den <= MaxIterations * den /\ den * MaxIterations <= 100 * MaxIterations
  BY <1>1, Monotone
<1>3. n * den \in Nat /\ MaxIterations * den = den * MaxIterations /\ den * MaxIterations \in Nat
  BY <1>1
<1>4. den * Full <= 100 * Full /\ den * Full \in Nat
  BY <1>1, Monotone
<1> QED
  BY <1>1, <1>2, <1>3, <1>4 DEF Precise

\* So are all fractions of up to MaxSamples samples.
LEMMA SamplesPrecise ==
    ASSUME NEW n \in 1 .. MaxSamples, NEW den \in 1 .. MaxSamples
    PROVE  Precise(den, n)
<1>1. /\ MaxSamples \in Nat /\ Full \in Nat /\ pow2[MaxExponent] \in Nat
      /\ MaxSamples * MaxSamples < Full /\ MaxSamples * Full <= pow2[MaxExponent]
  <2>1. MaxExponent \in Nat
    BY TimingAssumption
  <2> QED
    BY <2>1, PrecisionAssumption, FullIs, PowersOfTwo DEF Full
<1>2. n * den <= MaxSamples * den /\ den * MaxSamples <= MaxSamples * MaxSamples
  BY <1>1, Monotone
<1>3. n * den \in Nat /\ MaxSamples * den = den * MaxSamples /\ den * MaxSamples \in Nat
      /\ MaxSamples * MaxSamples \in Nat
  BY <1>1
<1>4. den * Full <= MaxSamples * Full /\ den * Full \in Nat /\ MaxSamples * Full \in Nat
  BY <1>1, Monotone
<1> QED
  BY <1>1, <1>2, <1>3, <1>4 DEF Precise

\* A result is a non-empty sequence of numbers, no longer than was asked for.
LEMMA InvPercentiles == LoopInv => PercentileIsRank
<1> SUFFICES ASSUME LoopInv PROVE PercentileIsRank
  OBVIOUS
<1>1. ASSUME pc = "done"
      PROVE  /\ \A f \in {<<0, 1>>, <<1, 4>>, <<3, 4>>, <<99, 100>>, <<1, 1>>} :
                    IsRank(durations, f[1], f[2])
             /\ IsMiddle(durations)
             /\ mean(durations) \in min(durations) .. max(durations)
  <2>1. durations \in Durations /\ Len(durations) \in Nat /\ Len(durations) <= MaxIterations
    <3>1. Len(durations) = conf.iterations /\ Len(durations) > 0
      BY <1>1, MeasuredPart
    <3>2. durations \in Seq(Nat) /\ Len(durations) \in Nat
      BY DEF LoopInv, LoopTypes
    <3>3. conf.iterations <= MaxIterations
      BY DEF LoopInv, LoopTypes
    <3> QED
      BY <3>1, <3>2, <3>3, BlockAssumption DEF Durations
  <2>2. ASSUME NEW den \in 1 .. 100, NEW num \in Nat, num <= den
        PROVE  IsRank(durations, num, den)
    <3>1. Precise(den, Len(durations))
      BY <2>1, MeasuredPrecise
    <3> QED
      BY <2>1, <2>2, <3>1, PercentileIsNearestRank DEF Precise, Full
  <2>3. /\ IsRank(durations, 0, 1) /\ IsRank(durations, 1, 4) /\ IsRank(durations, 3, 4)
        /\ IsRank(durations, 99, 100) /\ IsRank(durations, 1, 1)
    BY <2>2
  <2>4. \A f \in {<<0, 1>>, <<1, 4>>, <<3, 4>>, <<99, 100>>, <<1, 1>>} :
            IsRank(durations, f[1], f[2])
    BY <2>3
  <2>5. Precise(2, Len(durations))
    BY <2>1, MeasuredPrecise
  <2>6. IsMiddle(durations) /\ mean(durations) \in min(durations) .. max(durations)
    BY <2>1, <2>5, MedianIsMiddle, MeanBetween
  <2> QED
    BY <2>4, <2>6
<1>2. ASSUME NEW count \in 1 .. MaxSamples, NEW den \in 1 .. MaxSamples, NEW num \in 0 .. den
      PROVE  IsNearestRank(num, den, count)
  <2>1. Precise(den, count)
    BY SamplesPrecise
  <2>2. /\ num \in Nat /\ den \in Nat /\ den > 0 /\ num <= den
        /\ count \in Nat /\ count > 0
    BY PrecisionAssumption
  <2> QED
    BY <2>1, <2>2, RankIs
<1> QED
  BY <1>1, <1>2 DEF PercentileIsRank

-----------------------------------------------------------------------------

\* A result of AudioBlockBenchmark::run covers exactly the measured callbacks
\* and judges them rightly, for any number of callbacks, warm-up or measured,
\* and whatever guards the caller and the closure keep meanwhile.
THEOREM ReportsAreExact == BlockSpec => []ReportIsExact
  BY LoopAlways, InvReports, PTL

\* RealtimeBudget and the clock of run agree for every callback: what check
\* reported shows in the result, and what remaining() offers is never too late.
THEOREM BudgetsAgree == BlockSpec => []BudgetAgrees
  BY LoopAlways, InvBudgets, PTL

\* The percentiles of every result are nearest ranks, as far as f64 can tell
\* them, its median lies in the middle and its mean between its extremes.
THEOREM PercentilesAreRanks == BlockSpec => []PercentileIsRank
  BY LoopAlways, InvPercentiles, PTL

\* parse_duration reads every text of at most MaxText tokens, for any MaxText,
\* any numerals and any scale of the units, as the documented grammar does, and
\* refuses as out of range what is over the limit.  Of a duration at the limit
\* it only says that it is not accepted.
THEOREM DurationsAreRead == BlockSpec => []ParseIsRight
<1>1. ParseIsRight
  BY ParserFollowsGrammar DEF ParseIsRight
<1> QED
  BY <1>1, PTL

=============================================================================
