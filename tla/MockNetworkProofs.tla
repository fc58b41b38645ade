-------------------------- MODULE MockNetworkProofs --------------------------
(***************************************************************************)
(* Theorems about MockNetwork for every value of its constants.            *)
(***************************************************************************)
EXTENDS MockNetwork, Lemmas

(***************************************************************************)
(* The inductive invariant, part by part.                                  *)
(***************************************************************************)

\* What a thread's locals are at each position of its call.
LocalsInv == \A t \in Threads :
    /\ pc[t] = "second" => Len(ids[t]) = 1
    /\ pc[t] = "register" => Len(ids[t]) = 2
    /\ pc[t] \notin {"second", "register"} => ids[t] = <<>>

TypeInv == TypeOK /\ LocalsInv


LEMMA InitTypeInv == Init => TypeInv
<1> SUFFICES ASSUME Init PROVE TypeInv
  OBVIOUS
<1>1. Registered = {}
  BY DEF Init, Registered, Range
<1>2. 0 \in Duration
  BY DurationAssumption DEF Duration
<1>3. /\ inbox \in [Registered -> Seq(Message)]
      /\ received \in [Registered -> Seq(Message)]
      /\ joined \in [Registered -> Nat]
  BY <1>1 DEF Init
<1>a. /\ queue \in Seq(Message) /\ mailboxes \in Seq(Nat)
      /\ due \in Seq(Message) /\ survivors \in Seq(Message)
      /\ landed \in Seq(Message)
  BY EmptySeq DEF Init
<1>b. /\ ids \in [Threads -> Seq(Nat)]
      /\ goal \in [Threads -> SUBSET Nat]
  BY EmptySeq DEF Init
<1>4. TypeOK
  <2>1. /\ pc \in [Threads -> {"idle", "second", "register", "flush", "step",
                               "drain", "land"}]
        /\ ret \in [Threads -> {"idle", "flush"}]
        /\ rounds \in [Threads -> Nat]
        /\ step \in [Threads -> Duration]
    BY <1>2 DEF Init
  <2>2. /\ virtual_now \in Duration /\ latency \in Duration
        /\ drop_rate \in Rate /\ reorder_rate \in Rate
        /\ connected \in BOOLEAN /\ poisoned \in BOOLEAN
        /\ holder \in Threads \cup {NoThread}
    BY <1>2 DEF Init, Rate
  <2>3. /\ sent \in Nat /\ delivered \in Nat /\ dropped \in Nat
        /\ in_flight \in Nat /\ next_endpoint \in Nat
        /\ count \in Nat /\ slot \in Nat \ {0}
    BY DEF Init
  <2> QED
    BY <1>3, <1>a, <1>b, <2>1, <2>2, <2>3 DEF TypeOK
<1>5. LocalsInv
  BY DEF Init, LocalsInv
<1> QED
  BY <1>4, <1>5 DEF TypeInv

\* Appending adds one to the length.
LEMMA AppendLength ==
    ASSUME NEW S, NEW s \in Seq(S), NEW e \in S
    PROVE  Append(s, e) \in Seq(S) /\ Len(Append(s, e)) = Len(s) + 1
  BY AppendProperties

\* transmit's insertion keeps the queue a sequence and adds one message.
LEMMA InsertType ==
    ASSUME NEW q \in Seq(Message), NEW m \in Message, NEW reorder \in BOOLEAN
    PROVE  /\ Insert(q, m, reorder) \in Seq(Message)
           /\ Len(Insert(q, m, reorder)) = Len(q) + 1
  BY DEF Insert

\* What transmit queues is a message whose deadline fits a Duration.
LEMMA SentIsMessage ==
    ASSUME TypeInv, NEW e \in Registered, SendQueued(e)
    PROVE  [n |-> sent + 1, from |-> e, deliver_at |-> virtual_now + latency]
              \in Message
<1>1. e \in Nat
  BY DEF TypeInv, TypeOK, Registered, Range
<1>2. virtual_now + latency \in Duration
  BY DurationAssumption DEF TypeInv, TypeOK, SendQueued, Duration
<1>3. sent + 1 \in Nat
  BY DEF TypeInv, TypeOK
<1> QED
  BY <1>1, <1>2, <1>3 DEF Message

LEMMA NextTypeInv == TypeInv /\ [Next]_vars => TypeInv'
<1> SUFFICES ASSUME TypeInv, [Next]_vars PROVE TypeInv'
  OBVIOUS
<1> USE DEF TypeInv, TypeOK, LocalsInv, config, stats, delivery, endpoints, threads
<1>a. UNCHANGED mailboxes => UNCHANGED Registered
  BY DEF Registered
<1>1. ASSUME NEW t \in Threads, PairFirst(t) PROVE TypeInv'
  BY SMTT(30), <1>1, <1>a DEF PairFirst, TakeId
<1>2. ASSUME NEW t \in Threads, PairSecond(t) PROVE TypeInv'
  <2>a. ids[t] \in Seq(Nat) /\ Len(ids[t]) = 1 /\ next_endpoint \in Nat
    BY <1>2 DEF PairSecond
  <2>b. Len(Append(ids[t], next_endpoint)) = Len(ids[t]) + 1
    BY <2>a, AppendLength
  <2>1. Len(Append(ids[t], next_endpoint)) = 2
    BY <2>a, <2>b
  <2>2. TypeOK'
    BY SMTT(30), <1>2, <1>a DEF PairSecond, TakeId
  <2>3. LocalsInv'
    BY <1>2, <2>1 DEF PairSecond, TakeId
  <2> QED
    BY <2>2, <2>3
<1>3. ASSUME NEW t \in Threads, PairRegister(t) PROVE TypeInv'
  <2>1. ids[t] \in Seq(Nat) /\ Len(ids[t]) = 2
    BY <1>3 DEF PairRegister
  <2>2. mailboxes' \in Seq(Nat)
    BY <1>3, <2>1 DEF PairRegister
  <2>3. Registered' = Registered \cup Range(ids[t])
    <3>1. mailboxes \in Seq(Nat) /\ mailboxes' = mailboxes \o ids[t]
      BY <1>3 DEF PairRegister
    <3> QED
      BY <2>1, <3>1, RangeConcatenation DEF Registered
  <2>4. /\ inbox' \in [Registered' -> Seq(Message)]
        /\ received' \in [Registered' -> Seq(Message)]
        /\ joined' \in [Registered' -> Nat]
    BY <1>3, <2>3 DEF PairRegister
  <2>5. TypeOK'
    BY <1>3, <2>2, <2>4, EmptySeq DEF PairRegister
  <2>6. LocalsInv'
    BY <1>3 DEF PairRegister
  <2> QED
    BY <2>5, <2>6 DEF TypeInv
<1>4. ASSUME NEW t \in Threads, Drain(t) PROVE TypeInv'
  <2>1. Head(queue) \in Message /\ Tail(queue) \in Seq(Message)
    BY <1>4 DEF Drain
  <2>2. due' \in Seq(Message) /\ survivors' \in Seq(Message)
    <3>1. /\ due \in Seq(Message) /\ survivors \in Seq(Message)
          /\ due' = Append(due, Head(queue)) \/ due' = due
          /\ survivors' = Append(survivors, Head(queue)) \/ survivors' = survivors
      BY <1>4 DEF Drain
    <3> HIDE DEF TypeInv, TypeOK, LocalsInv, config, stats, delivery, endpoints, threads
    <3> QED
      BY <3>1, <2>1, AppendLength
  <2> QED
    BY <1>4, <1>a, <2>1, <2>2 DEF Drain
<1>5. ASSUME NEW t \in Threads, Drained(t) PROVE TypeInv'
  BY <1>5, <1>a DEF Drained
<1>6. ASSUME NEW t \in Threads, Push(t) PROVE TypeInv'
  <2>1. Head(due) \in Message
    BY <1>6 DEF Push
  <2>2. mailboxes[slot] \in Registered
    BY <1>6 DEF Push, Registered, Range
  <2>3. Append(inbox[mailboxes[slot]], Head(due)) \in Seq(Message)
    BY <2>1, <2>2, AppendProperties
  <2>4. inbox' \in [Registered -> Seq(Message)]
    BY <1>6, <2>2, <2>3 DEF Push
  <2>5. TypeOK'
    BY SMTT(30), <1>6, <1>a, <2>4 DEF Push
  <2>6. LocalsInv'
    BY <1>6 DEF Push
  <2> QED
    BY <2>5, <2>6
<1>7. ASSUME NEW t \in Threads, NextMessage(t) PROVE TypeInv'
  BY SMTT(30), <1>7, <1>a DEF NextMessage
<1>8. ASSUME NEW t \in Threads, Unlock(t) PROVE TypeInv'
  <2>1. ret[t] \in {"idle", "flush"}
    OBVIOUS
  <2>2. TypeOK'
    BY <1>8, <1>a, <2>1 DEF Unlock
  <2>3. LocalsInv'
    BY <1>8, <2>1 DEF Unlock
  <2> QED
    BY <2>2, <2>3
<1>9. ASSUME NEW t \in Threads, FlushRead(t) PROVE TypeInv'
  <2>1. InFlight \in SUBSET Nat
    <3>1. ASSUME NEW i \in DOMAIN queue PROVE queue[i].n \in Nat
      <4>1. queue[i] \in Message
        BY <3>1, LenProperties
      <4> QED
        BY <4>1 DEF Message
    <3> QED
      BY <3>1 DEF InFlight
  <2>2. (IF latency > 1 THEN latency ELSE 1) \in Duration
    BY DurationAssumption DEF Duration
  <2>3. TypeOK'
    BY SMTT(30), <1>9, <1>a, <2>1, <2>2 DEF FlushRead
  <2>4. LocalsInv'
    BY <1>9 DEF FlushRead
  <2> QED
    BY <2>3, <2>4
<1>b. ASSUME NEW t \in Threads, NEW by \in Duration, NEW back \in {"idle", "flush"},
             pc[t] \in {"idle", "step"}, LockAndAdvance(t, by, back)
      PROVE  TypeInv'
  <2>1. virtual_now' \in Duration /\ 0 \in Duration
    BY <1>b, DurationAssumption DEF LockAndAdvance, Duration
  <2>2. TypeOK'
    BY <1>b, <1>a, <2>1 DEF LockAndAdvance
  <2>3. LocalsInv'
    BY <1>b DEF LockAndAdvance
  <2> QED
    BY <2>2, <2>3
<1>c. 0 \in Duration
  BY DurationAssumption DEF Duration
<1>d. ASSUME NEW t \in Threads, NEW by \in Duration, AdvanceOverflows(t, by)
      PROVE  TypeInv'
  <2>1. TypeOK'
    BY <1>a, <1>c, <1>d DEF AdvanceOverflows, Leave
  <2>2. LocalsInv'
    BY <1>d DEF AdvanceOverflows, Leave
  <2> QED
    BY <2>1, <2>2
<1>10. ASSUME NEW t \in Threads, FlushStep(t) PROVE TypeInv'
  BY <1>10, <1>b, <1>d DEF FlushStep
<1>11. ASSUME NEW t \in Threads, FlushReturn(t) PROVE TypeInv'
  <2>1. TypeOK'
    BY <1>11, <1>a, <1>c DEF FlushReturn, Leave
  <2>2. LocalsInv'
    BY <1>11 DEF FlushReturn, Leave
  <2> QED
    BY <2>1, <2>2
<1>12. ASSUME NEW t \in Threads, PanicInCall(t) PROVE TypeInv'
  <2>1. TypeOK'
    BY <1>12, <1>a, <1>c DEF PanicInCall, Leave
  <2>2. LocalsInv'
    BY <1>12 DEF PanicInCall, Leave
  <2> QED
    BY <2>1, <2>2
<1>13. ASSUME NEW t \in Threads, NEW by \in Steps, Advance(t, by) PROVE TypeInv'
  <2>1. by \in Duration
    BY DurationAssumption DEF Duration
  <2> QED
    BY <1>13, <1>b, <1>d, <2>1 DEF Advance
<1>14. ASSUME NEW t \in Threads, NEW max_rounds \in RoundLimits,
              FlushCall(t, max_rounds)
       PROVE  TypeInv'
  BY <1>14, <1>a, BoundsAssumption DEF FlushCall
<1>15. ASSUME NEW e \in Registered, SendDropped(e) PROVE TypeInv'
  BY <1>15, <1>a DEF SendDropped
<1>16. ASSUME NEW e \in Registered, SendQueued(e) PROVE TypeInv'
  <2> DEFINE m == [n |-> sent + 1, from |-> e, deliver_at |-> virtual_now + latency]
  <2>1. m \in Message
    BY <1>16, SentIsMessage
  <2>2. PICK reorder \in BOOLEAN : queue' = Insert(queue, m, reorder)
    BY <1>16 DEF SendQueued, Draws
  <2>3. queue' \in Seq(Message)
    BY <2>1, <2>2, InsertType
  <2> QED
    BY SMTT(30), <1>16, <1>a, <2>3 DEF SendQueued
<1>17. ASSUME NEW e \in Registered, SendOverflows(e) PROVE TypeInv'
  BY <1>17, <1>a DEF SendOverflows
<1>18. ASSUME NEW e \in Registered, TryRecv(e) PROVE TypeInv'
  <2>1. inbox[e] \in Seq(Message) /\ received[e] \in Seq(Message)
    OBVIOUS
  <2>2. Head(inbox[e]) \in Message /\ Tail(inbox[e]) \in Seq(Message)
    BY <1>18, <2>1, HeadTailProperties DEF TryRecv
  <2>3. Append(received[e], Head(inbox[e])) \in Seq(Message)
    BY <2>1, <2>2, AppendProperties
  <2> QED
    BY <1>18, <1>a, <2>2, <2>3 DEF TryRecv
<1>19. ASSUME NEW l \in Latencies, SetLatency(l) PROVE TypeInv'
  BY <1>19, <1>a, DurationAssumption DEF SetLatency, Duration
<1>20. ASSUME NEW r \in Rates, SetDropRate(r) \/ SetReorderRate(r) PROVE TypeInv'
  <2>1. r \in Rate
    BY RatesAssumption DEF Rate
  <2>2. CASE SetDropRate(r)
    BY <1>a, <2>1, <2>2 DEF SetDropRate
  <2>3. CASE SetReorderRate(r)
    BY <1>a, <2>1, <2>3 DEF SetReorderRate
  <2> QED
    BY <1>20, <2>2, <2>3
<1>21. ASSUME NEW up \in BOOLEAN, SetConnected(up) PROVE TypeInv'
  BY <1>21, <1>a DEF SetConnected
<1>22. CASE Stats
  BY <1>22, <1>a DEF Stats
<1>23. CASE UNCHANGED vars
  BY <1>23, <1>a DEF vars
<1> QED
  BY <1>1, <1>2, <1>3, <1>4, <1>5, <1>6, <1>7, <1>8, <1>9, <1>10, <1>11, <1>12,
     <1>13, <1>14, <1>15, <1>16, <1>17, <1>18, <1>19, <1>20, <1>21, <1>22, <1>23
  DEF Next, PairCall, DeliverDue, Flush, Send, PanicAtCall

\* Every reachable state of the link is well typed, whatever calls, latencies,
\* rates and thread interleavings produced it.
THEOREM TypeCorrect == Spec => []TypeOK
<1>1. TypeInv => TypeOK
  BY DEF TypeInv
<1> QED
  BY <1>1, InitTypeInv, NextTypeInv, PTL DEF Spec
-----------------------------------------------------------------------------
(***************************************************************************)
(* Conservation.  It is only claimed while the mutex is free, so the       *)
(* induction has to follow the messages through deliver_due: some are      *)
(* still queued, some survive the split, some are due, and once the split  *)
(* is done the due ones are counted by the local count alone.              *)
(***************************************************************************)

\* Who is inside deliver_due: exactly the holder, on a mutex nobody poisoned.
LockInv ==
    /\ \A t \in Threads : pc[t] \in {"drain", "land"} <=> holder = t
    /\ holder # NoThread => ~poisoned

Landing == \E t \in Threads : pc[t] = "land"

\* The locals of deliver_due are empty outside it.
DeliverInv ==
    /\ holder = NoThread => due = <<>> /\ survivors = <<>> /\ count = 0
    /\ ~Landing => count = 0
    /\ Landing => survivors = <<>>

\* Messages taken off the queue whose delivery is not counted yet.
InHand == IF Landing THEN count ELSE Len(due)

ConserveInv ==
    LET accounted == dropped + delivered + Len(queue) + Len(survivors) + InHand
    IN  \/ sent = accounted
        \/ poisoned /\ sent = accounted + 1

SafeInv == LockInv /\ DeliverInv /\ ConserveInv

\* A thread that is not inside deliver_due may move without changing what
\* the invariant says, as long as it stays outside.
LEMMA OutsideKeepsLockInv ==
    ASSUME TypeInv, LockInv, NEW t \in Threads,
           NEW p \in {"idle", "second", "register", "flush", "step"},
           pc[t] \notin {"drain", "land"}, pc' = [pc EXCEPT ![t] = p],
           UNCHANGED <<holder, poisoned>>
    PROVE  LockInv' /\ Landing' = Landing
<1>1. pc \in [Threads -> {"idle", "second", "register", "flush", "step",
                          "drain", "land"}]
  BY DEF TypeInv, TypeOK
<1>2. LockInv'
  BY <1>1 DEF LockInv
<1>3. Landing' = Landing
  BY <1>1 DEF Landing
<1> QED
  BY <1>2, <1>3

LEMMA SameKeepsSafeInv ==
    ASSUME SafeInv, LockInv', Landing' = Landing,
           UNCHANGED <<queue, sent, delivered, dropped, due, survivors, count>>,
           holder' = holder, poisoned \in BOOLEAN, poisoned => poisoned'
    PROVE  SafeInv'
  BY DEF SafeInv, DeliverInv, ConserveInv, InHand

LEMMA InitSafeInv == Init => SafeInv
<1> SUFFICES ASSUME Init PROVE SafeInv
  OBVIOUS
<1>1. LockInv /\ ~Landing
  BY NoThreadAssumption DEF Init, LockInv, Landing
<1>2. DeliverInv
  BY <1>1 DEF Init, DeliverInv
<1>3. ConserveInv
  BY <1>1, EmptySeq DEF Init, ConserveInv, InHand
<1> QED
  BY <1>1, <1>2, <1>3 DEF SafeInv

LEMMA NextSafeInv == TypeInv /\ SafeInv /\ [Next]_vars => SafeInv'
<1> SUFFICES ASSUME TypeInv, SafeInv, [Next]_vars PROVE SafeInv'
  OBVIOUS
<1> USE DEF config, stats, delivery, endpoints, threads
<1>t. /\ pc \in [Threads -> {"idle", "second", "register", "flush", "step",
                             "drain", "land"}]
      /\ sent \in Nat /\ delivered \in Nat /\ dropped \in Nat /\ count \in Nat
      /\ queue \in Seq(Message) /\ due \in Seq(Message)
      /\ survivors \in Seq(Message)
      /\ poisoned \in BOOLEAN
  BY DEF TypeInv, TypeOK
<1>l. LockInv /\ DeliverInv /\ ConserveInv
  BY DEF SafeInv
<1>k. /\ Len(queue) \in Nat /\ Len(due) \in Nat /\ Len(survivors) \in Nat
  BY <1>t
\* Steps of a thread outside deliver_due that leave the counters alone.
<1>1. ASSUME NEW t \in Threads,
             \/ PairCall(t) \/ FlushRead(t) \/ FlushReturn(t) \/ PanicInCall(t)
             \/ \E max_rounds \in RoundLimits : FlushCall(t, max_rounds)
      PROVE  SafeInv'
  <2>1. /\ pc[t] \notin {"drain", "land"}
        /\ \E p \in {"idle", "second", "register", "flush", "step"} :
              pc' = [pc EXCEPT ![t] = p]
        /\ UNCHANGED <<holder, poisoned>>
        /\ UNCHANGED <<queue, sent, delivered, dropped, due, survivors, count>>
    BY <1>1 DEF PairCall, PairFirst, PairSecond, PairRegister, FlushRead,
                FlushReturn, PanicInCall, FlushCall, Leave
  <2>2. LockInv' /\ Landing' = Landing
    BY <1>l, <2>1, OutsideKeepsLockInv
  <2> QED
    BY <1>t, <2>1, <2>2, SameKeepsSafeInv
<1>2. ASSUME NEW t \in Threads, NEW by \in Duration,
             pc[t] \in {"idle", "step"}, AdvanceOverflows(t, by)
      PROVE  SafeInv'
  <2>1. /\ pc' = [pc EXCEPT ![t] = "idle"]
        /\ holder = NoThread /\ holder' = NoThread /\ poisoned'
        /\ UNCHANGED <<queue, sent, delivered, dropped, due, survivors, count>>
    BY <1>2 DEF AdvanceOverflows, LockFree, Leave
  <2>2. LockInv'
    BY <1>2, <1>l, <1>t, <2>1, NoThreadAssumption DEF LockInv
  <2>3. Landing' = Landing
    BY <1>2, <1>t, <2>1 DEF Landing
  <2> QED
    BY <1>t, <2>1, <2>2, <2>3, SameKeepsSafeInv
<1>3. ASSUME NEW t \in Threads, NEW by \in Duration, NEW back \in {"idle", "flush"},
             pc[t] \in {"idle", "step"}, LockAndAdvance(t, by, back)
      PROVE  SafeInv'
  <2>1. /\ holder = NoThread /\ holder' = t /\ ~poisoned /\ ~poisoned'
        /\ pc' = [pc EXCEPT ![t] = "drain"]
        /\ UNCHANGED <<queue, sent, delivered, dropped, due, survivors, count>>
    BY <1>3 DEF LockAndAdvance, LockFree
  <2>2. \A u \in Threads : pc[u] \notin {"drain", "land"}
    BY <1>l, <2>1, NoThreadAssumption DEF LockInv
  <2>3. LockInv' /\ ~Landing /\ ~Landing'
    BY <1>t, <2>1, <2>2, NoThreadAssumption DEF LockInv, Landing
  <2>4. DeliverInv' /\ ConserveInv'
    BY <1>l, <2>1, <2>3, NoThreadAssumption DEF DeliverInv, ConserveInv, InHand
  <2> QED
    BY <2>3, <2>4 DEF SafeInv
<1>4. ASSUME NEW t \in Threads, Drain(t) PROVE SafeInv'
  <2>1. holder = t /\ holder' = t /\ UNCHANGED <<pc, poisoned>> /\ pc[t] = "drain"
    BY <1>4, <1>l DEF Drain, LockInv
  <2>2. LockInv' /\ Landing' = Landing /\ ~Landing
    BY <1>l, <1>t, <2>1, NoThreadAssumption DEF LockInv, Landing
  <2>3. Len(queue') = Len(queue) - 1 /\ Len(queue') \in Nat
    BY <1>4, <1>t, HeadTailProperties DEF Drain
  <2>4. Head(queue) \in Message
    BY <1>4, <1>t, HeadTailProperties DEF Drain
  <2>5. /\ Len(due') + Len(survivors') = Len(due) + Len(survivors) + 1
        /\ Len(due') \in Nat /\ Len(survivors') \in Nat
    <3>1. CASE due' = Append(due, Head(queue)) /\ survivors' = survivors
      BY <1>t, <1>k, <2>4, <3>1, AppendLength
    <3>2. CASE survivors' = Append(survivors, Head(queue)) /\ due' = due
      BY <1>t, <1>k, <2>4, <3>2, AppendLength
    <3> QED
      BY <1>4, <3>1, <3>2 DEF Drain
  <2>6. UNCHANGED <<sent, delivered, dropped, count>>
    BY <1>4 DEF Drain
  <2>7. ConserveInv'
    <3>1. ~poisoned
      BY <1>l, <2>1, NoThreadAssumption DEF LockInv
    <3>2. sent = dropped + delivered + Len(queue) + Len(survivors) + Len(due)
      BY <1>l, <2>2, <3>1 DEF ConserveInv, InHand
    <3>3. sent' = dropped' + delivered' + Len(queue') + Len(survivors') + Len(due')
      <4> DEFINE q == Len(queue)   q2 == Len(queue')   d == Len(due)
                 d2 == Len(due')   s == Len(survivors) s2 == Len(survivors')
      <4>1. /\ q \in Nat /\ d \in Nat /\ s \in Nat
            /\ q2 \in Nat /\ d2 \in Nat /\ s2 \in Nat
            /\ q2 = q - 1 /\ d2 + s2 = d + s + 1
            /\ sent = dropped + delivered + q + s + d
        BY <1>k, <2>3, <2>5, <3>2
      <4> HIDE DEF q, q2, d, d2, s, s2
      <4>2. sent = dropped + delivered + q2 + s2 + d2
        BY <1>t, <4>1
      <4> QED
        BY <2>6, <4>2 DEF q2, s2, d2
    <3> QED
      BY <2>2, <3>3 DEF ConserveInv, InHand
  <2>8. DeliverInv'
    BY <1>l, <2>1, <2>2, <2>6, NoThreadAssumption DEF DeliverInv
  <2> QED
    BY <2>2, <2>7, <2>8 DEF SafeInv
<1>5. ASSUME NEW t \in Threads, Drained(t) PROVE SafeInv'
  <2>1. /\ holder = t /\ holder' = t /\ poisoned' = poisoned /\ pc[t] = "drain"
        /\ pc' = [pc EXCEPT ![t] = "land"]
    BY <1>5, <1>l DEF Drained, LockInv
  <2>2. LockInv' /\ Landing' /\ ~Landing
    BY <1>l, <1>t, <2>1, NoThreadAssumption DEF LockInv, Landing
  <2>3. /\ queue = <<>> /\ queue' = survivors /\ survivors' = <<>>
        /\ count' = Len(due) /\ UNCHANGED <<due, sent, delivered, dropped>>
    BY <1>5 DEF Drained
  <2>4. Len(queue) = 0 /\ Len(survivors') = 0
    BY <2>3
  <2>5. ConserveInv'
    BY <1>l, <1>t, <1>k, <2>1, <2>2, <2>3, <2>4 DEF ConserveInv, InHand
  <2>6. DeliverInv'
    BY <2>1, <2>2, <2>3, NoThreadAssumption DEF DeliverInv
  <2> QED
    BY <2>2, <2>5, <2>6 DEF SafeInv
<1>6. ASSUME NEW t \in Threads, Push(t) \/ NextMessage(t) PROVE SafeInv'
  <2>1. /\ holder = t /\ holder' = t /\ UNCHANGED <<pc, poisoned>> /\ pc[t] = "land"
        /\ UNCHANGED <<queue, survivors, count, sent, delivered, dropped>>
    BY <1>6, <1>l DEF Push, NextMessage, LockInv
  <2>2. LockInv' /\ Landing' /\ Landing
    BY <1>l, <1>t, <2>1 DEF LockInv, Landing
  <2>3. ConserveInv'
    BY <1>l, <2>1, <2>2 DEF ConserveInv, InHand
  <2>4. DeliverInv'
    BY <1>l, <2>1, <2>2, NoThreadAssumption DEF DeliverInv
  <2> QED
    BY <2>2, <2>3, <2>4 DEF SafeInv
<1>7. ASSUME NEW t \in Threads, Unlock(t) PROVE SafeInv'
  <2>1. /\ holder = t /\ holder' = NoThread /\ poisoned' = poisoned /\ pc[t] = "land"
        /\ pc' = [pc EXCEPT ![t] = ret[t]]
        /\ ret[t] \in {"idle", "flush"}
    BY <1>7, <1>l DEF Unlock, LockInv, TypeInv, TypeOK
  <2>2. LockInv' /\ ~Landing' /\ Landing
    BY <1>l, <1>t, <2>1, NoThreadAssumption DEF LockInv, Landing
  <2>3. /\ due = <<>> /\ count' = 0 /\ delivered' = delivered + count
        /\ UNCHANGED <<queue, due, survivors, sent, dropped>>
    BY <1>7 DEF Unlock
  <2>4. Len(due) = 0
    BY <2>3
  <2>5. ConserveInv'
    BY <1>l, <1>t, <1>k, <2>1, <2>2, <2>3, <2>4 DEF ConserveInv, InHand
  <2>6. DeliverInv'
    BY <1>l, <2>2, <2>3 DEF DeliverInv
  <2> QED
    BY <2>2, <2>5, <2>6 DEF SafeInv
\* Sends: the holder is nobody, and the counters follow the queue.
<1>8. ASSUME NEW e \in Registered, Send(e) PROVE SafeInv'
  <2>1. holder = NoThread /\ ~poisoned /\ UNCHANGED <<holder, pc>>
        /\ UNCHANGED <<delivered, due, survivors, count>> /\ sent' = sent + 1
    BY <1>8 DEF Send, SendDropped, SendQueued, SendOverflows, Accepts, LockFree
  <2>2. LockInv' /\ Landing' = Landing
    BY <1>l, <1>t, <2>1 DEF LockInv, Landing
  <2>3. DeliverInv'
    BY <1>l, <2>1, <2>2 DEF DeliverInv
  <2>c. /\ sent = dropped + delivered + Len(queue) + Len(survivors) + InHand
        /\ InHand \in Nat /\ InHand' = InHand
    BY <1>l, <1>t, <1>k, <2>1, <2>2 DEF ConserveInv, InHand
  <2>4. ASSUME SendDropped(e) PROVE ConserveInv'
    <3>1. dropped' = dropped + 1 /\ queue' = queue
      BY <2>4 DEF SendDropped
    <3>2. sent' = dropped' + delivered' + Len(queue') + Len(survivors') + InHand'
      BY <1>t, <1>k, <2>1, <2>c, <3>1
    <3> QED
      BY <3>2 DEF ConserveInv
  <2>5. ASSUME SendQueued(e) PROVE ConserveInv'
    <3> DEFINE m == [n |-> sent + 1, from |-> e, deliver_at |-> virtual_now + latency]
    <3>a. m \in Message
      BY <2>5, SentIsMessage
    <3>1. PICK reorder \in BOOLEAN : queue' = Insert(queue, m, reorder)
      BY <2>5 DEF SendQueued, Draws
    <3>2. Len(queue') = Len(queue) + 1
      BY <1>t, <3>1, <3>a, InsertType
    <3>3. dropped' = dropped
      BY <2>5 DEF SendQueued
    <3>4. sent' = dropped' + delivered' + Len(queue') + Len(survivors') + InHand'
      BY <1>t, <1>k, <2>1, <2>c, <3>2, <3>3
    <3> QED
      BY <3>4 DEF ConserveInv
  <2>6. ASSUME SendOverflows(e) PROVE ConserveInv'
    <3>1. dropped' = dropped /\ queue' = queue /\ poisoned'
      BY <2>6 DEF SendOverflows
    <3>2. sent' = dropped' + delivered' + Len(queue') + Len(survivors') + InHand' + 1
      BY <1>t, <1>k, <2>1, <2>c, <3>1
    <3> QED
      BY <3>1, <3>2 DEF ConserveInv
  <2>7. ConserveInv'
    BY <1>8, <2>4, <2>5, <2>6 DEF Send
  <2> QED
    BY <2>2, <2>3, <2>7 DEF SafeInv
\* Steps that touch neither threads nor counters.
<1>9. ASSUME \/ \E e \in Registered : TryRecv(e)
             \/ \E l \in Latencies : SetLatency(l)
             \/ \E r \in Rates : SetDropRate(r) \/ SetReorderRate(r)
             \/ \E up \in BOOLEAN : SetConnected(up)
             \/ Stats
             \/ UNCHANGED vars
      PROVE  SafeInv'
  <2>1. /\ UNCHANGED <<pc, holder, poisoned>>
        /\ UNCHANGED <<queue, sent, delivered, dropped, due, survivors, count>>
    BY <1>9 DEF TryRecv, SetLatency, SetDropRate, SetReorderRate, SetConnected,
                Stats, vars
  <2>2. LockInv' /\ Landing' = Landing
    BY <1>l, <2>1 DEF LockInv, Landing
  <2> QED
    BY <1>t, <2>1, <2>2, SameKeepsSafeInv
<1>10. ASSUME NEW t \in Threads, FlushStep(t) PROVE SafeInv'
  <2>1. step[t] \in Duration
    BY DEF TypeInv, TypeOK
  <2> QED
    BY <1>2, <1>3, <1>10, <2>1 DEF FlushStep
<1>11. ASSUME NEW t \in Threads, NEW by \in Steps, Advance(t, by) PROVE SafeInv'
  <2>1. by \in Duration
    BY DurationAssumption DEF Duration
  <2> QED
    BY <1>2, <1>3, <1>11, <2>1 DEF Advance
<1> QED
  BY <1>1, <1>4, <1>5, <1>6, <1>7, <1>8, <1>9, <1>10, <1>11
  DEF Next, DeliverDue, Flush, PanicAtCall

\* Conservation for any number of threads, endpoints and messages: every send
\* the link accepted is dropped, delivered or in flight whenever the mutex is
\* free, except the one whose deadline overflowed and poisoned the link.
THEOREM MessagesConserved == Spec => []Conservation
<1>1. TypeInv /\ SafeInv => Conservation
  <2> SUFFICES ASSUME TypeInv, SafeInv, holder = NoThread
               PROVE  LET accounted == dropped + delivered + Len(queue)
                      IN  \/ sent = accounted
                          \/ poisoned /\ sent = accounted + 1
    BY DEF Conservation
  <2>1. Len(survivors) = 0 /\ Len(due) = 0 /\ count = 0
    BY DEF SafeInv, DeliverInv
  <2>2. /\ Len(queue) \in Nat /\ dropped \in Nat /\ delivered \in Nat /\ sent \in Nat
    BY DEF TypeInv, TypeOK
  <2> QED
    BY <2>1, <2>2 DEF SafeInv, ConserveInv, InHand
<1> QED
  BY <1>1, InitTypeInv, NextTypeInv, InitSafeInv, NextSafeInv, PTL DEF Spec
-----------------------------------------------------------------------------
(***************************************************************************)
(* Unique endpoints.  Two fetch_adds hand out two ids at two moments; what *)
(* keeps them apart is that nobody holds an id the counter has not passed. *)
(***************************************************************************)

BelowCounter ==
    /\ \A i \in DOMAIN mailboxes : mailboxes[i] < next_endpoint
    /\ \A t \in Threads : \A i \in DOMAIN ids[t] : ids[t][i] < next_endpoint

EndpointInv == BelowCounter /\ UniqueEndpoints

\* The ids a thread has after a fetch_add: those it had, and the counter.
LEMMA TakenId ==
    ASSUME TypeInv, NEW t \in Threads, TakeId(t)
    PROVE  /\ next_endpoint \in Nat /\ next_endpoint' = next_endpoint + 1
           /\ DOMAIN ids[t] = 1 .. Len(ids[t]) /\ Len(ids[t]) \in Nat
           /\ DOMAIN ids'[t] = 1 .. Len(ids[t]) + 1
           /\ ids'[t][Len(ids[t]) + 1] = next_endpoint
           /\ \A i \in DOMAIN ids[t] : ids'[t][i] = ids[t][i] /\ ids[t][i] \in Nat
           /\ \A u \in Threads : u # t => ids'[u] = ids[u]
<1>1. ids \in [Threads -> Seq(Nat)] /\ next_endpoint \in Nat
  BY DEF TypeInv, TypeOK
<1>2. ids[t] \in Seq(Nat) /\ ids'[t] = Append(ids[t], next_endpoint)
  BY <1>1 DEF TakeId
<1>3. \A u \in Threads : u # t => ids'[u] = ids[u]
  BY <1>1 DEF TakeId
<1>4. next_endpoint' = next_endpoint + 1
  BY DEF TakeId
<1>5. /\ DOMAIN ids[t] = 1 .. Len(ids[t]) /\ Len(ids[t]) \in Nat
      /\ \A i \in 1 .. Len(ids[t]) : ids[t][i] \in Nat
  BY <1>2, LenProperties, ElementOfSeq
<1>6. /\ DOMAIN ids'[t] = 1 .. Len(ids[t]) + 1
      /\ ids'[t][Len(ids[t]) + 1] = next_endpoint
      /\ \A i \in 1 .. Len(ids[t]) : ids'[t][i] = ids[t][i]
  BY <1>1, <1>2, AppendProperties, LenProperties
<1> QED
  BY <1>1, <1>3, <1>4, <1>5, <1>6

LEMMA TakeKeepsEndpoints ==
    ASSUME TypeInv, EndpointInv, NEW t \in Threads, TakeId(t), mailboxes' = mailboxes
    PROVE  EndpointInv'
<1> DEFINE n == Len(ids[t])
<1>1. /\ next_endpoint \in Nat /\ next_endpoint' = next_endpoint + 1
      /\ n \in Nat /\ DOMAIN ids[t] = 1 .. n /\ DOMAIN ids'[t] = 1 .. n + 1
      /\ ids'[t][n + 1] = next_endpoint
      /\ \A i \in 1 .. n : ids'[t][i] = ids[t][i]
      /\ \A u \in Threads : u # t => ids'[u] = ids[u]
  BY TakenId
<1> HIDE DEF n
<1>2. /\ mailboxes \in Seq(Nat) /\ ids \in [Threads -> Seq(Nat)]
      /\ \A i \in DOMAIN mailboxes : mailboxes[i] \in Nat
      /\ \A u \in Threads : \A i \in DOMAIN ids[u] : ids[u][i] \in Nat
  <2>1. mailboxes \in Seq(Nat) /\ ids \in [Threads -> Seq(Nat)]
    BY DEF TypeInv, TypeOK
  <2> QED
    BY <2>1, LenProperties, ElementOfSeq
<1>3. \* What any thread holds is old, or the new id.
      \A u \in Threads : \A i \in DOMAIN ids'[u] :
          \/ i \in DOMAIN ids[u] /\ ids'[u][i] = ids[u][i]
          \/ u = t /\ i = n + 1 /\ ids'[u][i] = next_endpoint
  <2> TAKE u \in Threads
  <2> TAKE i \in DOMAIN ids'[u]
  <2>1. CASE u # t
    BY <1>1, <2>1
  <2>2. CASE u = t
    <3>1. i \in 1 .. n \/ i = n + 1
      BY <1>1, <2>2
    <3> QED
      BY <1>1, <2>2, <3>1
  <2> QED
    BY <2>1, <2>2
<1>4. BelowCounter'
  <2>1. \A i \in DOMAIN mailboxes' : mailboxes'[i] < next_endpoint'
    BY <1>1, <1>2 DEF EndpointInv, BelowCounter
  <2>2. ASSUME NEW u \in Threads, NEW i \in DOMAIN ids'[u]
        PROVE  ids'[u][i] < next_endpoint'
    <3>1. CASE i \in DOMAIN ids[u] /\ ids'[u][i] = ids[u][i]
      <4>1. ids[u][i] < next_endpoint /\ ids[u][i] \in Nat
        BY <1>2, <3>1 DEF EndpointInv, BelowCounter
      <4> QED
        BY <1>1, <3>1, <4>1
    <3>2. CASE ids'[u][i] = next_endpoint
      BY <1>1, <3>2
    <3> QED
      BY <1>3, <3>1, <3>2
  <2> QED
    BY <2>1, <2>2 DEF BelowCounter
<1>5. Registered' = Registered /\ next_endpoint \notin Registered
  BY <1>1, <1>2 DEF EndpointInv, BelowCounter, Registered, Range
<1>6. \A u \in Threads : \A i \in DOMAIN ids'[u] : ids'[u][i] \notin Registered'
  BY <1>3, <1>5 DEF EndpointInv, UniqueEndpoints
<1>7. ASSUME NEW u \in Threads, NEW v \in Threads,
             NEW i \in DOMAIN ids'[u], NEW j \in DOMAIN ids'[v], <<u, i>> # <<v, j>>
      PROVE  ids'[u][i] # ids'[v][j]
  <2>1. \A w \in Threads : \A k \in DOMAIN ids[w] : ids[w][k] # next_endpoint
    BY <1>1, <1>2 DEF EndpointInv, BelowCounter
  <2>2. CASE i \in DOMAIN ids[u] /\ ids'[u][i] = ids[u][i]
             /\ j \in DOMAIN ids[v] /\ ids'[v][j] = ids[v][j]
    BY <1>7, <2>2 DEF EndpointInv, UniqueEndpoints
  <2> QED
    BY <1>3, <1>7, <2>1, <2>2
<1> QED
  BY <1>4, <1>6, <1>7 DEF EndpointInv, UniqueEndpoints

LEMMA RegisterKeepsEndpoints ==
    ASSUME TypeInv, EndpointInv, NEW t \in Threads, PairRegister(t)
    PROVE  EndpointInv'
<1> DEFINE own == ids[t]
           n   == Len(mailboxes)
           k   == Len(own)
<1>1. /\ mailboxes \in Seq(Nat) /\ own \in Seq(Nat) /\ ids \in [Threads -> Seq(Nat)]
      /\ mailboxes' = mailboxes \o own /\ ids' = [ids EXCEPT ![t] = <<>>]
      /\ next_endpoint' = next_endpoint
  BY DEF TypeInv, TypeOK, PairRegister
<1>2. /\ n \in Nat /\ k \in Nat /\ DOMAIN mailboxes = 1 .. n /\ DOMAIN own = 1 .. k
      /\ DOMAIN mailboxes' = 1 .. n + k
      /\ \A i \in 1 .. n : mailboxes'[i] = mailboxes[i]
      /\ \A i \in n + 1 .. n + k : i - n \in 1 .. k /\ mailboxes'[i] = own[i - n]
  BY <1>1, ConcatProperties, LenProperties
<1>3. Registered' = Registered \cup Range(own)
  BY <1>1, RangeConcatenation DEF Registered
<1>4. /\ \A u \in Threads : \A i \in DOMAIN ids'[u] :
             u # t /\ i \in DOMAIN ids[u] /\ ids'[u][i] = ids[u][i]
  BY <1>1
<1> HIDE DEF n, k
<1>5. BelowCounter'
  <2>1. \A i \in 1 .. k : own[i] < next_endpoint
    BY <1>2 DEF EndpointInv, BelowCounter
  <2>2. \A i \in 1 .. n : mailboxes[i] < next_endpoint
    BY <1>2 DEF EndpointInv, BelowCounter
  <2>3. \A i \in 1 .. n + k : mailboxes'[i] < next_endpoint
    <3> TAKE i \in 1 .. n + k
    <3>1. i \in 1 .. n \/ i \in n + 1 .. n + k
      BY <1>2
    <3> QED
      BY <1>2, <2>1, <2>2, <3>1
  <2> QED
    BY <1>1, <1>2, <1>4, <2>3 DEF EndpointInv, BelowCounter
<1>6. ASSUME NEW i \in 1 .. n + k, NEW j \in 1 .. n + k, i # j
      PROVE  mailboxes'[i] # mailboxes'[j]
  <2>0. /\ i \in 1 .. n \/ i \in n + 1 .. n + k
        /\ j \in 1 .. n \/ j \in n + 1 .. n + k
    BY <1>2
  <2>1. \A a, b \in 1 .. n : a # b => mailboxes[a] # mailboxes[b]
    BY <1>2 DEF EndpointInv, UniqueEndpoints
  <2>2. \A a, b \in 1 .. k : a # b => own[a] # own[b]
    BY SMTT(30), <1>2 DEF EndpointInv, UniqueEndpoints
  <2>3. \A a \in 1 .. n : \A b \in 1 .. k : mailboxes[a] # own[b]
    BY <1>2 DEF EndpointInv, UniqueEndpoints, Registered, Range
  <2>4. CASE i \in 1 .. n /\ j \in 1 .. n
    BY <1>2, <1>6, <2>1, <2>4
  <2>5. CASE i \in n + 1 .. n + k /\ j \in n + 1 .. n + k
    <3>1. i - n # j - n /\ i - n \in 1 .. k /\ j - n \in 1 .. k
      BY <1>2, <1>6, <2>5
    <3> QED
      BY <1>2, <2>2, <2>5, <3>1
  <2>6. CASE i \in 1 .. n /\ j \in n + 1 .. n + k
    BY <1>2, <2>3, <2>6
  <2>7. CASE i \in n + 1 .. n + k /\ j \in 1 .. n
    BY <1>2, <2>3, <2>7
  <2> QED
    BY <2>0, <2>4, <2>5, <2>6, <2>7
<1>7. ASSUME NEW u \in Threads, NEW i \in DOMAIN ids'[u]
      PROVE  ids'[u][i] \notin Registered'
  <2>1. u # t /\ i \in DOMAIN ids[u] /\ ids'[u][i] = ids[u][i]
    BY <1>4
  <2>2. \A j \in 1 .. k : ids[u][i] # own[j]
    BY <1>2, <2>1 DEF EndpointInv, UniqueEndpoints
  <2>3. ids[u][i] \notin Registered
    BY <2>1 DEF EndpointInv, UniqueEndpoints
  <2> QED
    BY <1>2, <1>3, <2>1, <2>2, <2>3 DEF Range
<1>8. ASSUME NEW u \in Threads, NEW v \in Threads,
             NEW i \in DOMAIN ids'[u], NEW j \in DOMAIN ids'[v], <<u, i>> # <<v, j>>
      PROVE  ids'[u][i] # ids'[v][j]
  BY <1>4, <1>8 DEF EndpointInv, UniqueEndpoints
<1> QED
  BY <1>2, <1>5, <1>6, <1>7, <1>8 DEF EndpointInv, UniqueEndpoints

\* Ids that are given up do no harm.
LEMMA FewerIdsKeepEndpoints ==
    ASSUME EndpointInv, UNCHANGED <<mailboxes, next_endpoint>>,
           \A u \in Threads : ids'[u] = ids[u] \/ ids'[u] = <<>>
    PROVE  EndpointInv'
<1>1. \A u \in Threads : \A i \in DOMAIN ids'[u] : i \in DOMAIN ids[u] /\ ids'[u] = ids[u]
  OBVIOUS
<1> QED
  BY <1>1 DEF EndpointInv, BelowCounter, UniqueEndpoints, Registered

LEMMA NextEndpointInv == TypeInv /\ EndpointInv /\ [Next]_vars => EndpointInv'
<1> SUFFICES ASSUME TypeInv, EndpointInv, [Next]_vars PROVE EndpointInv'
  OBVIOUS
<1> USE DEF endpoints, threads
<1>0. ids \in [Threads -> Seq(Nat)]
  BY DEF TypeInv, TypeOK
<1>1. ASSUME NEW t \in Threads, PairFirst(t) \/ PairSecond(t) PROVE EndpointInv'
  BY <1>1, TakeKeepsEndpoints DEF PairFirst, PairSecond
<1>2. ASSUME NEW t \in Threads, PairRegister(t) PROVE EndpointInv'
  BY <1>2, RegisterKeepsEndpoints
<1>3. CASE UNCHANGED <<mailboxes, next_endpoint, ids>>
  BY <1>3, FewerIdsKeepEndpoints
<1>4. ASSUME NEW t \in Threads, Leave(t), UNCHANGED <<mailboxes, next_endpoint>>
      PROVE  EndpointInv'
  BY <1>0, <1>4, FewerIdsKeepEndpoints DEF Leave
<1>5. ASSUME NEW t \in Threads, DeliverDue(t) PROVE EndpointInv'
  BY <1>3, <1>5 DEF DeliverDue, Drain, Drained, Push, NextMessage, Unlock
<1>6. ASSUME NEW t \in Threads, NEW by, NEW back,
             LockAndAdvance(t, by, back) \/ AdvanceOverflows(t, by)
      PROVE  EndpointInv'
  BY <1>3, <1>4, <1>6 DEF LockAndAdvance, AdvanceOverflows
<1>7. ASSUME NEW t \in Threads,
             \/ FlushRead(t) \/ FlushReturn(t) \/ PanicInCall(t)
             \/ \E max_rounds \in RoundLimits : FlushCall(t, max_rounds)
      PROVE  EndpointInv'
  BY <1>3, <1>4, <1>7 DEF FlushRead, FlushReturn, PanicInCall, FlushCall
<1>8. ASSUME NEW t \in Threads, FlushStep(t) \/ \E by \in Steps : Advance(t, by)
      PROVE  EndpointInv'
  BY <1>6, <1>8 DEF FlushStep, Advance
<1>9. ASSUME \/ \E e \in Registered : Send(e) \/ TryRecv(e)
             \/ \E l \in Latencies : SetLatency(l)
             \/ \E r \in Rates : SetDropRate(r) \/ SetReorderRate(r)
             \/ \E up \in BOOLEAN : SetConnected(up)
             \/ Stats
             \/ UNCHANGED vars
      PROVE  EndpointInv'
  BY <1>3, <1>9 DEF Send, SendDropped, SendQueued, SendOverflows, TryRecv, SetLatency,
                    SetDropRate, SetReorderRate, SetConnected, Stats, vars
<1> QED
  BY <1>1, <1>2, <1>5, <1>7, <1>8, <1>9 DEF Next, PairCall, Flush, PanicAtCall

\* However many threads pair endpoints at the same time, no two endpoints
\* share an id, so the sender filter of deliver_due filters senders only.
THEOREM EndpointsAreUnique == Spec => []UniqueEndpoints
<1>1. Init => EndpointInv
  BY DEF Init, EndpointInv, BelowCounter, UniqueEndpoints
<1>2. Spec => []EndpointInv
  BY <1>1, InitTypeInv, NextTypeInv, NextEndpointInv, PTL DEF Spec
<1> QED
  BY <1>2, PTL DEF EndpointInv
-----------------------------------------------------------------------------
(***************************************************************************)
(* Deadlines.  While the queue is split, messages that are due and others  *)
(* share it; the rest of the time there is nothing overdue in it.          *)
(***************************************************************************)

DueBy(s, now)     == \A i \in DOMAIN s : s[i].deliver_at <= now
NotBefore(s, now) == \A i \in DOMAIN s : s[i].deliver_at >= now

DeadlineInv ==
    /\ \A e \in Registered : DueBy(inbox[e], virtual_now)
    /\ DueBy(due, virtual_now)
    /\ NotBefore(survivors, virtual_now)
    /\ holder = NoThread \/ Landing => NotBefore(queue, virtual_now)

LEMMA AppendElements ==
    ASSUME NEW s \in Seq(Message), NEW m \in Message, NEW i \in DOMAIN Append(s, m)
    PROVE  Append(s, m)[i] = m \/ (i \in DOMAIN s /\ Append(s, m)[i] = s[i])
<1>1. /\ DOMAIN s = 1 .. Len(s) /\ Len(s) \in Nat
      /\ DOMAIN Append(s, m) = 1 .. Len(s) + 1
  BY AppendProperties, LenProperties
<1>2. i \in 1 .. Len(s) \/ i = Len(s) + 1
  BY <1>1
<1> QED
  BY <1>1, <1>2, AppendProperties

LEMMA TailElements ==
    ASSUME NEW s \in Seq(Message), s # <<>>
    PROVE  /\ Head(s) \in Message /\ Tail(s) \in Seq(Message)
           /\ 1 \in DOMAIN s /\ Head(s) = s[1]
           /\ \A i \in DOMAIN Tail(s) : i + 1 \in DOMAIN s /\ Tail(s)[i] = s[i + 1]
<1>1. /\ Tail(s) \in Seq(Message) /\ Len(Tail(s)) = Len(s) - 1 /\ Head(s) \in Message
      /\ \A i \in 1 .. Len(Tail(s)) : Tail(s)[i] = s[i + 1]
  BY HeadTailProperties
<1>2. Len(s) \in Nat \ {0} /\ DOMAIN s = 1 .. Len(s) /\ DOMAIN Tail(s) = 1 .. Len(s) - 1
  BY <1>1, LenProperties, EmptySeq
<1> QED
  BY <1>1, <1>2

\* transmit's insertion adds one message and leaves the others.
LEMMA InsertElements ==
    ASSUME NEW q \in Seq(Message), NEW m \in Message, NEW reorder \in BOOLEAN,
           NEW i \in DOMAIN Insert(q, m, reorder)
    PROVE  \/ Insert(q, m, reorder)[i] = m
           \/ \E j \in DOMAIN q : Insert(q, m, reorder)[i] = q[j]
<1>1. CASE ~(reorder /\ q # <<>>)
  <2>1. Insert(q, m, reorder) = Append(q, m)
    BY <1>1 DEF Insert
  <2> QED
    BY <2>1, AppendElements
<1>2. CASE reorder /\ q # <<>>
  <2> DEFINE n == Len(q)
             front == SubSeq(q, 1, n - 1)
             back  == <<m, q[n]>>
  <2>1. n \in Nat /\ n # 0 /\ DOMAIN q = 1 .. n /\ q[n] \in Message
    BY <1>2, LenProperties, EmptySeq, ElementOfSeq
  <2>2. /\ front \in Seq(Message) /\ Len(front) = n - 1
        /\ \A j \in 1 .. n - 1 : front[j] = q[j]
    BY <2>1
  <2>3. back \in Seq(Message) /\ Len(back) = 2 /\ back[1] = m /\ back[2] = q[n]
    BY <2>1
  <2>4. Insert(q, m, reorder) = front \o back
    BY <1>2 DEF Insert
  <2> HIDE DEF n, front, back
  <2>5. /\ DOMAIN (front \o back) = 1 .. n + 1
        /\ \A j \in 1 .. n + 1 : (front \o back)[j] = IF j <= n - 1 THEN front[j]
                                                      ELSE back[j - (n - 1)]
    <3>1. /\ front \o back \in Seq(Message) /\ Len(front \o back) = n - 1 + 2
          /\ \A j \in 1 .. n - 1 + 2 : (front \o back)[j] = IF j <= n - 1 THEN front[j]
                                                            ELSE back[j - (n - 1)]
      <4>1. /\ front \o back \in Seq(Message) /\ Len(front \o back) = Len(front) + Len(back)
            /\ \A j \in 1 .. Len(front) + Len(back) :
                  (front \o back)[j] = IF j <= Len(front) THEN front[j]
                                      ELSE back[j - Len(front)]
        BY <2>2, <2>3, ConcatProperties
      <4> QED
        BY <2>2, <2>3, <4>1
    <3>2. n - 1 + 2 = n + 1
      BY <2>1
    <3> QED
      BY <3>1, <3>2, LenProperties
  <2>6. i \in 1 .. n - 1 \/ i = n \/ i = n + 1
    BY <2>1, <2>4, <2>5
  <2> QED
    BY SMTT(30), <2>1, <2>2, <2>3, <2>4, <2>5, <2>6
<1> QED
  BY <1>1, <1>2

\* Steps that move no message and no clock.
LEMMA SameKeepsDeadlines ==
    ASSUME DeadlineInv, UNCHANGED <<inbox, mailboxes, due, survivors, queue, virtual_now>>,
           holder' = NoThread \/ Landing' => holder = NoThread \/ Landing
    PROVE  DeadlineInv'
  BY DEF DeadlineInv, DueBy, NotBefore, Registered

LEMMA NextDeadlineInv ==
    TypeInv /\ SafeInv /\ DeadlineInv /\ [Next]_vars => DeadlineInv'
<1> SUFFICES ASSUME TypeInv, SafeInv, DeadlineInv, [Next]_vars PROVE DeadlineInv'
  OBVIOUS
<1> USE DEF config, stats, delivery, endpoints, threads
<1>t. /\ pc \in [Threads -> {"idle", "second", "register", "flush", "step",
                             "drain", "land"}]
      /\ queue \in Seq(Message) /\ due \in Seq(Message) /\ survivors \in Seq(Message)
      /\ inbox \in [Registered -> Seq(Message)]
      /\ virtual_now \in Nat /\ latency \in Nat
  BY DurationAssumption DEF TypeInv, TypeOK, Duration
<1>l. LockInv /\ DeliverInv
  BY DEF SafeInv
<1>m. \A m \in Message : m.deliver_at \in Nat
  BY DurationAssumption DEF Message, Duration
\* A thread outside deliver_due that stays outside.
<1>1. ASSUME NEW t \in Threads,
             \/ PairFirst(t) \/ PairSecond(t) \/ FlushRead(t) \/ FlushReturn(t)
             \/ PanicInCall(t) \/ \E max_rounds \in RoundLimits : FlushCall(t, max_rounds)
      PROVE  DeadlineInv'
  <2>1. /\ UNCHANGED <<inbox, mailboxes, due, survivors, queue, virtual_now, holder>>
        /\ \E p \in {"idle", "second", "register", "flush", "step"} :
              pc' = [pc EXCEPT ![t] = p]
    BY <1>1 DEF PairFirst, PairSecond, FlushRead, FlushReturn, PanicInCall, FlushCall, Leave
  <2>2. Landing' => Landing
    BY <1>t, <2>1 DEF Landing
  <2> QED
    BY <2>1, <2>2, SameKeepsDeadlines
<1>2. ASSUME NEW t \in Threads, PairRegister(t) PROVE DeadlineInv'
  <2>1. /\ UNCHANGED <<due, survivors, queue, virtual_now, holder>>
        /\ pc' = [pc EXCEPT ![t] = "idle"]
        /\ \A e \in Registered' : inbox'[e] = <<>> \/ (e \in Registered /\ inbox'[e] = inbox[e])
    <3>1. Registered' = Registered \cup Range(ids[t])
      <4>1. mailboxes \in Seq(Nat) /\ ids[t] \in Seq(Nat) /\ mailboxes' = mailboxes \o ids[t]
        BY <1>2 DEF PairRegister, TypeInv, TypeOK
      <4> QED
        BY <4>1, RangeConcatenation DEF Registered
    <3> QED
      BY <1>2, <3>1 DEF PairRegister
  <2>2. Landing' => Landing
    BY <1>t, <2>1 DEF Landing
  <2>3. \A e \in Registered' : DueBy(inbox'[e], virtual_now')
    BY <2>1 DEF DeadlineInv, DueBy
  <2> QED
    BY <2>1, <2>2, <2>3 DEF DeadlineInv, DueBy, NotBefore
<1>3. ASSUME NEW t \in Threads, NEW by \in Duration, AdvanceOverflows(t, by)
      PROVE  DeadlineInv'
  <2>1. /\ UNCHANGED <<inbox, mailboxes, due, survivors, queue, virtual_now>>
        /\ holder = NoThread
    BY <1>3 DEF AdvanceOverflows, LockFree
  <2> QED
    BY <2>1, SameKeepsDeadlines
\* The clock moves: what was due stays due, and the queue is about to be split.
<1>4. ASSUME NEW t \in Threads, NEW by \in Duration, NEW back, LockAndAdvance(t, by, back)
      PROVE  DeadlineInv'
  <2>1. /\ UNCHANGED <<inbox, mailboxes, due, survivors, queue>>
        /\ virtual_now' = virtual_now + by /\ by \in Nat
        /\ holder = NoThread /\ holder' = t /\ pc' = [pc EXCEPT ![t] = "drain"]
    BY <1>4, DurationAssumption DEF LockAndAdvance, LockFree, Duration
  <2>2. due = <<>> /\ survivors = <<>>
    BY <1>l, <2>1 DEF DeliverInv
  <2>3. ~Landing' /\ holder' # NoThread
    BY <1>l, <1>t, <2>1, NoThreadAssumption DEF Landing, LockInv
  <2>4. ASSUME NEW e \in Registered, NEW i \in DOMAIN inbox[e]
        PROVE  inbox[e][i].deliver_at <= virtual_now'
    <3>1. inbox[e][i] \in Message
      BY <1>t, LenProperties, ElementOfSeq
    <3>2. inbox[e][i].deliver_at <= virtual_now
      BY DEF DeadlineInv, DueBy
    <3> QED
      BY <1>m, <1>t, <2>1, <3>1, <3>2
  <2>5. Registered' = Registered
    BY <2>1 DEF Registered
  <2> QED
    BY <2>1, <2>2, <2>3, <2>4, <2>5 DEF DeadlineInv, DueBy, NotBefore
<1>5. ASSUME NEW t \in Threads, Drain(t) PROVE DeadlineInv'
  <2>1. /\ UNCHANGED <<inbox, mailboxes, virtual_now, holder, pc>> /\ pc[t] = "drain"
        /\ queue # <<>>
    BY <1>5 DEF Drain
  <2>2. holder' # NoThread /\ ~Landing'
    BY <1>l, <1>t, <2>1, NoThreadAssumption DEF LockInv, Landing
  <2>3. Head(queue) \in Message
    BY <1>t, <2>1, TailElements
  <2>4. DueBy(due', virtual_now) /\ NotBefore(survivors', virtual_now)
    <3>1. CASE /\ Head(queue).deliver_at <= virtual_now
               /\ due' = Append(due, Head(queue)) /\ survivors' = survivors
      BY <1>t, <2>3, <3>1, AppendElements DEF DeadlineInv, DueBy, NotBefore
    <3>2. CASE /\ Head(queue).deliver_at > virtual_now
               /\ survivors' = Append(survivors, Head(queue)) /\ due' = due
      <4>1. Head(queue).deliver_at >= virtual_now
        BY <1>m, <1>t, <2>3, <3>2
      <4> QED
        BY <1>t, <2>3, <3>2, <4>1, AppendElements DEF DeadlineInv, DueBy, NotBefore
    <3>3. Head(queue).deliver_at <= virtual_now \/ Head(queue).deliver_at > virtual_now
      BY <1>m, <1>t, <2>3
    <3> QED
      BY <1>5, <3>1, <3>2, <3>3 DEF Drain
  <2>5. \A e \in Registered' : DueBy(inbox'[e], virtual_now')
    BY <2>1 DEF DeadlineInv, Registered
  <2> QED
    BY <2>1, <2>2, <2>4, <2>5 DEF DeadlineInv
<1>6. ASSUME NEW t \in Threads, Drained(t) PROVE DeadlineInv'
  <2>1. /\ UNCHANGED <<inbox, mailboxes, virtual_now, due>>
        /\ queue' = survivors /\ survivors' = <<>>
    BY <1>6 DEF Drained
  <2>2. \A e \in Registered' : DueBy(inbox'[e], virtual_now')
    BY <2>1 DEF DeadlineInv, Registered
  <2>3. DueBy(due', virtual_now') /\ NotBefore(queue', virtual_now')
    BY <2>1 DEF DeadlineInv
  <2>4. NotBefore(survivors', virtual_now')
    BY <2>1 DEF NotBefore
  <2> QED
    BY <2>2, <2>3, <2>4 DEF DeadlineInv
<1>7. ASSUME NEW t \in Threads, Push(t) PROVE DeadlineInv'
  <2>1. /\ UNCHANGED <<mailboxes, virtual_now, due, survivors, queue, holder, pc>>
        /\ due # <<>> /\ pc[t] = "land"
    BY <1>7 DEF Push
  <2>2. Registered' = Registered /\ Landing' = Landing
    BY <2>1 DEF Registered, Landing
  <2>3. Head(due) \in Message /\ Head(due).deliver_at <= virtual_now
    BY <1>t, <2>1, TailElements DEF DeadlineInv, DueBy
  <2>4. ASSUME NEW e \in Registered
        PROVE  inbox'[e] = inbox[e] \/ inbox'[e] = Append(inbox[e], Head(due))
    BY <1>7, <1>t DEF Push
  <2>5. \A e \in Registered' : DueBy(inbox'[e], virtual_now')
    <3> SUFFICES ASSUME NEW e \in Registered, NEW i \in DOMAIN inbox'[e]
                 PROVE  inbox'[e][i].deliver_at <= virtual_now
      BY <2>1, <2>2 DEF DueBy
    <3>1. inbox[e] \in Seq(Message) /\ DueBy(inbox[e], virtual_now)
      BY <1>t DEF DeadlineInv
    <3>2. CASE inbox'[e] = inbox[e]
      BY <3>1, <3>2 DEF DueBy
    <3>3. CASE inbox'[e] = Append(inbox[e], Head(due))
      BY <2>3, <3>1, <3>3, AppendElements DEF DueBy
    <3> QED
      BY <2>4, <3>2, <3>3
  <2> QED
    BY <2>1, <2>2, <2>5 DEF DeadlineInv
<1>8. ASSUME NEW t \in Threads, NextMessage(t) PROVE DeadlineInv'
  <2>1. /\ UNCHANGED <<inbox, mailboxes, virtual_now, survivors, queue, holder, pc>>
        /\ due # <<>> /\ due' = Tail(due)
    BY <1>8 DEF NextMessage
  <2>2. Registered' = Registered /\ Landing' = Landing
    BY <2>1 DEF Registered, Landing
  <2>3. DueBy(due', virtual_now')
    BY <1>t, <2>1, TailElements DEF DeadlineInv, DueBy
  <2> QED
    BY <2>1, <2>2, <2>3 DEF DeadlineInv
<1>9. ASSUME NEW t \in Threads, Unlock(t) PROVE DeadlineInv'
  <2>1. /\ UNCHANGED <<inbox, mailboxes, due, survivors, queue, virtual_now>>
        /\ pc[t] = "land"
    BY <1>9 DEF Unlock
  <2>2. Landing
    BY <2>1 DEF Landing
  <2> QED
    BY <2>1, <2>2, SameKeepsDeadlines
<1>10. ASSUME NEW e \in Registered, SendQueued(e) PROVE DeadlineInv'
  <2> DEFINE m == [n |-> sent + 1, from |-> e, deliver_at |-> virtual_now + latency]
  <2>1. m \in Message /\ m.deliver_at >= virtual_now
    BY <1>10, <1>t, SentIsMessage
  <2>2. PICK reorder \in BOOLEAN : queue' = Insert(queue, m, reorder)
    BY <1>10 DEF SendQueued, Draws
  <2>3. /\ UNCHANGED <<inbox, mailboxes, virtual_now, due, survivors>>
        /\ holder = NoThread
    BY <1>10 DEF SendQueued, Accepts, LockFree
  <2> HIDE DEF m
  <2>4. NotBefore(queue', virtual_now')
    BY <1>t, <2>1, <2>2, <2>3, InsertElements DEF DeadlineInv, NotBefore
  <2>5. \A u \in Registered' : DueBy(inbox'[u], virtual_now')
    BY <2>3 DEF DeadlineInv, Registered
  <2> QED
    BY <2>3, <2>4, <2>5 DEF DeadlineInv
<1>11. ASSUME NEW e \in Registered, TryRecv(e) PROVE DeadlineInv'
  <2>1. /\ UNCHANGED <<mailboxes, virtual_now, due, survivors, queue, holder, pc>>
        /\ inbox[e] # <<>> /\ inbox' = [inbox EXCEPT ![e] = Tail(@)]
    BY <1>11 DEF TryRecv
  <2>2. Registered' = Registered /\ Landing' = Landing
    BY <2>1 DEF Registered, Landing
  <2>3. \A u \in Registered' : DueBy(inbox'[u], virtual_now')
    BY <1>t, <2>1, <2>2, TailElements DEF DeadlineInv, DueBy
  <2> QED
    BY <2>1, <2>2, <2>3 DEF DeadlineInv
<1>12. ASSUME \/ \E e \in Registered : SendDropped(e) \/ SendOverflows(e)
              \/ \E l \in Latencies : SetLatency(l)
              \/ \E r \in Rates : SetDropRate(r) \/ SetReorderRate(r)
              \/ \E up \in BOOLEAN : SetConnected(up)
              \/ Stats
              \/ UNCHANGED vars
       PROVE  DeadlineInv'
  <2>1. UNCHANGED <<inbox, mailboxes, due, survivors, queue, virtual_now, holder, pc>>
    BY <1>12 DEF SendDropped, SendOverflows, SetLatency, SetDropRate, SetReorderRate,
                 SetConnected, Stats, vars
  <2>2. Landing' = Landing
    BY <2>1 DEF Landing
  <2> QED
    BY <2>1, <2>2, SameKeepsDeadlines
<1>13. ASSUME NEW t \in Threads, FlushStep(t) \/ \E by \in Steps : Advance(t, by)
       PROVE  DeadlineInv'
  <2>1. step[t] \in Duration /\ \A by \in Steps : by \in Duration
    BY DurationAssumption DEF TypeInv, TypeOK, Duration
  <2> QED
    BY <1>3, <1>4, <1>13, <2>1 DEF FlushStep, Advance
<1> QED
  BY <1>1, <1>2, <1>5, <1>6, <1>7, <1>8, <1>9, <1>10, <1>11, <1>12, <1>13
  DEF Next, PairCall, DeliverDue, Flush, Send, PanicAtCall

\* Nothing reaches an inbox before its deadline and nothing overdue stays
\* behind, however latency, clock and reordering change under way.
THEOREM DeadlinesHold == Spec => []Deadlines
<1>1. Init => DeadlineInv
  BY DEF Init, DeadlineInv, DueBy, NotBefore, Registered, Range
<1>2. DeadlineInv => Deadlines
  BY DEF DeadlineInv, Deadlines, DueBy, NotBefore
<1> QED
  BY <1>1, <1>2, InitTypeInv, NextTypeInv, InitSafeInv, NextSafeInv, NextDeadlineInv, PTL
  DEF Spec
-----------------------------------------------------------------------------
(***************************************************************************)
(* Overtaking.  All messages the link has accepted and not dropped stand   *)
(* in one line: landed, due, survivors, queue.  Nobody in it overtakes two *)
(* that were sent before it and are due no later.                          *)
(***************************************************************************)

Line == ((landed \o due) \o survivors) \o queue

\* a stands before b in spite of the clock and the order they were sent in.
Overtakes(a, b) == b.n < a.n /\ b.deliver_at <= a.deliver_at

NoTwo(s) == \A i, j, k \in DOMAIN s :
    i < j /\ i < k /\ Overtakes(s[i], s[j]) /\ Overtakes(s[i], s[k]) => j = k

Numbered(s, top) == \A i \in DOMAIN s : s[i].n <= top

OvertakeInv ==
    /\ NoTwo(Line)
    /\ Numbered(Line, sent)
    /\ \A i \in DOMAIN survivors : survivors[i].deliver_at > virtual_now

\* t is s in another order, and whoever newly stands behind another in t is
\* not overtaken by it.
LEMMA RearrangedNoTwo ==
    ASSUME NEW s, NEW t, NEW p \in [DOMAIN t -> DOMAIN s], NoTwo(s),
           DOMAIN t \subseteq Nat, DOMAIN s \subseteq Nat,
           \A i \in DOMAIN t : t[i] = s[p[i]],
           \A i, j \in DOMAIN t : p[i] = p[j] => i = j,
           \A i, j \in DOMAIN t : i < j => p[i] < p[j] \/ ~Overtakes(t[i], t[j])
    PROVE  NoTwo(t)
<1> SUFFICES ASSUME NEW i \in DOMAIN t, NEW j \in DOMAIN t, NEW k \in DOMAIN t,
                    i < j, i < k, Overtakes(t[i], t[j]), Overtakes(t[i], t[k])
             PROVE  j = k
  BY DEF NoTwo
<1>1. p[i] < p[j] /\ p[i] < p[k]
  OBVIOUS
<1>2. Overtakes(s[p[i]], s[p[j]]) /\ Overtakes(s[p[i]], s[p[k]])
  OBVIOUS
<1>3. p[j] = p[k]
  BY <1>1, <1>2 DEF NoTwo
<1> QED
  BY <1>3

\* Where the elements of a concatenation come from.
LEMMA Concatenated ==
    ASSUME NEW S, NEW a \in Seq(S), NEW b \in Seq(S)
    PROVE  /\ a \o b \in Seq(S)
           /\ DOMAIN (a \o b) = 1 .. Len(a) + Len(b)
           /\ Len(a) \in Nat /\ Len(b) \in Nat
           /\ Len(a \o b) = Len(a) + Len(b)
           /\ DOMAIN a = 1 .. Len(a) /\ DOMAIN b = 1 .. Len(b)
           /\ \A i \in 1 .. Len(a) : (a \o b)[i] = a[i]
           /\ \A i \in 1 .. Len(b) : (a \o b)[Len(a) + i] = b[i]
<1>1. /\ a \o b \in Seq(S) /\ Len(a \o b) = Len(a) + Len(b)
      /\ \A i \in 1 .. Len(a) + Len(b) : (a \o b)[i] = IF i <= Len(a) THEN a[i] ELSE b[i - Len(a)]
  BY ConcatProperties
<1>2. /\ Len(a) \in Nat /\ Len(b) \in Nat
      /\ DOMAIN a = 1 .. Len(a) /\ DOMAIN b = 1 .. Len(b)
      /\ DOMAIN (a \o b) = 1 .. Len(a \o b)
  BY <1>1, LenProperties
<1> DEFINE c == a \o b
           m == Len(a)
           n == Len(b)
<1>3. /\ m \in Nat /\ n \in Nat
      /\ \A i \in 1 .. m + n : c[i] = IF i <= m THEN a[i] ELSE b[i - m]
  BY <1>1, <1>2
<1> HIDE DEF c, m, n
<1>4. \A i \in 1 .. m : c[i] = a[i]
  BY <1>3
<1>5. ASSUME NEW i \in 1 .. n PROVE c[m + i] = b[i]
  <2>1. m + i \in 1 .. m + n /\ ~(m + i <= m) /\ (m + i) - m = i
    BY <1>3
  <2> QED
    BY <1>3, <2>1
<1> QED
  BY <1>1, <1>2, <1>4, <1>5 DEF c, m, n

\* A message sent last may be put in front of one other without breaking it.
LEMMA InsertNoTwo ==
    ASSUME NEW x \in Seq(Message), NEW y \in Seq(Message), NEW m \in Message,
           Len(y) <= 1, NoTwo(x \o y), \A i \in DOMAIN (x \o y) : (x \o y)[i].n < m.n
    PROVE  NoTwo(Append(x, m) \o y)
<1> DEFINE s == x \o y
           t == Append(x, m) \o y
           a == Len(x)
           b == Len(y)
<1>1. /\ a \in Nat /\ b \in Nat /\ DOMAIN s = 1 .. a + b
      /\ \A i \in 1 .. a : s[i] = x[i]
      /\ \A i \in 1 .. b : s[a + i] = y[i]
  BY Concatenated
<1>2. /\ Append(x, m) \in Seq(Message) /\ Len(Append(x, m)) = a + 1
      /\ \A i \in 1 .. a : Append(x, m)[i] = x[i]
      /\ Append(x, m)[a + 1] = m
  BY AppendProperties
<1>3. /\ DOMAIN t = 1 .. (a + 1) + b
      /\ \A i \in 1 .. a + 1 : t[i] = Append(x, m)[i]
      /\ \A i \in 1 .. b : t[(a + 1) + i] = y[i]
  BY <1>2, Concatenated
<1> DEFINE old(i) == IF i <= a THEN i ELSE i - 1
<1> SUFFICES ASSUME NEW i \in DOMAIN t, NEW j \in DOMAIN t, NEW k \in DOMAIN t,
                    i < j, i < k, Overtakes(t[i], t[j]), Overtakes(t[i], t[k])
             PROVE  j = k
  BY DEF NoTwo
<1> HIDE DEF s, t, a, b
<1>4. \A e \in DOMAIN t : e # a + 1 => old(e) \in DOMAIN s /\ t[e] = s[old(e)]
  <2> SUFFICES ASSUME NEW e \in DOMAIN t, e # a + 1
               PROVE  old(e) \in DOMAIN s /\ t[e] = s[old(e)]
    OBVIOUS
  <2>1. CASE e <= a
    <3>1. e \in 1 .. a /\ e \in 1 .. a + 1 /\ e \in 1 .. a + b /\ old(e) = e
      BY <1>1, <1>3, <2>1
    <3> QED
      BY <1>1, <1>2, <1>3, <3>1
  <2>2. CASE ~(e <= a)
    <3>1. PICK f \in 1 .. b : e = (a + 1) + f
      <4>1. a \in Nat /\ b \in Nat /\ e \in 1 .. (a + 1) + b /\ ~(e <= a) /\ e # a + 1
        BY <1>1, <1>3, <2>2
      <4>2. e - (a + 1) \in 1 .. b /\ e = (a + 1) + (e - (a + 1))
        BY <4>1
      <4> QED
        BY <4>2
    <3>2. old(e) = a + f /\ a + f \in 1 .. a + b
      BY <1>1, <2>2, <3>1
    <3>3. t[e] = y[f] /\ s[a + f] = y[f]
      BY <1>1, <1>3, <3>1
    <3> QED
      BY <1>1, <3>2, <3>3
  <2> QED
    BY <2>1, <2>2
<1>5. t[a + 1] = m
  <2>1. a + 1 \in 1 .. a + 1
    BY <1>1
  <2> QED
    BY <1>2, <1>3, <2>1
<1>6. \A e \in DOMAIN s : s[e].n < m.n
  BY DEF s
<1>n. \A e \in DOMAIN s : s[e] \in Message
  <2>1. s \in Seq(Message)
    BY Concatenated DEF s
  <2> QED
    BY <2>1, ElementOfSeq, LenProperties
<1>7. j # a + 1 /\ k # a + 1
  <2>1. ASSUME NEW e \in DOMAIN t, i < e, e = a + 1, Overtakes(t[i], t[e]) PROVE FALSE
    <3>1. i # a + 1
      BY <1>1, <1>3, <2>1
    <3>2. s[old(i)].n < m.n /\ m.n < s[old(i)].n
      BY <1>4, <1>5, <1>6, <2>1, <3>1 DEF Overtakes
    <3>3. s[old(i)].n \in Nat /\ m.n \in Nat
      BY <1>4, <1>n, <3>1 DEF Message
    <3> QED
      BY <3>2, <3>3
  <2> QED
    BY <2>1
<1>8. CASE i = a + 1
  <2>1. j \in (a + 2) .. (a + 1) + b /\ k \in (a + 2) .. (a + 1) + b
    BY <1>1, <1>3, <1>8
  <2>2. b <= 1
    BY DEF b
  <2> QED
    BY <1>1, <2>1, <2>2
<1>9. CASE i # a + 1
  <2>1. /\ old(i) \in DOMAIN s /\ old(j) \in DOMAIN s /\ old(k) \in DOMAIN s
        /\ t[i] = s[old(i)] /\ t[j] = s[old(j)] /\ t[k] = s[old(k)]
    BY <1>4, <1>7, <1>9
  <2>2. old(i) < old(j) /\ old(i) < old(k)
    BY <1>1, <1>3, <1>7, <1>9
  <2>3. NoTwo(s)
    BY DEF s
  <2>4. old(j) = old(k)
    BY <2>1, <2>2, <2>3 DEF NoTwo
  <2> QED
    BY <1>1, <1>3, <1>7, <2>4
<1> QED
  BY <1>8, <1>9

\* The line moves a due message past the survivors; nobody overtakes more.
LEMMA DrainNoTwo ==
    ASSUME NEW x \in Seq(Message), NEW s \in Seq(Message), NEW q \in Seq(Message),
           q # <<>>, \A i \in DOMAIN s : s[i].deliver_at > Head(q).deliver_at,
           NoTwo((x \o s) \o q), NEW top, Numbered((x \o s) \o q, top)
    PROVE  LET t == (Append(x, Head(q)) \o s) \o Tail(q)
           IN  NoTwo(t) /\ Numbered(t, top)
<1> DEFINE m == Head(q)
           y == Append(x, m)
           old == (x \o s) \o q
           new == (y \o s) \o Tail(q)
           a == Len(x)
           b == Len(s)
           c == Len(Tail(q))
<1>1. /\ m \in Message /\ Tail(q) \in Seq(Message) /\ c \in Nat /\ Len(q) = c + 1
      /\ m = q[1] /\ \A i \in 1 .. c : Tail(q)[i] = q[i + 1]
  <2>1. /\ Head(q) \in Message /\ Tail(q) \in Seq(Message) /\ Len(Tail(q)) = Len(q) - 1
        /\ \A i \in 1 .. Len(Tail(q)) : Tail(q)[i] = q[i + 1]
    BY HeadTailProperties
  <2>2. Len(q) \in Nat /\ Len(Tail(q)) \in Nat /\ Head(q) = q[1]
    BY <2>1, LenProperties
  <2> QED
    BY <2>1, <2>2
<1>2. /\ y \in Seq(Message) /\ Len(y) = a + 1
      /\ \A i \in 1 .. a : y[i] = x[i]
      /\ y[a + 1] = m
  BY <1>1, AppendProperties
<1>3. /\ a \in Nat /\ b \in Nat /\ DOMAIN s = 1 .. b
      /\ x \o s \in Seq(Message) /\ Len(x \o s) = a + b
      /\ \A i \in 1 .. a : (x \o s)[i] = x[i]
      /\ \A i \in 1 .. b : (x \o s)[a + i] = s[i]
  BY Concatenated
<1> HIDE DEF m, y, a, b, c
<1>4. /\ DOMAIN old = 1 .. (a + b) + (c + 1)
      /\ \A i \in 1 .. a + b : old[i] = (x \o s)[i]
      /\ \A i \in 1 .. c + 1 : old[(a + b) + i] = q[i]
  <2>1. x \o s \in Seq(Message)
    BY <1>3
  <2>2. /\ DOMAIN old = 1 .. Len(x \o s) + Len(q)
        /\ \A i \in 1 .. Len(x \o s) : old[i] = (x \o s)[i]
        /\ \A i \in 1 .. Len(q) : old[Len(x \o s) + i] = q[i]
    BY <2>1, Concatenated
  <2> HIDE DEF old
  <2> QED
    BY <1>1, <1>3, <2>2
<1>5. /\ y \o s \in Seq(Message) /\ Len(y \o s) = (a + 1) + b
      /\ \A i \in 1 .. a + 1 : (y \o s)[i] = y[i]
      /\ \A i \in 1 .. b : (y \o s)[(a + 1) + i] = s[i]
  <2>1. /\ y \o s \in Seq(Message) /\ Len(y \o s) = Len(y) + Len(s)
        /\ \A i \in 1 .. Len(y) : (y \o s)[i] = y[i]
        /\ \A i \in 1 .. Len(s) : (y \o s)[Len(y) + i] = s[i]
    <3>1. y \in Seq(Message)
      BY <1>2
    <3> QED
      BY <3>1, Concatenated
  <2> QED
    BY <1>2, <2>1 DEF b
<1>6. /\ DOMAIN new = 1 .. ((a + 1) + b) + c
      /\ \A i \in 1 .. (a + 1) + b : new[i] = (y \o s)[i]
      /\ \A i \in 1 .. c : new[((a + 1) + b) + i] = Tail(q)[i]
  <2>1. /\ DOMAIN new = 1 .. Len(y \o s) + Len(Tail(q))
        /\ \A i \in 1 .. Len(y \o s) : new[i] = (y \o s)[i]
        /\ \A i \in 1 .. Len(Tail(q)) : new[Len(y \o s) + i] = Tail(q)[i]
    <3> DEFINE u == y \o s
               v == Tail(q)
    <3>1. u \in Seq(Message) /\ v \in Seq(Message)
      BY <1>1, <1>5
    <3>2. new = u \o v
      OBVIOUS
    <3> HIDE DEF u, v, new
    <3>3. /\ DOMAIN (u \o v) = 1 .. Len(u) + Len(v)
          /\ \A i \in 1 .. Len(u) : (u \o v)[i] = u[i]
          /\ \A i \in 1 .. Len(v) : (u \o v)[Len(u) + i] = v[i]
      BY <3>1, Concatenated
    <3> QED
      BY <3>2, <3>3 DEF u, v
  <2> QED
    BY <1>5, <2>1 DEF c
<1> HIDE DEF old, new
<1> DEFINE n == ((a + 1) + b) + c
           from(i) == IF i <= a THEN i
                      ELSE IF i = a + 1 THEN (a + b) + 1
                      ELSE IF i <= (a + 1) + b THEN i - 1 ELSE i
           p == [i \in 1 .. n |-> from(i)]
<1>7. n \in Nat /\ DOMAIN new = 1 .. n /\ DOMAIN old = 1 .. n
  BY <1>1, <1>3, <1>4, <1>6
<1>8. ASSUME NEW i \in 1 .. n
      PROVE  from(i) \in 1 .. n /\ new[i] = old[from(i)]
  <2>0. /\ a \in Nat /\ b \in Nat /\ c \in Nat
    BY <1>1, <1>3
  <2>1. CASE i <= a
    <3>1. i \in 1 .. a /\ i \in 1 .. a + 1 /\ i \in 1 .. (a + 1) + b /\ i \in 1 .. a + b /\ from(i) = i
      BY <2>0, <2>1
    <3>2. new[i] = x[i]
      BY <1>2, <1>5, <1>6, <3>1
    <3>3. old[i] = x[i]
      BY <1>3, <1>4, <3>1
    <3> QED
      BY <3>1, <3>2, <3>3
  <2>2. CASE i = a + 1
    <3>1. /\ i \in 1 .. a + 1 /\ i \in 1 .. (a + 1) + b /\ from(i) = (a + b) + 1
          /\ 1 \in 1 .. c + 1 /\ (a + b) + 1 \in 1 .. n
      BY <2>0, <2>2
    <3>2. new[i] = m
      BY <1>2, <1>5, <1>6, <2>2, <3>1
    <3>3. old[(a + b) + 1] = m
      BY <1>1, <1>4, <3>1
    <3> QED
      BY <3>1, <3>2, <3>3
  <2>3. CASE ~(i <= a) /\ i # a + 1 /\ i <= (a + 1) + b
    <3> DEFINE k == i - (a + 1)
    <3>1. /\ k \in 1 .. b /\ i = (a + 1) + k /\ from(i) = a + k
          /\ a + k \in 1 .. a + b /\ a + k \in 1 .. n /\ i \in 1 .. (a + 1) + b
      BY <2>0, <2>3
    <3> HIDE DEF k, from
    <3>2. new[i] = s[k]
      BY <1>5, <1>6, <3>1
    <3>3. old[a + k] = s[k]
      BY <1>3, <1>4, <3>1
    <3> QED
      BY <3>1, <3>2, <3>3
  <2>4. CASE ~(i <= (a + 1) + b)
    <3> DEFINE k == i - ((a + 1) + b)
    <3>1. /\ k \in 1 .. c /\ i = ((a + 1) + b) + k /\ from(i) = i
          /\ k + 1 \in 1 .. c + 1 /\ i = (a + b) + (k + 1)
      BY <2>0, <2>4
    <3> HIDE DEF k, from
    <3>2. new[i] = q[k + 1]
      BY <1>1, <1>6, <3>1
    <3>3. old[(a + b) + (k + 1)] = q[k + 1]
      BY <1>4, <3>1
    <3> QED
      BY <3>1, <3>2, <3>3
  <2> QED
    BY <2>0, <2>1, <2>2, <2>3, <2>4
<1>9. ASSUME NEW i \in 1 .. n, NEW j \in 1 .. n
      PROVE  /\ from(i) = from(j) => i = j
             /\ i < j => from(i) < from(j) \/ (i = a + 1 /\ j \in a + 2 .. (a + 1) + b)
  BY <1>1, <1>3
<1>10. ASSUME NEW j \in a + 2 .. (a + 1) + b PROVE ~Overtakes(new[a + 1], new[j])
  <2> DEFINE k == j - (a + 1)
  <2>1. /\ k \in 1 .. b /\ j = (a + 1) + k /\ j \in 1 .. (a + 1) + b
        /\ a + 1 \in 1 .. a + 1 /\ a + 1 \in 1 .. (a + 1) + b
    BY <1>1, <1>3
  <2> HIDE DEF k
  <2>2. new[j] = s[k] /\ new[a + 1] = m
    BY <1>2, <1>5, <1>6, <2>1
  <2>3. s[k] \in Message /\ s[k].deliver_at > m.deliver_at
    BY <1>3, <2>1, ElementOfSeq DEF m, b
  <2>4. s[k].deliver_at \in Nat /\ m.deliver_at \in Nat
    BY <1>1, <2>3, DurationAssumption DEF Message, Duration
  <2> QED
    BY <2>2, <2>3, <2>4 DEF Overtakes
<1> HIDE DEF from, n
<1>11. /\ p \in [DOMAIN new -> DOMAIN old]
       /\ \A i \in DOMAIN new : p[i] = from(i) /\ new[i] = old[p[i]]
       /\ \A i, j \in DOMAIN new : p[i] = p[j] => i = j
       /\ \A i, j \in DOMAIN new : i < j => p[i] < p[j] \/ ~Overtakes(new[i], new[j])
  BY <1>7, <1>8, <1>9, <1>10
<1> HIDE DEF p
<1>12. DOMAIN new \subseteq Nat /\ DOMAIN old \subseteq Nat
  BY <1>7
<1>13. NoTwo(old) /\ Numbered(old, top)
  BY DEF old
<1>14. NoTwo(new)
  BY <1>11, <1>12, <1>13, RearrangedNoTwo
<1>15. Numbered(new, top)
  BY <1>11, <1>13 DEF Numbered
<1> QED
  BY <1>14, <1>15 DEF new, y, m

\* A message that transmit queues stands in front of at most the last one.
LEMMA SentNoTwo ==
    ASSUME NEW l \in Seq(Message), NEW q \in Seq(Message), NEW m \in Message,
           NEW reorder \in BOOLEAN, NEW top \in Nat,
           NoTwo(l \o q), Numbered(l \o q, top), m.n = top + 1
    PROVE  NoTwo(l \o Insert(q, m, reorder)) /\ Numbered(l \o Insert(q, m, reorder), top + 1)
<1> DEFINE t == l \o Insert(q, m, reorder)
<1>1. \E x, y \in Seq(Message) :
          /\ Len(y) <= 1 /\ l \o q = x \o y /\ t = Append(x, m) \o y
  <2>1. CASE ~(reorder /\ q # <<>>)
    <3>1. l \o q \in Seq(Message) /\ l \o Append(q, m) = Append(l \o q, m)
      BY ConcatAppend, ConcatProperties
    <3>2. Append(l \o q, m) \in Seq(Message)
      BY <3>1, AppendProperties
    <3>3. l \o q = (l \o q) \o <<>> /\ Append(l \o q, m) = Append(l \o q, m) \o <<>>
      BY <3>1, <3>2, ConcatEmptySeq
    <3>4. <<>> \in Seq(Message) /\ Len(<<>>) <= 1
      BY EmptySeq
    <3>5. t = Append(l \o q, m)
      BY <2>1, <3>1 DEF Insert
    <3> QED
      BY <3>1, <3>3, <3>4, <3>5
  <2>2. CASE reorder /\ q # <<>>
    <3> DEFINE n == Len(q)
               front == SubSeq(q, 1, n - 1)
               z == q[n]
    <3>1. n \in Nat /\ n # 0 /\ DOMAIN q = 1 .. n /\ z \in Message
      BY <2>2, LenProperties, EmptySeq, ElementOfSeq
    <3>2. /\ front \in Seq(Message) /\ Len(front) = n - 1
          /\ \A j \in 1 .. n - 1 : front[j] = q[j]
      BY <3>1, SubSeqProperties
    <3>3. <<m>> \in Seq(Message) /\ <<z>> \in Seq(Message) /\ Len(<<z>>) = 1 /\ <<z>>[1] = z
      BY <3>1
    <3>4. Insert(q, m, reorder) = front \o <<m, z>>
      BY <2>2 DEF Insert
    <3>5. <<m, z>> = <<m>> \o <<z>>
      BY <3>1
    <3> HIDE DEF n, front, z
    <3>6. q = front \o <<z>>
      <4>1. /\ front \o <<z>> \in Seq(Message) /\ Len(front \o <<z>>) = (n - 1) + 1
            /\ \A i \in 1 .. n - 1 : (front \o <<z>>)[i] = front[i]
            /\ \A i \in 1 .. 1 : (front \o <<z>>)[(n - 1) + i] = <<z>>[i]
        BY <3>2, <3>3, Concatenated
      <4>2. Len(q) = n /\ q[n] = z /\ q \in Seq(Message) /\ (n - 1) + 1 = n
        BY <3>1 DEF n, z
      <4>3. ASSUME NEW i \in 1 .. n PROVE (front \o <<z>>)[i] = q[i]
        <5>1. CASE i = n
          BY <3>1, <3>3, <4>1, <4>2, <5>1
        <5>2. CASE i # n
          <6>1. i \in 1 .. n - 1
            BY <3>1, <5>2
          <6> QED
            BY <3>2, <4>1, <6>1
        <5> QED
          BY <5>1, <5>2
      <4> QED
        BY <4>1, <4>2, <4>3, SeqEqual
    <3>7. l \o front \in Seq(Message) /\ (l \o front) \o <<m>> = l \o (front \o <<m>>)
      BY SMTT(30), <3>2, <3>3, ConcatProperties, ConcatAssociative
    <3>8. l \o q = (l \o front) \o <<z>>
      BY <3>2, <3>3, <3>6, ConcatAssociative
    <3>9. t = ((l \o front) \o <<m>>) \o <<z>>
      <4>1. front \o (<<m>> \o <<z>>) = (front \o <<m>>) \o <<z>>
        BY SMTT(30), <3>2, <3>3, ConcatAssociative
      <4>2. front \o <<m>> \in Seq(Message)
        BY <3>2, <3>3, ConcatProperties
      <4>3. l \o ((front \o <<m>>) \o <<z>>) = (l \o (front \o <<m>>)) \o <<z>>
        BY <3>3, <4>2, ConcatAssociative
      <4> QED
        BY <3>4, <3>5, <3>7, <4>1, <4>3
    <3>10. (l \o front) \o <<m>> = Append(l \o front, m)
      BY <3>7, AppendIsConcat
    <3>11. Len(<<z>>) <= 1
      BY <3>3
    <3> QED
      BY <3>3, <3>7, <3>8, <3>9, <3>10, <3>11
  <2> QED
    BY <2>1, <2>2
<1> HIDE DEF t
<1>2. PICK x \in Seq(Message), y \in Seq(Message) :
          Len(y) <= 1 /\ l \o q = x \o y /\ t = Append(x, m) \o y
  BY <1>1
<1>3. \A i \in DOMAIN (x \o y) : (x \o y)[i] \in Message /\ (x \o y)[i].n <= top
  <2>1. x \o y \in Seq(Message)
    BY ConcatProperties
  <2> QED
    BY <1>2, <2>1, ElementOfSeq, LenProperties DEF Numbered
<1>4. ASSUME NEW i \in DOMAIN (x \o y) PROVE (x \o y)[i].n < m.n
  <2> DEFINE k == (x \o y)[i].n
  <2>1. k \in Nat /\ k <= top
    BY <1>3 DEF Message
  <2> HIDE DEF k
  <2>2. k < top + 1
    BY <2>1
  <2> QED
    BY <2>2 DEF k
<1>5. NoTwo(t)
  BY <1>2, <1>4, InsertNoTwo
<1>6. Numbered(t, top + 1)
  <2>1. /\ Append(x, m) \in Seq(Message) /\ Len(Append(x, m)) = Len(x) + 1
        /\ \A i \in 1 .. Len(x) : Append(x, m)[i] = x[i]
        /\ Append(x, m)[Len(x) + 1] = m
    BY AppendProperties
  <2>2. /\ DOMAIN t = 1 .. (Len(x) + 1) + Len(y)
        /\ \A i \in 1 .. Len(x) + 1 : t[i] = Append(x, m)[i]
        /\ \A i \in 1 .. Len(y) : t[(Len(x) + 1) + i] = y[i]
    <3>1. Append(x, m) \in Seq(Message)
      BY <2>1
    <3>2. /\ DOMAIN t = 1 .. Len(Append(x, m)) + Len(y)
          /\ \A i \in 1 .. Len(Append(x, m)) : t[i] = Append(x, m)[i]
          /\ \A i \in 1 .. Len(y) : t[Len(Append(x, m)) + i] = y[i]
      BY SMTT(30), <1>2, <3>1, Concatenated
    <3> QED
      BY SMTT(30), <2>1, <3>2
  <2>3. /\ Len(x) \in Nat /\ Len(y) \in Nat /\ DOMAIN (x \o y) = 1 .. Len(x) + Len(y)
        /\ \A i \in 1 .. Len(x) : (x \o y)[i] = x[i]
        /\ \A i \in 1 .. Len(y) : (x \o y)[Len(x) + i] = y[i]
    BY Concatenated
  <2> SUFFICES ASSUME NEW i \in DOMAIN t PROVE t[i].n <= top + 1
    BY DEF Numbered
  <2> DEFINE a == Len(x)
             b == Len(y)
  <2>4. a \in Nat /\ b \in Nat /\ i \in 1 .. (a + 1) + b
    BY <2>2, <2>3
  <2>5. i \in 1 .. a \/ i = a + 1 \/ \E k \in 1 .. b : i = (a + 1) + k
    <3> HIDE DEF a, b
    <3>1. CASE i > a + 1
      <4>1. i - (a + 1) \in 1 .. b /\ i = (a + 1) + (i - (a + 1))
        BY <2>4, <3>1
      <4> QED
        BY <4>1
    <3> QED
      BY <2>4, <3>1
  <2>6. CASE i \in 1 .. a
    <3>1. i \in 1 .. a + 1 /\ i \in 1 .. a + b
      BY <2>4, <2>6
    <3>2. t[i] = (x \o y)[i]
      BY <2>1, <2>2, <2>3, <2>6, <3>1
    <3>3. t[i].n \in Nat /\ t[i].n <= top
      BY <1>3, <2>3, <3>1, <3>2 DEF Message
    <3> QED
      BY <3>3
  <2>7. CASE i = a + 1
    <3>1. i \in 1 .. a + 1
      BY <2>4, <2>7
    <3>2. t[i] = m
      BY <2>1, <2>2, <2>7, <3>1
    <3> QED
      BY <3>2
  <2>8. CASE \E k \in 1 .. b : i = (a + 1) + k
    <3>1. PICK k \in 1 .. b : i = (a + 1) + k
      BY <2>8
    <3>2. a + k \in 1 .. a + b
      BY <2>4
    <3>3. t[i] = (x \o y)[a + k]
      BY <2>2, <2>3, <3>1
    <3>4. t[i].n \in Nat /\ t[i].n <= top
      BY <1>3, <2>3, <3>2, <3>3 DEF Message
    <3> QED
      BY <3>4
  <2> QED
    BY <2>5, <2>6, <2>7, <2>8
<1> QED
  BY <1>5, <1>6 DEF t

\* Steps that leave the line, and who was last to join it, as they are.
LEMMA SameKeepsOvertakes ==
    ASSUME OvertakeInv, UNCHANGED <<landed, due, survivors, queue, virtual_now>>,
           TypeInv, sent' = sent \/ sent' = sent + 1
    PROVE  OvertakeInv'
<1>1. Line' = Line
  BY DEF Line
<1>2. Line \in Seq(Message)
  BY ConcatProperties DEF Line, TypeInv, TypeOK
<1>3. ASSUME NEW i \in DOMAIN Line PROVE Line[i].n <= sent'
  <2>1. Line[i].n \in Nat /\ Line[i].n <= sent /\ sent \in Nat
    <3>1. Line[i] \in Message
      BY <1>2, ElementOfSeq, LenProperties
    <3> QED
      BY <3>1 DEF OvertakeInv, Numbered, Message, TypeInv, TypeOK
  <2> DEFINE k == Line[i].n
  <2> HIDE DEF k
  <2>2. k \in Nat /\ k <= sent /\ sent \in Nat
    BY <2>1 DEF k
  <2>3. k <= sent'
    BY <2>2
  <2> QED
    BY <2>3 DEF k
<1> QED
  BY <1>1, <1>3 DEF OvertakeInv, Numbered

LEMMA InitOvertakeInv == Init => OvertakeInv
<1> SUFFICES ASSUME Init PROVE OvertakeInv
  OBVIOUS
<1>1. landed = <<>> /\ due = <<>> /\ survivors = <<>> /\ queue = <<>>
  BY DEF Init
<1>2. <<>> \in Seq(Message)
  BY EmptySeq
<1>3. <<>> \o <<>> = <<>>
  BY <1>2, ConcatEmptySeq
<1>4. Line = <<>> /\ DOMAIN <<>> = {}
  BY <1>1, <1>3 DEF Line
<1> QED
  BY <1>1, <1>4 DEF OvertakeInv, NoTwo, Numbered

LEMMA NextOvertakeInv ==
    TypeInv /\ SafeInv /\ OvertakeInv /\ [Next]_vars => OvertakeInv'
<1> SUFFICES ASSUME TypeInv, SafeInv, OvertakeInv, [Next]_vars PROVE OvertakeInv'
  OBVIOUS
<1> USE DEF config, stats, delivery, endpoints, threads
<1>t. /\ landed \in Seq(Message) /\ due \in Seq(Message)
      /\ survivors \in Seq(Message) /\ queue \in Seq(Message)
      /\ sent \in Nat /\ virtual_now \in Nat
  BY DurationAssumption DEF TypeInv, TypeOK, Duration
<1>e. /\ landed \o due \in Seq(Message) /\ (landed \o due) \o survivors \in Seq(Message)
      /\ <<>> \in Seq(Message)
  BY <1>t, ConcatProperties, EmptySeq
<1>l. holder = NoThread => due = <<>> /\ survivors = <<>>
  BY DEF SafeInv, DeliverInv
<1>o. NoTwo(Line) /\ Numbered(Line, sent) /\ \A i \in DOMAIN survivors : survivors[i].deliver_at > virtual_now
  BY DEF OvertakeInv
<1>1. ASSUME NEW t \in Threads,
             \/ PairCall(t) \/ FlushRead(t) \/ FlushReturn(t) \/ PanicInCall(t)
             \/ Push(t) \/ Unlock(t)
             \/ \E max_rounds \in RoundLimits : FlushCall(t, max_rounds)
      PROVE  OvertakeInv'
  <2>1. UNCHANGED <<landed, due, survivors, queue, virtual_now, sent>>
    BY <1>1 DEF PairCall, PairFirst, PairSecond, PairRegister, FlushRead,
                FlushReturn, PanicInCall, FlushCall, Push, Unlock
  <2> QED
    BY <2>1, SameKeepsOvertakes
<1>2. ASSUME NEW t \in Threads, NEW by, AdvanceOverflows(t, by) PROVE OvertakeInv'
  <2>1. UNCHANGED <<landed, due, survivors, queue, virtual_now, sent>>
    BY <1>2 DEF AdvanceOverflows
  <2> QED
    BY <2>1, SameKeepsOvertakes
<1>3. ASSUME NEW t \in Threads, NEW by, NEW back, LockAndAdvance(t, by, back)
      PROVE  OvertakeInv'
  <2>1. UNCHANGED <<landed, due, survivors, queue, sent>> /\ holder = NoThread
    BY <1>3 DEF LockAndAdvance, LockFree
  <2>2. survivors' = <<>> /\ Line' = Line
    BY <1>l, <2>1 DEF Line
  <2> QED
    BY <1>o, <2>1, <2>2 DEF OvertakeInv
<1>4. ASSUME NEW t \in Threads, Drain(t) PROVE OvertakeInv'
  <2>1. /\ queue # <<>> /\ queue' = Tail(queue)
        /\ UNCHANGED <<landed, virtual_now, sent>>
    BY <1>4 DEF Drain
  <2>2. Head(queue) \in Message /\ Tail(queue) \in Seq(Message)
    BY <1>t, <2>1, TailElements
  <2>m. \A m \in Message : m.deliver_at \in Nat
    BY DurationAssumption DEF Message, Duration
  <2>3. CASE /\ Head(queue).deliver_at <= virtual_now
             /\ due' = Append(due, Head(queue)) /\ survivors' = survivors
    <3>1. Line' = (Append(landed \o due, Head(queue)) \o survivors) \o Tail(queue)
      <4>1. landed \o Append(due, Head(queue)) = Append(landed \o due, Head(queue))
        BY <1>t, <2>2, ConcatAppend
      <4> QED
        BY <2>1, <2>3, <4>1 DEF Line
    <3>2. ASSUME NEW i \in DOMAIN survivors
          PROVE  survivors[i].deliver_at > Head(queue).deliver_at
      <4>1. survivors[i] \in Message
        BY <1>t, ElementOfSeq, LenProperties
      <4>2. /\ survivors[i].deliver_at \in Nat /\ Head(queue).deliver_at \in Nat
            /\ survivors[i].deliver_at > virtual_now
        BY <1>o, <2>2, <2>m, <4>1
      <4> QED
        BY <1>t, <2>3, <4>2
    <3>3. NoTwo(((landed \o due) \o survivors) \o queue)
            /\ Numbered(((landed \o due) \o survivors) \o queue, sent)
      BY <1>o DEF Line
    <3>4. LET new == (Append(landed \o due, Head(queue)) \o survivors) \o Tail(queue)
          IN  NoTwo(new) /\ Numbered(new, sent)
      BY <1>t, <1>e, <2>1, <3>2, <3>3, DrainNoTwo
    <3> QED
      BY <1>o, <2>1, <2>3, <3>1, <3>4 DEF OvertakeInv
  <2>4. CASE /\ Head(queue).deliver_at > virtual_now
             /\ survivors' = Append(survivors, Head(queue)) /\ due' = due
    <3>1. (landed \o due) \o Append(survivors, Head(queue))
              = Append((landed \o due) \o survivors, Head(queue))
      BY <1>t, <1>e, <2>2, ConcatAppend
    <3>2. Append((landed \o due) \o survivors, Head(queue)) \o Tail(queue)
              = ((landed \o due) \o survivors) \o queue
      <4> DEFINE x == (landed \o due) \o survivors
      <4>1. x \in Seq(Message)
        BY <1>e
      <4> HIDE DEF x
      <4>2. Append(x, Head(queue)) \o Tail(queue) = x \o queue
        BY <1>t, <2>1, <4>1, HandOn
      <4> QED
        BY <4>2 DEF x
    <3>3. Line' = Line
      BY <2>1, <2>4, <3>1, <3>2 DEF Line
    <3>4. \A i \in DOMAIN survivors' : survivors'[i].deliver_at > virtual_now
      BY <1>t, <1>o, <2>2, <2>4, AppendElements
    <3> QED
      BY <1>o, <2>1, <3>3, <3>4 DEF OvertakeInv
  <2>5. Head(queue).deliver_at <= virtual_now \/ Head(queue).deliver_at > virtual_now
    BY <1>t, <2>2, <2>m
  <2> QED
    BY <1>4, <2>3, <2>4, <2>5 DEF Drain
<1>5. ASSUME NEW t \in Threads, Drained(t) PROVE OvertakeInv'
  <2>1. /\ queue = <<>> /\ queue' = survivors /\ survivors' = <<>>
        /\ UNCHANGED <<landed, due, virtual_now, sent>>
    BY <1>5 DEF Drained
  <2>2. /\ ((landed \o due) \o survivors) \o <<>> = (landed \o due) \o survivors
        /\ (landed \o due) \o <<>> = landed \o due
    BY <1>t, <1>e, ConcatEmptySeq
  <2>3. Line' = Line
    BY <2>1, <2>2 DEF Line
  <2> QED
    BY <1>o, <2>1, <2>3 DEF OvertakeInv
<1>6. ASSUME NEW t \in Threads, NextMessage(t) PROVE OvertakeInv'
  <2>1. /\ due # <<>> /\ due' = Tail(due) /\ landed' = Append(landed, Head(due))
        /\ UNCHANGED <<survivors, queue, virtual_now, sent>>
    BY <1>6 DEF NextMessage
  <2>2. Append(landed, Head(due)) \o Tail(due) = landed \o due
    BY <1>t, <2>1, HandOn
  <2>3. Line' = Line
    BY <2>1, <2>2 DEF Line
  <2> QED
    BY <1>o, <2>1, <2>3 DEF OvertakeInv
<1>7. ASSUME NEW e \in Registered, SendQueued(e) PROVE OvertakeInv'
  <2> DEFINE m == [n |-> sent + 1, from |-> e, deliver_at |-> virtual_now + latency]
  <2>1. m \in Message /\ m.n = sent + 1
    BY <1>7, SentIsMessage
  <2>2. PICK reorder \in BOOLEAN : queue' = Insert(queue, m, reorder)
    BY <1>7 DEF SendQueued, Draws
  <2>3. /\ UNCHANGED <<landed, due, survivors, virtual_now>>
        /\ sent' = sent + 1 /\ due = <<>> /\ survivors = <<>>
    BY <1>7, <1>l DEF SendQueued, Accepts, LockFree
  <2> HIDE DEF m
  <2>4. (landed \o <<>>) \o <<>> = landed
    BY <1>t, ConcatEmptySeq
  <2>5. Line = landed \o queue /\ Line' = landed \o queue'
    BY <2>3, <2>4 DEF Line
  <2>6. NoTwo(landed \o Insert(queue, m, reorder))
          /\ Numbered(landed \o Insert(queue, m, reorder), sent + 1)
    BY <1>t, <1>o, <2>1, <2>5, SentNoTwo
  <2> QED
    BY <2>2, <2>3, <2>5, <2>6 DEF OvertakeInv
<1>8. ASSUME \/ \E e \in Registered : SendDropped(e) \/ SendOverflows(e) \/ TryRecv(e)
             \/ \E l \in Latencies : SetLatency(l)
             \/ \E r \in Rates : SetDropRate(r) \/ SetReorderRate(r)
             \/ \E up \in BOOLEAN : SetConnected(up)
             \/ Stats
             \/ UNCHANGED vars
      PROVE  OvertakeInv'
  <2>1. /\ UNCHANGED <<landed, due, survivors, queue, virtual_now>>
        /\ sent' = sent \/ sent' = sent + 1
    BY <1>8 DEF SendDropped, SendOverflows, TryRecv, SetLatency, SetDropRate,
                SetReorderRate, SetConnected, Stats, vars
  <2> QED
    BY <2>1, SameKeepsOvertakes
<1> QED
  BY <1>1, <1>2, <1>3, <1>4, <1>5, <1>6, <1>7, <1>8
  DEF Next, DeliverDue, Flush, FlushStep, Advance, Send, PanicAtCall

LEMMA OvertakeInvAlways == Spec => []OvertakeInv
  BY InitTypeInv, NextTypeInv, InitSafeInv, NextSafeInv, InitOvertakeInv, NextOvertakeInv,
     PTL DEF Spec

\* A set of which any two members are the same has at most one.
LEMMA AtMostOne ==
    ASSUME NEW S, IsFiniteSet(S), \A x, y \in S : x = y
    PROVE  Cardinality(S) <= 1
<1>1. CASE S = {}
  BY <1>1, FS_EmptySet
<1>2. CASE S # {}
  <2>1. PICK x \in S : TRUE
    BY <1>2
  <2>2. S = {x}
    BY <2>1
  <2> QED
    BY <2>2, FS_Singleton
<1> QED
  BY <1>1, <1>2

\* Whatever is sent, reordered, delayed and advanced in between, no message
\* overtakes two that were sent before it and are due no later.
THEOREM OvertakingIsBounded == Spec => []AtMostOneOvertake
<1>1. TypeInv /\ SafeInv /\ OvertakeInv => AtMostOneOvertake
  <2> SUFFICES ASSUME TypeInv, SafeInv, OvertakeInv, holder = NoThread
               PROVE  LET order == landed \o queue IN
                      \A i \in DOMAIN order :
                          Cardinality({j \in DOMAIN order :
                                          /\ j > i
                                          /\ order[j].n < order[i].n
                                          /\ order[j].deliver_at <= order[i].deliver_at}) <= 1
    BY DEF AtMostOneOvertake
  <2> DEFINE order == landed \o queue
  <2>1. landed \in Seq(Message) /\ queue \in Seq(Message) /\ due = <<>> /\ survivors = <<>>
    BY DEF TypeInv, TypeOK, SafeInv, DeliverInv
  <2>2. order \in Seq(Message) /\ (landed \o <<>>) \o <<>> = landed
    BY <2>1, ConcatProperties, ConcatEmptySeq
  <2>3. NoTwo(order)
    BY <2>1, <2>2 DEF OvertakeInv, Line
  <2>4. DOMAIN order = 1 .. Len(order) /\ Len(order) \in Nat
    BY <2>2, LenProperties
  <2> SUFFICES ASSUME NEW i \in DOMAIN order
               PROVE  Cardinality({j \in DOMAIN order :
                                     /\ j > i
                                     /\ order[j].n < order[i].n
                                     /\ order[j].deliver_at <= order[i].deliver_at}) <= 1
    OBVIOUS
  <2> HIDE DEF order
  <2> DEFINE T == {j \in DOMAIN order : /\ j > i
                                        /\ order[j].n < order[i].n
                                        /\ order[j].deliver_at <= order[i].deliver_at}
  <2>5. ASSUME NEW j \in T, NEW k \in T PROVE j = k
    <3>1. /\ j \in DOMAIN order /\ k \in DOMAIN order /\ i < j /\ i < k
          /\ Overtakes(order[i], order[j]) /\ Overtakes(order[i], order[k])
      BY <2>4 DEF Overtakes
    <3> QED
      BY <2>3, <3>1 DEF NoTwo
  <2>6. IsFiniteSet(T)
    <3>1. IsFiniteSet(1 .. Len(order))
      BY <2>4, FS_Interval
    <3>2. T \subseteq 1 .. Len(order)
      BY <2>4
    <3> QED
      BY <3>1, <3>2, FS_Subset
  <2>7. Cardinality(T) <= 1
    <3> HIDE DEF T
    <3> QED
      BY <2>5, <2>6, AtMostOne
  <2> QED
    BY <2>7
<1> QED
  BY <1>1, OvertakeInvAlways, InitTypeInv, NextTypeInv, InitSafeInv, NextSafeInv, PTL DEF Spec
-----------------------------------------------------------------------------
(***************************************************************************)
(* One order for all.  An endpoint was given what landed since it joined   *)
(* without its own messages and, while a message is being pushed, that     *)
(* message too if its slot has been passed.                                *)
(***************************************************************************)

Heard(e) == NotFrom(SubSeq(landed, joined[e] + 1, Len(landed)), e)

Pending(i) ==
    IF Landing /\ due # <<>> /\ i < slot /\ Head(due).from # mailboxes[i]
    THEN <<Head(due)>> ELSE <<>>

Given(i) ==
    /\ joined[mailboxes[i]] <= Len(landed)
    /\ received[mailboxes[i]] \o inbox[mailboxes[i]] = Heard(mailboxes[i]) \o Pending(i)

OrderInv ==
    /\ ~Landing \/ due = <<>> => slot = 1
    /\ \A i \in DOMAIN mailboxes : Given(i)

\* The runs of NotFrom's recursion.
SkipsFrom(F, s, e) ==
    /\ F \in [0 .. Len(s) -> Seq(Message)]
    /\ \A i \in 0 .. Len(s) :
          F[i] = IF i = 0 THEN <<>>
                 ELSE IF s[i].from = e THEN F[i - 1] ELSE Append(F[i - 1], s[i])

LEMMA NotFromRun ==
    ASSUME NEW s \in Seq(Message), NEW e
    PROVE  \E F : SkipsFrom(F, s, e) /\ NotFrom(s, e) = F[Len(s)]
<1> DEFINE n == Len(s)
           body(F) == [i \in 0 .. n |->
                         IF i = 0 THEN <<>>
                         ELSE IF s[i].from = e THEN F[i - 1] ELSE Append(F[i - 1], s[i])]
           it == CHOOSE F : F = body(F)
           turn == [p \in (1 .. n) \X Seq(Message) |->
                      IF s[p[1]].from = e THEN p[2] ELSE Append(p[2], s[p[1]])]
<1>1. n \in Nat /\ \A i \in 1 .. n : s[i] \in Message
  BY LenProperties, ElementOfSeq
<1>2. /\ turn \in [(1 .. n) \X Seq(Message) -> Seq(Message)]
      /\ \A i \in 1 .. n, r \in Seq(Message) :
            turn[<<i, r>>] = IF s[i].from = e THEN r ELSE Append(r, s[i])
  BY <1>1, AppendProperties
<1>3. <<>> \in Seq(Message)
  BY EmptySeq
<1>4. NotFrom(s, e) = it[n]
  BY DEF NotFrom
<1> HIDE DEF n, turn
<1>5. PICK G \in [0 .. n -> Seq(Message)] : IsIteration(G, n, <<>>, turn)
  BY <1>1, <1>2, <1>3, IterationExists
<1>6. ASSUME NEW i \in 0 .. n
      PROVE  G[i] = IF i = 0 THEN <<>>
                    ELSE IF s[i].from = e THEN G[i - 1] ELSE Append(G[i - 1], s[i])
  <2>1. CASE i = 0
    BY <1>5, <2>1 DEF IsIteration
  <2>2. CASE i # 0
    <3>1. i \in 1 .. n /\ i - 1 \in 0 .. n
      BY <1>1, <2>2
    <3>2. G[i - 1] \in Seq(Message)
      BY <3>1
    <3>3. G[i] = turn[<<i, G[i - 1]>>]
      BY <1>5, <2>2 DEF IsIteration
    <3> QED
      BY <1>2, <2>2, <3>1, <3>2, <3>3
  <2> QED
    BY <2>1, <2>2
<1>7. G = body(G)
  BY <1>6
<1>8. it = body(it)
  BY <1>7
<1> HIDE DEF it
<1>r. \A i \in 0 .. n : it[i] = IF i = 0 THEN <<>>
                 ELSE IF s[i].from = e THEN it[i - 1] ELSE Append(it[i - 1], s[i])
  BY <1>8
<1> DEFINE T == {i \in Nat : i <= n => it[i] = G[i]}
<1>9. 0 \in T
  <2>1. 0 \in 0 .. n
    BY <1>1
  <2>2. it[0] = <<>> /\ G[0] = <<>>
    BY <1>6, <1>r, <2>1
  <2> QED
    BY <2>2
<1>10. ASSUME NEW k \in Nat, k \in T PROVE k + 1 \in T
  <2> SUFFICES ASSUME k + 1 <= n PROVE it[k + 1] = G[k + 1]
    OBVIOUS
  <2>1. k + 1 \in 0 .. n /\ k + 1 # 0 /\ (k + 1) - 1 = k /\ it[k] = G[k]
    BY <1>1, <1>10
  <2> QED
    BY <1>6, <1>r, <2>1
<1>11. Nat \subseteq T
  <2> HIDE DEF T
  <2> QED
    BY <1>9, <1>10, NatSetInduction
<1>12. it[n] = G[n]
  BY <1>1, <1>11
<1>13. SkipsFrom(G, s, e)
  BY <1>6 DEF SkipsFrom, n
<1> QED
  BY <1>4, <1>12, <1>13 DEF n

\* One more message is heard by everybody but its sender.
LEMMA NotFromAppend ==
    ASSUME NEW s \in Seq(Message), NEW m \in Message, NEW e
    PROVE  /\ NotFrom(s, e) \in Seq(Message)
           /\ NotFrom(Append(s, m), e)
                = IF m.from = e THEN NotFrom(s, e) ELSE Append(NotFrom(s, e), m)
<1> DEFINE n == Len(s)
           t == Append(s, m)
<1>1. /\ n \in Nat /\ t \in Seq(Message) /\ Len(t) = n + 1
      /\ \A i \in 1 .. n : t[i] = s[i]
      /\ t[n + 1] = m
  BY AppendProperties, LenProperties
<1>2. PICK F : SkipsFrom(F, s, e) /\ NotFrom(s, e) = F[n]
  BY NotFromRun
<1> HIDE DEF n, t
<1>3. PICK G : SkipsFrom(G, t, e) /\ NotFrom(t, e) = G[n + 1]
  BY <1>1, NotFromRun
<1> DEFINE T == {i \in Nat : i <= n => F[i] = G[i]}
<1>f. /\ F \in [0 .. n -> Seq(Message)]
      /\ \A i \in 0 .. n : F[i] = IF i = 0 THEN <<>>
                 ELSE IF s[i].from = e THEN F[i - 1] ELSE Append(F[i - 1], s[i])
  BY <1>2 DEF SkipsFrom, n
<1>g. \A i \in 0 .. n + 1 : G[i] = IF i = 0 THEN <<>>
                 ELSE IF t[i].from = e THEN G[i - 1] ELSE Append(G[i - 1], t[i])
  BY <1>1, <1>3 DEF SkipsFrom
<1>4. 0 \in T
  BY <1>1, <1>f, <1>g
<1>5. ASSUME NEW k \in Nat, k \in T PROVE k + 1 \in T
  <2> SUFFICES ASSUME k + 1 <= n PROVE F[k + 1] = G[k + 1]
    OBVIOUS
  <2>1. /\ k + 1 \in 0 .. n /\ k + 1 \in 0 .. n + 1 /\ k + 1 \in 1 .. n /\ k + 1 # 0
        /\ (k + 1) - 1 = k /\ F[k] = G[k]
    BY <1>1, <1>5
  <2> QED
    BY <1>1, <1>f, <1>g, <2>1
<1>6. Nat \subseteq T
  <2> HIDE DEF T
  <2> QED
    BY <1>4, <1>5, NatSetInduction
<1>7. F[n] = G[n] /\ F[n] \in Seq(Message)
  BY <1>1, <1>6, <1>f
<1>8. n + 1 \in 0 .. n + 1 /\ n + 1 # 0 /\ (n + 1) - 1 = n
  BY <1>1
<1>9. G[n + 1] = IF m.from = e THEN G[n] ELSE Append(G[n], m)
  BY <1>1, <1>g, <1>8
<1> QED
  BY <1>2, <1>3, <1>7, <1>9 DEF t

LEMMA NotFromEmpty ==
    ASSUME NEW e
    PROVE  NotFrom(<<>>, e) = <<>>
<1>1. <<>> \in Seq(Message) /\ Len(<<>>) = 0
  BY EmptySeq
<1>2. PICK F : SkipsFrom(F, <<>>, e) /\ NotFrom(<<>>, e) = F[Len(<<>>)]
  BY <1>1, NotFromRun
<1> QED
  BY <1>1, <1>2 DEF SkipsFrom

\* The end of a log grows with the log.
LEMMA SuffixAppend ==
    ASSUME NEW s \in Seq(Message), NEW m \in Message, NEW j \in Nat, j <= Len(s)
    PROVE  /\ SubSeq(s, j + 1, Len(s)) \in Seq(Message)
           /\ SubSeq(Append(s, m), j + 1, Len(Append(s, m)))
                = Append(SubSeq(s, j + 1, Len(s)), m)
<1> DEFINE n == Len(s)
           t == Append(s, m)
           u == SubSeq(s, j + 1, n)
           v == SubSeq(t, j + 1, n + 1)
<1>1. /\ n \in Nat /\ t \in Seq(Message) /\ Len(t) = n + 1
      /\ \A i \in 1 .. n : t[i] = s[i]
      /\ t[n + 1] = m
      /\ DOMAIN s = 1 .. n /\ DOMAIN t = 1 .. n + 1
      /\ \A i \in 1 .. n : s[i] \in Message
      /\ \A i \in 1 .. n + 1 : t[i] \in Message
  BY AppendProperties, LenProperties, ElementOfSeq
<1> HIDE DEF t
<1>2. /\ u \in Seq(Message) /\ Len(u) = n - j
      /\ \A i \in 1 .. n - j : u[i] = s[j + i]
  <2> HIDE DEF n
  <2>1. j <= n /\ n \in Nat
    BY <1>1 DEF n
  <2>2. /\ u \in Seq(Message)
        /\ Len(u) = IF j + 1 <= n THEN n - (j + 1) + 1 ELSE 0
        /\ \A i \in 1 .. n - (j + 1) + 1 : u[i] = s[j + 1 + i - 1]
    BY <1>1, <2>1, SubSeqProperties DEF n
  <2>3. /\ n - (j + 1) + 1 = n - j /\ (IF j + 1 <= n THEN n - (j + 1) + 1 ELSE 0) = n - j
        /\ \A i \in 1 .. n - j : j + 1 + i - 1 = j + i
    BY <2>1
  <2> QED
    BY <2>2, <2>3
<1>3. /\ v \in Seq(Message) /\ Len(v) = (n - j) + 1
      /\ \A i \in 1 .. (n - j) + 1 : v[i] = t[j + i]
  <2> HIDE DEF n
  <2>1. j <= n /\ n \in Nat
    BY <1>1 DEF n
  <2>2. /\ v \in Seq(Message)
        /\ Len(v) = IF j + 1 <= n + 1 THEN (n + 1) - (j + 1) + 1 ELSE 0
        /\ \A i \in 1 .. (n + 1) - (j + 1) + 1 : v[i] = t[j + 1 + i - 1]
    BY <1>1, <2>1, SubSeqProperties
  <2>3. /\ (n + 1) - (j + 1) + 1 = (n - j) + 1 /\ j + 1 <= n + 1
        /\ \A i \in 1 .. (n - j) + 1 : j + 1 + i - 1 = j + i
    BY <2>1
  <2> QED
    BY <2>2, <2>3
<1> HIDE DEF u, v
<1>4. /\ Append(u, m) \in Seq(Message) /\ Len(Append(u, m)) = (n - j) + 1
      /\ \A i \in 1 .. n - j : Append(u, m)[i] = u[i]
      /\ Append(u, m)[(n - j) + 1] = m
  BY <1>2, AppendProperties
<1>5. ASSUME NEW i \in 1 .. (n - j) + 1 PROVE v[i] = Append(u, m)[i]
  <2> HIDE DEF n
  <2>0. j <= n /\ n \in Nat
    BY <1>1 DEF n
  <2>1. CASE i = (n - j) + 1
    <3>1. j + i = n + 1
      BY <2>0, <2>1
    <3> QED
      BY <1>1, <1>3, <1>4, <2>1, <3>1
  <2>2. CASE i # (n - j) + 1
    <3>1. i \in 1 .. n - j /\ j + i \in 1 .. n
      BY <2>0, <2>2
    <3> QED
      BY <1>1, <1>2, <1>3, <1>4, <3>1
  <2> QED
    BY <2>1, <2>2
<1>6. v = Append(u, m)
  BY <1>3, <1>4, <1>5, SeqEqual
<1> QED
  BY <1>1, <1>2, <1>6 DEF u, v, t

LEMMA HeardType ==
    ASSUME TypeInv, NEW e \in Registered, joined[e] <= Len(landed)
    PROVE  Heard(e) \in Seq(Message)
<1>1. landed \in Seq(Message) /\ joined[e] \in Nat
  BY DEF TypeInv, TypeOK
<1>2. \E m : m \in Message
  <2>1. [n |-> 0, from |-> 0, deliver_at |-> 0] \in Message
    BY DurationAssumption DEF Message, Duration
  <2> QED
    BY <2>1
<1>3. SubSeq(landed, joined[e] + 1, Len(landed)) \in Seq(Message)
  BY <1>1, <1>2, SuffixAppend
<1> QED
  BY <1>2, <1>3, NotFromAppend DEF Heard

\* The endpoints are what the mailboxes list.
LEMMA MailboxesList ==
    ASSUME TypeInv
    PROVE  /\ \A i \in DOMAIN mailboxes : mailboxes[i] \in Registered
           /\ \A e \in Registered : \E i \in DOMAIN mailboxes : e = mailboxes[i]
  BY DEF Registered, Range

\* Steps that move no message to or from an endpoint.
LEMMA SameKeepsOrder ==
    ASSUME OrderInv, UNCHANGED <<landed, joined, received, inbox, mailboxes, due, slot>>,
           Landing' = Landing
    PROVE  OrderInv'
  BY DEF OrderInv, Given, Heard, Pending

\* As long as nobody lands messages, no endpoint has been given one too many.
LEMMA QuietOrder ==
    ASSUME TypeInv, OrderInv, UNCHANGED <<landed, joined, received, inbox, mailboxes>>,
           ~Landing, slot' = 1 \/ slot' = slot
    PROVE  OrderInv'
<1>1. slot = 1 /\ slot' = 1
  BY DEF OrderInv
<1>2. ASSUME NEW i \in DOMAIN mailboxes PROVE Pending(i) = <<>> /\ Pending(i)' = <<>>
  <2>1. i \in Nat /\ ~(i < 1)
    <3>1. DOMAIN mailboxes = 1 .. Len(mailboxes) /\ Len(mailboxes) \in Nat
      BY LenProperties DEF TypeInv, TypeOK
    <3> QED
      BY <3>1
  <2> QED
    BY <1>1, <2>1 DEF Pending
<1> QED
  BY <1>1, <1>2 DEF OrderInv, Given, Heard


LEMMA NextOrderInv ==
    TypeInv /\ SafeInv /\ EndpointInv /\ OrderInv /\ [Next]_vars => OrderInv'
<1> SUFFICES ASSUME TypeInv, SafeInv, EndpointInv, OrderInv, [Next]_vars PROVE OrderInv'
  OBVIOUS
<1> USE DEF config, stats, delivery, endpoints, threads
<1>t. /\ pc \in [Threads -> {"idle", "second", "register", "flush", "step",
                             "drain", "land"}]
      /\ landed \in Seq(Message) /\ due \in Seq(Message)
      /\ inbox \in [Registered -> Seq(Message)]
      /\ received \in [Registered -> Seq(Message)]
      /\ joined \in [Registered -> Nat]
      /\ slot \in Nat \ {0} /\ mailboxes \in Seq(Nat)
  BY DEF TypeInv, TypeOK
<1>m. DOMAIN mailboxes = 1 .. Len(mailboxes) /\ Len(mailboxes) \in Nat
  BY <1>t, LenProperties
<1>r. \A i \in DOMAIN mailboxes : mailboxes[i] \in Registered
  BY MailboxesList
<1>l. LockInv /\ DeliverInv
  BY DEF SafeInv
\* A thread outside deliver_due that stays outside.
<1>1. ASSUME NEW t \in Threads,
             \/ PairFirst(t) \/ PairSecond(t) \/ FlushRead(t) \/ FlushReturn(t)
             \/ PanicInCall(t) \/ \E max_rounds \in RoundLimits : FlushCall(t, max_rounds)
      PROVE  OrderInv'
  <2>1. /\ pc[t] \notin {"drain", "land"}
        /\ \E p \in {"idle", "second", "register", "flush", "step"} :
              pc' = [pc EXCEPT ![t] = p]
        /\ UNCHANGED <<holder, poisoned>>
        /\ UNCHANGED <<landed, joined, received, inbox, mailboxes, due, slot>>
    BY <1>1 DEF PairFirst, PairSecond, FlushRead, FlushReturn, PanicInCall, FlushCall, Leave
  <2>2. Landing' = Landing
    BY <1>l, <2>1, OutsideKeepsLockInv
  <2> QED
    BY <2>1, <2>2, SameKeepsOrder
<1>2. ASSUME NEW t \in Threads, NEW by, pc[t] \in {"idle", "step"}, AdvanceOverflows(t, by)
      PROVE  OrderInv'
  <2>1. /\ UNCHANGED <<landed, joined, received, inbox, mailboxes, due, slot>>
        /\ pc' = [pc EXCEPT ![t] = "idle"]
    BY <1>2 DEF AdvanceOverflows, Leave
  <2>2. Landing' = Landing
    BY <1>t, <1>2, <2>1 DEF Landing
  <2> QED
    BY <2>1, <2>2, SameKeepsOrder
<1>3. ASSUME NEW t \in Threads, NEW by, NEW back, pc[t] \in {"idle", "step"},
             LockAndAdvance(t, by, back)
      PROVE  OrderInv'
  <2>1. /\ UNCHANGED <<landed, joined, received, inbox, mailboxes, due, slot>>
        /\ pc' = [pc EXCEPT ![t] = "drain"]
    BY <1>3 DEF LockAndAdvance
  <2>2. Landing' = Landing
    BY <1>t, <1>3, <2>1 DEF Landing
  <2> QED
    BY <2>1, <2>2, SameKeepsOrder
<1>4. ASSUME NEW t \in Threads, Drain(t) \/ Drained(t) PROVE OrderInv'
  <2>1. /\ UNCHANGED <<landed, joined, received, inbox, mailboxes, slot>>
        /\ pc[t] = "drain"
    BY <1>4 DEF Drain, Drained
  <2>2. ~Landing
    BY <1>l, <2>1, NoThreadAssumption DEF LockInv, Landing
  <2> QED
    BY <2>1, <2>2, QuietOrder
<1>5. ASSUME NEW t \in Threads, Unlock(t) PROVE OrderInv'
  <2>1. /\ UNCHANGED <<landed, joined, received, inbox, mailboxes, due, slot>>
        /\ due = <<>>
    BY <1>5 DEF Unlock
  <2> QED
    BY <2>1 DEF OrderInv, Given, Heard, Pending
<1>6. ASSUME NEW t \in Threads, Push(t) PROVE OrderInv'
  <2>1. /\ UNCHANGED <<landed, joined, received, mailboxes, due, pc>>
        /\ due # <<>> /\ slot <= Len(mailboxes) /\ slot' = slot + 1 /\ pc[t] = "land"
    BY <1>6 DEF Push
  <2>2. Landing /\ Landing'
    BY <2>1 DEF Landing
  <2>3. slot \in DOMAIN mailboxes /\ Head(due) \in Message
    BY <1>t, <1>m, <2>1, TailElements
  <2> SUFFICES ASSUME NEW i \in DOMAIN mailboxes PROVE Given(i)'
    BY <2>1, <2>2 DEF OrderInv
  <2> DEFINE e == mailboxes[i]
             m == Head(due)
  <2>4. /\ e \in Registered /\ joined[e] <= Len(landed)
        /\ received[e] \o inbox[e] = Heard(e) \o Pending(i)
        /\ received[e] \in Seq(Message) /\ inbox[e] \in Seq(Message)
        /\ Heard(e) \in Seq(Message)
    BY <1>r, <1>t, HeardType DEF OrderInv, Given
  <2>5. Heard(e)' = Heard(e)
    BY <2>1 DEF Heard
  <2>6. CASE i = slot
    <3>1. Pending(i) = <<>>
      BY <1>t, <2>6 DEF Pending
    <3>2. received[e] \o inbox[e] = Heard(e)
      BY <2>4, <3>1, ConcatEmptySeq
    <3>3. i < slot' /\ Pending(i)' = IF m.from # e THEN <<m>> ELSE <<>>
      BY <1>t, <2>1, <2>2, <2>6 DEF Pending
    <3>4. CASE e # m.from
      <4>1. inbox'[e] = Append(inbox[e], m)
        BY <1>6, <1>t, <2>4, <2>6, <3>4 DEF Push
      <4>2. received[e] \o Append(inbox[e], m) = Append(received[e] \o inbox[e], m)
        <5> DEFINE r == received[e]
                   q == inbox[e]
        <5>1. r \in Seq(Message) /\ q \in Seq(Message) /\ m \in Message
          BY <2>3, <2>4
        <5> HIDE DEF r, q, m
        <5>2. r \o Append(q, m) = Append(r \o q, m)
          BY <5>1, ConcatAppend
        <5> QED
          BY <5>2 DEF r, q
      <4>3. Append(Heard(e), m) = Heard(e) \o <<m>>
        BY <2>3, <2>4, AppendIsConcat
      <4> QED
        BY <2>1, <2>4, <2>5, <3>2, <3>3, <3>4, <4>1, <4>2, <4>3 DEF Given
    <3>5. CASE e = m.from
      <4>1. inbox' = inbox
        BY <1>6, <2>6, <3>5 DEF Push
      <4>2. Heard(e) \o <<>> = Heard(e)
        BY <2>4, ConcatEmptySeq
      <4> QED
        BY <2>1, <2>4, <2>5, <3>2, <3>3, <3>5, <4>1, <4>2 DEF Given
    <3> QED
      BY <3>4, <3>5
  <2>7. CASE i # slot
    <3>1. inbox'[e] = inbox[e]
      <4>1. mailboxes[slot] # e
        BY <2>3, <2>7 DEF EndpointInv, UniqueEndpoints
      <4> QED
        BY <1>6, <1>t, <2>4, <4>1 DEF Push
    <3>2. i < slot' <=> i < slot
      BY <1>t, <1>m, <2>1, <2>7
    <3>3. Pending(i)' = Pending(i)
      BY <2>1, <2>2, <3>2 DEF Pending
    <3> QED
      BY <2>1, <2>4, <2>5, <3>1, <3>3 DEF Given
  <2> QED
    BY <2>6, <2>7
<1>7. ASSUME NEW t \in Threads, NextMessage(t) PROVE OrderInv'
  <2>1. /\ UNCHANGED <<joined, received, inbox, mailboxes, pc>>
        /\ due # <<>> /\ slot > Len(mailboxes) /\ slot' = 1 /\ pc[t] = "land"
        /\ landed' = Append(landed, Head(due))
    BY <1>7 DEF NextMessage
  <2>2. Landing /\ Landing'
    BY <2>1 DEF Landing
  <2> SUFFICES ASSUME NEW i \in DOMAIN mailboxes PROVE Given(i)'
    BY <2>1 DEF OrderInv
  <2> DEFINE e == mailboxes[i]
             m == Head(due)
             s == SubSeq(landed, joined[e] + 1, Len(landed))
  <2>3. m \in Message
    BY <1>t, <2>1, TailElements
  <2>4. /\ e \in Registered /\ joined[e] <= Len(landed) /\ joined[e] \in Nat
        /\ received[e] \o inbox[e] = Heard(e) \o Pending(i)
        /\ Heard(e) \in Seq(Message)
    BY <1>r, <1>t, HeardType DEF OrderInv, Given
  <2>5. i < slot /\ ~(i < slot') /\ i \in Nat
    BY <1>t, <1>m, <2>1
  <2>6. Pending(i) = (IF m.from # e THEN <<m>> ELSE <<>>) /\ Pending(i)' = <<>>
    BY <2>1, <2>2, <2>5 DEF Pending
  <2>7. /\ s \in Seq(Message)
        /\ SubSeq(landed', joined[e] + 1, Len(landed')) = Append(s, m)
    BY <1>t, <2>1, <2>3, <2>4, SuffixAppend
  <2>8. joined[e] <= Len(landed')
    <3>1. Len(landed') = Len(landed) + 1 /\ Len(landed) \in Nat
      BY <1>t, <2>1, <2>3, AppendLength, LenProperties
    <3> QED
      BY <2>4, <3>1
  <2> HIDE DEF s, m
  <2>9. Heard(e)' = IF m.from = e THEN Heard(e) ELSE Append(Heard(e), m)
    <3>1. Heard(e)' = NotFrom(Append(s, m), e)
      BY <2>1, <2>7 DEF Heard
    <3>2. Heard(e) = NotFrom(s, e)
      BY DEF Heard, s
    <3> QED
      BY <2>3, <2>7, <3>1, <3>2, NotFromAppend
  <2>10. Heard(e)' = received[e] \o inbox[e] /\ Heard(e)' \in Seq(Message)
    <3>1. CASE m.from = e
      <4>1. Heard(e) \o <<>> = Heard(e)
        BY <2>4, ConcatEmptySeq
      <4> QED
        BY <2>4, <2>6, <2>9, <3>1, <4>1
    <3>2. CASE m.from # e
      <4>1. Append(Heard(e), m) = Heard(e) \o <<m>> /\ Append(Heard(e), m) \in Seq(Message)
        BY <2>3, <2>4, AppendIsConcat, AppendProperties
      <4> QED
        BY <2>4, <2>6, <2>9, <3>2, <4>1
    <3> QED
      BY <3>1, <3>2
  <2>11. Heard(e)' \o <<>> = Heard(e)'
    BY <2>10, ConcatEmptySeq
  <2> QED
    BY <2>1, <2>6, <2>8, <2>10, <2>11 DEF Given
<1>8. ASSUME NEW t \in Threads, PairRegister(t) PROVE OrderInv'
  <2> DEFINE fresh == Range(ids[t])
  <2>1. /\ holder = NoThread /\ pc' = [pc EXCEPT ![t] = "idle"]
        /\ UNCHANGED <<landed, due, slot>>
        /\ inbox' = [e \in Registered \cup fresh |-> IF e \in fresh THEN <<>> ELSE inbox[e]]
        /\ received' = [e \in Registered \cup fresh |-> IF e \in fresh THEN <<>> ELSE received[e]]
        /\ joined' = [e \in Registered \cup fresh |-> IF e \in fresh THEN Len(landed) ELSE joined[e]]
    BY <1>8 DEF PairRegister, LockFree
  <2>2. ~Landing /\ ~Landing'
    BY <1>l, <1>t, <2>1, NoThreadAssumption DEF LockInv, Landing
  <2>3. Registered' = Registered \cup fresh /\ mailboxes' \in Seq(Nat)
    <3>1. mailboxes \in Seq(Nat) /\ ids[t] \in Seq(Nat) /\ mailboxes' = mailboxes \o ids[t]
      BY <1>8 DEF PairRegister, TypeInv, TypeOK
    <3> QED
      BY <3>1, RangeConcatenation, ConcatProperties DEF Registered
  <2> HIDE DEF fresh
  <2>4. Len(landed) \in Nat
    BY <1>t, LenProperties
  <2>5. ASSUME NEW e \in Registered \cup fresh
        PROVE  joined'[e] <= Len(landed) /\ received'[e] \o inbox'[e] = Heard(e)'
    <3>1. CASE e \in fresh
      <4>1. joined'[e] = Len(landed) /\ received'[e] = <<>> /\ inbox'[e] = <<>>
        BY <2>1, <3>1
      <4>2. SubSeq(landed', joined'[e] + 1, Len(landed')) = <<>>
        <5>1. ~(Len(landed) + 1 <= Len(landed))
          BY <2>4
        <5>2. SubSeq(landed, Len(landed) + 1, Len(landed)) = <<>>
          BY <1>t, <2>4, <5>1, SubSeqEmpty
        <5> QED
          BY <2>1, <4>1, <5>2
      <4>3. <<>> \o <<>> = <<>>
        BY EmptySeq, ConcatEmptySeq
      <4>4. Heard(e)' = NotFrom(SubSeq(landed', joined'[e] + 1, Len(landed')), e)
        BY DEF Heard
      <4>5. Heard(e)' = <<>>
        BY <4>2, <4>4, NotFromEmpty
      <4>6. received'[e] \o inbox'[e] = Heard(e)'
        BY <4>1, <4>3, <4>5
      <4> QED
        BY <2>4, <4>1, <4>6
    <3>2. CASE e \notin fresh
      <4>1. PICK i \in DOMAIN mailboxes : e = mailboxes[i]
        BY <3>2, MailboxesList
      <4>2. Pending(i) = <<>>
        BY <2>2 DEF Pending
      <4>3. /\ joined[e] <= Len(landed) /\ received[e] \o inbox[e] = Heard(e) \o Pending(i)
        BY <4>1 DEF OrderInv, Given
      <4>4. Heard(e) \o <<>> = Heard(e)
        BY <3>2, <4>3, HeardType, ConcatEmptySeq
      <4>5. joined'[e] = joined[e] /\ received'[e] = received[e] /\ inbox'[e] = inbox[e]
        BY <2>1, <3>2
      <4> QED
        BY <2>1, <4>2, <4>3, <4>4, <4>5 DEF Heard
    <3> QED
      BY <3>1, <3>2
  <2>6. ASSUME NEW i \in DOMAIN mailboxes' PROVE Given(i)'
    <3> DEFINE e == mailboxes'[i]
    <3>1. e \in Registered \cup fresh
      BY <2>3 DEF Registered, Range
    <3> DEFINE r == received'[e]
               q == inbox'[e]
    <3>2. joined'[e] <= Len(landed') /\ r \o q = Heard(mailboxes[i])'
      <4>1. PICK u \in Registered \cup fresh : u = e
        BY <3>1
      <4>2. joined'[u] <= Len(landed) /\ received'[u] \o inbox'[u] = Heard(u)'
        BY <2>5
      <4>3. Heard(u)' = NotFrom(SubSeq(landed', joined'[u] + 1, Len(landed')), u)
        BY DEF Heard
      <4>4. Heard(mailboxes[i])' = NotFrom(SubSeq(landed', joined'[e] + 1, Len(landed')), e)
        BY DEF Heard
      <4> HIDE DEF e
      <4> QED
        BY <2>1, <4>1, <4>2, <4>3, <4>4
    <3>3. Pending(i)' = <<>>
      BY <2>2 DEF Pending
    <3>4. r \o q \in Seq(Message)
      <4>1. r \in Seq(Message) /\ q \in Seq(Message)
        BY <1>t, <2>1, <3>1, EmptySeq
      <4> HIDE DEF r, q
      <4> QED
        BY <4>1, ConcatProperties
    <3>5. (r \o q) \o <<>> = r \o q
      <4> HIDE DEF r, q
      <4> QED
        BY <3>4, ConcatEmptySeq
    <3>6. joined'[mailboxes'[i]] <= Len(landed')
          /\ received'[mailboxes'[i]] \o inbox'[mailboxes'[i]] = Heard(mailboxes[i])' \o Pending(i)'
      BY <3>2, <3>3, <3>5
    <3> QED
      BY <3>6 DEF Given
  <2>7. slot' = 1
    BY <2>1, <2>2 DEF OrderInv
  <2> QED
    BY <2>6, <2>7 DEF OrderInv
<1>9. ASSUME NEW e \in Registered, TryRecv(e) PROVE OrderInv'
  <2>1. /\ UNCHANGED <<landed, joined, mailboxes, due, slot, pc>> /\ inbox[e] # <<>>
        /\ inbox' = [inbox EXCEPT ![e] = Tail(@)]
        /\ received' = [received EXCEPT ![e] = Append(@, Head(inbox[e]))]
    BY <1>9 DEF TryRecv
  <2>2. Landing' = Landing
    BY <2>1 DEF Landing
  <2>3. Append(received[e], Head(inbox[e])) \o Tail(inbox[e]) = received[e] \o inbox[e]
    <3> DEFINE r == received[e]
               q == inbox[e]
    <3>1. r \in Seq(Message) /\ q \in Seq(Message) /\ q # <<>>
      BY <1>t, <2>1
    <3> HIDE DEF r, q
    <3>2. Append(r, Head(q)) \o Tail(q) = r \o q
      BY <3>1, HandOn
    <3> QED
      BY <3>2 DEF r, q
  <2>4. \A u \in Registered : received'[u] \o inbox'[u] = received[u] \o inbox[u]
    BY <1>t, <2>1, <2>3
  <2>5. ASSUME NEW i \in DOMAIN mailboxes PROVE Given(i)'
    <3>1. received'[mailboxes[i]] \o inbox'[mailboxes[i]] = received[mailboxes[i]] \o inbox[mailboxes[i]]
      BY <1>r, <2>4
    <3>2. Heard(mailboxes[i])' = Heard(mailboxes[i]) /\ Pending(i)' = Pending(i)
      BY <2>1, <2>2 DEF Heard, Pending
    <3> QED
      BY <2>1, <3>1, <3>2 DEF OrderInv, Given
  <2> QED
    BY <2>1, <2>2, <2>5 DEF OrderInv
<1>10. ASSUME \/ \E e \in Registered : Send(e)
              \/ \E l \in Latencies : SetLatency(l)
              \/ \E r \in Rates : SetDropRate(r) \/ SetReorderRate(r)
              \/ \E up \in BOOLEAN : SetConnected(up)
              \/ Stats
              \/ UNCHANGED vars
       PROVE  OrderInv'
  <2>1. UNCHANGED <<landed, joined, received, inbox, mailboxes, due, slot, pc>>
    BY <1>10 DEF Send, SendQueued, SendDropped, SendOverflows, Accepts, SetLatency, SetDropRate,
                SetReorderRate, SetConnected, Stats, vars
  <2>2. Landing' = Landing
    BY <2>1 DEF Landing
  <2> QED
    BY <2>1, <2>2, SameKeepsOrder
<1>11. ASSUME NEW t \in Threads, FlushStep(t) \/ \E by \in Steps : Advance(t, by)
       PROVE  OrderInv'
  BY <1>2, <1>3, <1>11 DEF FlushStep, Advance
<1> QED
  BY <1>1, <1>4, <1>5, <1>6, <1>7, <1>8, <1>9, <1>10, <1>11
  DEF Next, PairCall, DeliverDue, Flush, PanicAtCall

\* All endpoints are given the landed messages in the one order in which they
\* landed, each from when it joined, nothing twice, nothing of its own and
\* nothing missing, whatever threads receive, pair and send meanwhile.
THEOREM OrderIsAgreed == Spec => []AgreedOrder
<1>1. Init => OrderInv
  <2> SUFFICES ASSUME Init PROVE OrderInv
    OBVIOUS
  <2>1. slot = 1 /\ DOMAIN mailboxes = {}
    BY DEF Init
  <2> QED
    BY <2>1 DEF OrderInv
<1>2. TypeInv /\ SafeInv /\ OrderInv => AgreedOrder
  <2> SUFFICES ASSUME TypeInv, SafeInv, OrderInv, holder = NoThread, NEW e \in Registered
               PROVE  received[e] \o inbox[e] = Heard(e)
    BY DEF AgreedOrder, Heard
  <2>1. ~Landing
    BY NoThreadAssumption DEF SafeInv, LockInv, Landing
  <2>2. PICK i \in DOMAIN mailboxes : e = mailboxes[i]
    BY MailboxesList
  <2>3. Pending(i) = <<>>
    BY <2>1 DEF Pending
  <2>4. joined[e] <= Len(landed) /\ received[e] \o inbox[e] = Heard(e) \o Pending(i)
    BY <2>2 DEF OrderInv, Given
  <2> QED
    BY <2>3, <2>4, HeardType, ConcatEmptySeq
<1>3. Spec => []EndpointInv
  <2>1. Init => EndpointInv
    BY DEF Init, EndpointInv, BelowCounter, UniqueEndpoints
  <2> QED
    BY <2>1, InitTypeInv, NextTypeInv, NextEndpointInv, PTL DEF Spec
<1> QED
  BY <1>1, <1>2, <1>3, InitTypeInv, NextTypeInv, InitSafeInv, NextSafeInv, NextOrderInv, PTL
  DEF Spec
-----------------------------------------------------------------------------
(***************************************************************************)
(* A round of flush.  Whatever is in flight is due within the current      *)
(* latency, so that the step a round has read covers all the round saw:    *)
(* what other threads put in flight meanwhile has a later number.          *)
(***************************************************************************)

InLine == Range(queue) \cup Range(survivors)

Waiting(t) == {m \in InLine : m.n \in goal[t]}

FlushOf(t) ==
    /\ \A k \in goal[t] : k <= sent
    /\ \/ pc[t] \in {"idle", "second", "register"}
       \/ pc[t] \in {"drain", "land"} /\ ret[t] = "idle"
       => goal[t] = {}
    /\ pc[t] = "step" => \A m \in Waiting(t) : m.deliver_at <= virtual_now + step[t]
    /\ pc[t] = "drain" /\ ret[t] = "flush" =>
          \A m \in Waiting(t) : m.deliver_at <= virtual_now
    /\ pc[t] = "flush" \/ (pc[t] = "land" /\ ret[t] = "flush") => Waiting(t) = {}

FlushInv ==
    /\ \A m \in InLine : m.deliver_at <= virtual_now + latency
    /\ \A t \in Threads : FlushOf(t)

\* What a step may do to the messages in flight and to the clock.
Flows ==
    /\ \A m \in InLine' : \/ m \in InLine
                          \/ /\ sent' = sent + 1
                             /\ m.n = sent + 1
                             /\ m.deliver_at = virtual_now + latency
    /\ sent' >= sent /\ virtual_now' >= virtual_now
    /\ sent' \in Nat /\ virtual_now' \in Nat
    /\ \A m \in InLine : m \in Message

LEMMA InsertInLine ==
    ASSUME NEW q \in Seq(Message), NEW m \in Message, NEW reorder \in BOOLEAN
    PROVE  Range(Insert(q, m, reorder)) \subseteq Range(q) \cup {m}
<1> SUFFICES ASSUME NEW i \in DOMAIN Insert(q, m, reorder)
             PROVE  Insert(q, m, reorder)[i] \in Range(q) \cup {m}
  BY DEF Range
<1> QED
  BY InsertElements DEF Range

LEMMA TypeInLine == ASSUME TypeInv PROVE \A m \in InLine : m \in Message
<1>1. queue \in Seq(Message) /\ survivors \in Seq(Message)
  BY DEF TypeInv, TypeOK
<1>2. /\ \A i \in DOMAIN queue : queue[i] \in Message
      /\ \A i \in DOMAIN survivors : survivors[i] \in Message
  BY <1>1, ElementOfSeq, LenProperties
<1> QED
  BY <1>2 DEF InLine, Range

LEMMA NextFlows == ASSUME TypeInv, [Next]_vars PROVE Flows
<1> USE DEF config, stats, delivery, endpoints, threads
<1>t. /\ queue \in Seq(Message) /\ survivors \in Seq(Message)
      /\ sent \in Nat /\ virtual_now \in Nat /\ latency \in Nat
  BY DurationAssumption DEF TypeInv, TypeOK, Duration
<1>m. \A m \in InLine : m \in Message
  BY TypeInLine
<1>1. ASSUME UNCHANGED <<queue, survivors, virtual_now>>, sent' = sent \/ sent' = sent + 1
      PROVE  Flows
  BY <1>t, <1>m, <1>1 DEF Flows, InLine
<1>2. ASSUME NEW t \in Threads, Drain(t) PROVE Flows
  <2>1. /\ queue # <<>> /\ queue' = Tail(queue) /\ UNCHANGED <<sent, virtual_now>>
        /\ survivors' = survivors \/ survivors' = Append(survivors, Head(queue))
    BY <1>2 DEF Drain
  <2>2. Head(queue) \in Range(queue) /\ Range(Tail(queue)) \subseteq Range(queue)
    BY <1>t, <2>1, TailElements DEF Range
  <2>3. Range(survivors') \subseteq Range(survivors) \cup {Head(queue)}
    <3>1. Head(queue) \in Message
      BY <1>t, <2>1, TailElements
    <3>2. \A i \in DOMAIN Append(survivors, Head(queue)) :
             \/ Append(survivors, Head(queue))[i] = Head(queue)
             \/ i \in DOMAIN survivors /\ Append(survivors, Head(queue))[i] = survivors[i]
      BY <1>t, <3>1, AppendElements
    <3> QED
      BY <2>1, <3>2 DEF Range
  <2> QED
    BY <1>t, <1>m, <2>1, <2>2, <2>3 DEF Flows, InLine
<1>3. ASSUME NEW t \in Threads, Drained(t) PROVE Flows
  <2>1. /\ queue' = survivors /\ survivors' = <<>> /\ UNCHANGED <<sent, virtual_now>>
    BY <1>3 DEF Drained
  <2>2. Range(<<>>) = {}
    BY DEF Range
  <2> QED
    BY <1>t, <1>m, <2>1, <2>2 DEF Flows, InLine
<1>4. ASSUME NEW e \in Registered, SendQueued(e) PROVE Flows
  <2> DEFINE m == [n |-> sent + 1, from |-> e, deliver_at |-> virtual_now + latency]
  <2>1. m \in Message /\ m.n = sent + 1 /\ m.deliver_at = virtual_now + latency
    BY <1>4, SentIsMessage
  <2>2. PICK reorder \in BOOLEAN : queue' = Insert(queue, m, reorder)
    BY <1>4 DEF SendQueued, Draws
  <2>3. UNCHANGED <<survivors, virtual_now>> /\ sent' = sent + 1
    BY <1>4 DEF SendQueued
  <2> HIDE DEF m
  <2>4. Range(queue') \subseteq Range(queue) \cup {m}
    BY <1>t, <2>1, <2>2, InsertInLine
  <2> QED
    BY <1>t, <1>m, <2>1, <2>3, <2>4 DEF Flows, InLine
<1>5. ASSUME NEW t \in Threads, NEW by \in Nat, NEW back, LockAndAdvance(t, by, back) PROVE Flows
  <2>1. UNCHANGED <<queue, survivors, sent>> /\ virtual_now' = virtual_now + by
    BY <1>5 DEF LockAndAdvance
  <2> QED
    BY <1>t, <1>m, <2>1 DEF Flows, InLine
<1>6. ASSUME NEW t \in Threads,
             \/ PairFirst(t) \/ PairSecond(t) \/ PairRegister(t) \/ FlushRead(t)
             \/ FlushReturn(t) \/ PanicInCall(t) \/ Push(t) \/ NextMessage(t) \/ Unlock(t)
             \/ \E max_rounds \in RoundLimits : FlushCall(t, max_rounds)
             \/ \E by \in Steps : AdvanceOverflows(t, by)
             \/ AdvanceOverflows(t, step[t])
      PROVE  Flows
  BY <1>1, <1>6 DEF PairFirst, PairSecond, PairRegister, FlushRead, FlushReturn, PanicInCall,
                    Push, NextMessage, Unlock, FlushCall, AdvanceOverflows
<1>7. ASSUME \/ \E e \in Registered : SendDropped(e) \/ SendOverflows(e) \/ TryRecv(e)
             \/ \E l \in Latencies : SetLatency(l)
             \/ \E r \in Rates : SetDropRate(r) \/ SetReorderRate(r)
             \/ \E up \in BOOLEAN : SetConnected(up)
             \/ Stats
             \/ UNCHANGED vars
      PROVE  Flows
  BY <1>1, <1>7 DEF SendDropped, SendOverflows, TryRecv, SetLatency, SetDropRate, SetReorderRate,
                    SetConnected, Stats, vars
<1>8. ASSUME NEW t \in Threads, FlushStep(t) \/ \E by \in Steps : Advance(t, by) PROVE Flows
  <2>1. step[t] \in Nat /\ \A by \in Steps : by \in Nat
    BY DurationAssumption DEF TypeInv, TypeOK, Duration
  <2> QED
    BY <1>5, <1>6, <1>8, <2>1 DEF FlushStep, Advance
<1> QED
  BY <1>2, <1>3, <1>4, <1>6, <1>7, <1>8
  DEF Next, PairCall, DeliverDue, Flush, Send, PanicAtCall

\* A thread that does not move is not disturbed by what the others do.
LEMMA OthersKeepFlush ==
    ASSUME TypeInv, Flows, NEW t \in Threads, FlushOf(t),
           UNCHANGED <<pc[t], ret[t], step[t], goal[t]>>
    PROVE  FlushOf(t)'
<1>1. /\ sent \in Nat /\ virtual_now \in Nat /\ step[t] \in Nat
      /\ goal[t] \subseteq Nat
  BY DurationAssumption DEF TypeInv, TypeOK, Duration
<1>2. \A m \in InLine' : m.n \in goal[t] => m \in InLine
  BY <1>1 DEF Flows, FlushOf
<1>3. \A m \in Waiting(t)' : m \in Waiting(t) /\ m.deliver_at \in Nat
  BY <1>2, DurationAssumption DEF Waiting, Flows, Message, Duration
<1>4. \A k \in goal[t] : k <= sent'
  BY <1>1 DEF Flows, FlushOf
<1>5. ASSUME pc[t] = "step", NEW m \in Waiting(t)'
      PROVE  m.deliver_at <= virtual_now' + step'[t]
  BY <1>1, <1>3, <1>5 DEF FlushOf, Flows
<1>6. ASSUME pc[t] = "drain", ret[t] = "flush", NEW m \in Waiting(t)'
      PROVE  m.deliver_at <= virtual_now'
  BY <1>1, <1>3, <1>6 DEF FlushOf, Flows
<1>7. pc[t] = "flush" \/ (pc[t] = "land" /\ ret[t] = "flush") => Waiting(t)' = {}
  BY <1>3 DEF FlushOf
<1> QED
  BY <1>4, <1>5, <1>6, <1>7 DEF FlushOf

\* A call that ends, or that has not begun a round, waits for nothing.
LEMMA IdleWaitsForNothing ==
    ASSUME NEW t \in Threads, goal'[t] = {}, pc'[t] # "step"
    PROVE  FlushOf(t)'
  BY DEF FlushOf, Waiting

LEMMA NextFlushInv ==
    ASSUME TypeInv, OvertakeInv, FlushInv, [Next]_vars, latency' >= latency
    PROVE  FlushInv'
<1> USE DEF config, stats, delivery, endpoints, threads
<1>f. Flows
  BY NextFlows
<1>t. /\ pc \in [Threads -> {"idle", "second", "register", "flush", "step",
                             "drain", "land"}]
      /\ ret \in [Threads -> {"idle", "flush"}]
      /\ goal \in [Threads -> SUBSET Nat]
      /\ step \in [Threads -> Nat]
      /\ sent \in Nat /\ virtual_now \in Nat /\ latency \in Nat
  BY DurationAssumption DEF TypeInv, TypeOK, Duration
<1>a. \A m \in InLine' : m.deliver_at <= virtual_now' + latency'
  <2>1. latency' \in Nat
    BY NextTypeInv, DurationAssumption DEF TypeInv, TypeOK, Duration
  <2>2. \A m \in InLine : m.deliver_at \in Nat
    BY DurationAssumption, TypeInLine DEF Message, Duration
  <2> SUFFICES ASSUME NEW m \in InLine' PROVE m.deliver_at <= virtual_now' + latency'
    OBVIOUS
  <2>3. CASE m \in InLine
    BY <1>f, <1>t, <2>1, <2>2, <2>3 DEF Flows, FlushInv
  <2>4. CASE m.deliver_at = virtual_now + latency
    <3>1. virtual_now' \in Nat /\ virtual_now' >= virtual_now
      BY <1>f DEF Flows
    <3>2. virtual_now + latency <= virtual_now' + latency'
      <4>1. latency' >= latency
        OBVIOUS
      <4>2. \A a, b, c, d \in Nat : c >= a /\ d >= b => a + b <= c + d
        OBVIOUS
      <4> QED
        BY <1>t, <2>1, <3>1, <4>1, <4>2
    <3> QED
      BY <2>4, <3>2
  <2> QED
    BY <1>f, <2>3, <2>4 DEF Flows
<1> SUFFICES \A u \in Threads : FlushOf(u)'
  BY <1>a DEF FlushInv
<1>0. \A u \in Threads : FlushOf(u)
  BY DEF FlushInv
\* What is left to show is the thread that moves.
<1>s. ASSUME NEW t \in Threads, FlushOf(t)',
             \A u \in Threads \ {t} : UNCHANGED <<pc[u], ret[u], step[u], goal[u]>>
      PROVE  \A u \in Threads : FlushOf(u)'
  BY <1>0, <1>f, <1>s, OthersKeepFlush
<1>n. ASSUME UNCHANGED <<pc, ret, step, goal>> PROVE \A u \in Threads : FlushOf(u)'
  BY <1>0, <1>f, <1>n, OthersKeepFlush
<1>1. ASSUME NEW t \in Threads,
             \/ PairFirst(t) \/ PairSecond(t) \/ PairRegister(t)
             \/ \E max_rounds \in RoundLimits : FlushCall(t, max_rounds)
      PROVE  \A u \in Threads : FlushOf(u)'
  <2>1. /\ UNCHANGED <<ret, step, goal>>
        /\ pc[t] \in {"idle", "second", "register"}
        /\ \E p \in {"idle", "second", "register", "flush"} : pc' = [pc EXCEPT ![t] = p]
    BY <1>1 DEF PairFirst, PairSecond, PairRegister, FlushCall
  <2>2. goal'[t] = {} /\ pc'[t] # "step"
    BY <1>0, <1>t, <2>1 DEF FlushOf
  <2>3. FlushOf(t)'
    BY <2>2, IdleWaitsForNothing
  <2> QED
    BY <1>s, <1>t, <2>1, <2>3
<1>2. ASSUME NEW t \in Threads, Leave(t), ret' = ret PROVE \A u \in Threads : FlushOf(u)'
  <2>1. /\ pc' = [pc EXCEPT ![t] = "idle"] /\ step' = [step EXCEPT ![t] = 0]
        /\ goal' = [goal EXCEPT ![t] = {}]
    BY <1>2 DEF Leave
  <2>2. FlushOf(t)'
    BY <1>t, <2>1, IdleWaitsForNothing
  <2> QED
    BY <1>s, <1>t, <1>2, <2>1, <2>2
<1>3. ASSUME NEW t \in Threads,
             \/ FlushReturn(t) \/ PanicInCall(t)
             \/ \E by \in Nat : AdvanceOverflows(t, by)
      PROVE  \A u \in Threads : FlushOf(u)'
  BY <1>2, <1>3 DEF FlushReturn, PanicInCall, AdvanceOverflows
<1>4. ASSUME NEW t \in Threads, FlushRead(t) PROVE \A u \in Threads : FlushOf(u)'
  <2>1. /\ pc' = [pc EXCEPT ![t] = "step"]
        /\ step' = [step EXCEPT ![t] = IF latency > 1 THEN latency ELSE 1]
        /\ goal' = [goal EXCEPT ![t] = InFlight]
        /\ UNCHANGED <<ret, queue, survivors, virtual_now, sent>>
    BY <1>4 DEF FlushRead
  <2>2. pc'[t] = "step" /\ goal'[t] = InFlight /\ step'[t] >= latency /\ step'[t] \in Nat
    BY <1>t, <2>1
  <2>3. \A k \in InFlight : k <= sent
    <3> SUFFICES ASSUME NEW i \in DOMAIN queue PROVE queue[i].n <= sent
      BY DEF InFlight
    <3> DEFINE front == (landed \o due) \o survivors
    <3>1. front \in Seq(Message) /\ queue \in Seq(Message)
      BY ConcatProperties DEF TypeInv, TypeOK
    <3>2. Line = front \o queue
      BY DEF Line
    <3> HIDE DEF front
    <3>3. /\ Len(front) + i \in DOMAIN Line /\ Line[Len(front) + i] = queue[i]
      <4>1. /\ DOMAIN (front \o queue) = 1 .. Len(front) + Len(queue)
            /\ Len(front) \in Nat /\ Len(queue) \in Nat /\ DOMAIN queue = 1 .. Len(queue)
            /\ \A j \in 1 .. Len(queue) : (front \o queue)[Len(front) + j] = queue[j]
        BY <3>1, Concatenated
      <4> QED
        BY <3>2, <4>1
    <3> QED
      BY <3>3 DEF OvertakeInv, Numbered
  <2>4. ASSUME NEW m \in Waiting(t)' PROVE m.deliver_at <= virtual_now' + step'[t]
    <3>1. m \in InLine
      BY <2>1 DEF Waiting, InLine
    <3>2. m.deliver_at \in Nat /\ m.deliver_at <= virtual_now + latency
      BY <3>1, DurationAssumption, TypeInLine DEF FlushInv, Message, Duration
    <3> QED
      BY <1>t, <2>1, <2>2, <3>2
  <2>5. FlushOf(t)'
    BY <2>1, <2>2, <2>3, <2>4 DEF FlushOf
  <2> QED
    BY <1>s, <1>t, <2>1, <2>5
<1>5. ASSUME NEW t \in Threads, pc[t] = "idle", NEW by \in Nat, LockAndAdvance(t, by, "idle")
      PROVE  \A u \in Threads : FlushOf(u)'
  <2>1. /\ pc' = [pc EXCEPT ![t] = "drain"] /\ ret' = [ret EXCEPT ![t] = "idle"]
        /\ step' = [step EXCEPT ![t] = 0] /\ goal' = goal
    BY <1>5 DEF LockAndAdvance
  <2>2. FlushOf(t)'
    <3>1. goal'[t] = {} /\ pc'[t] # "step"
      BY <1>0, <1>5, <1>t, <2>1 DEF FlushOf
    <3> QED
      BY <3>1, IdleWaitsForNothing
  <2> QED
    BY <1>s, <1>t, <2>1, <2>2
<1>6. ASSUME NEW t \in Threads, pc[t] = "step", LockAndAdvance(t, step[t], "flush")
      PROVE  \A u \in Threads : FlushOf(u)'
  <2>1. /\ pc' = [pc EXCEPT ![t] = "drain"] /\ ret' = [ret EXCEPT ![t] = "flush"]
        /\ step' = [step EXCEPT ![t] = 0]
        /\ UNCHANGED <<goal, sent, queue, survivors>>
        /\ virtual_now' = virtual_now + step[t]
    BY <1>6 DEF LockAndAdvance
  <2>2. pc'[t] = "drain" /\ ret'[t] = "flush" /\ Waiting(t)' = Waiting(t)
    BY <1>t, <2>1 DEF Waiting, InLine
  <2>3. FlushOf(t)'
    BY <1>0, <1>6, <2>1, <2>2 DEF FlushOf
  <2> QED
    BY <1>s, <1>t, <2>1, <2>3
<1>7. ASSUME NEW t \in Threads, Drained(t) PROVE \A u \in Threads : FlushOf(u)'
  <2>1. /\ pc[t] = "drain" /\ pc' = [pc EXCEPT ![t] = "land"]
        /\ queue = <<>> /\ queue' = survivors /\ survivors' = <<>>
        /\ UNCHANGED <<ret, step, goal, sent, virtual_now>>
    BY <1>7 DEF Drained
  <2>2. pc'[t] = "land"
    BY <1>t, <2>1
  <2>3. CASE ret[t] = "idle"
    <3>1. goal'[t] = {}
      BY <1>0, <2>1, <2>3 DEF FlushOf
    <3> QED
      BY <1>s, <1>t, <2>1, <2>2, <3>1, IdleWaitsForNothing
  <2>4. CASE ret[t] = "flush"
    <3>1. InLine' = Range(survivors)
      BY <2>1 DEF InLine, Range
    <3>2. ASSUME NEW m \in Waiting(t)' PROVE FALSE
      <4>1. m \in Range(survivors) /\ m.n \in goal[t]
        BY <2>1, <3>1, <3>2 DEF Waiting
      <4>2. m \in Waiting(t) /\ m.deliver_at \in Nat
        BY <4>1, DurationAssumption, TypeInLine DEF Waiting, InLine, Message, Duration
      <4>3. m.deliver_at <= virtual_now
        BY <1>0, <2>1, <2>4, <4>2 DEF FlushOf
      <4>4. m.deliver_at > virtual_now
        BY <4>1 DEF OvertakeInv, Range
      <4> QED
        BY <1>t, <4>2, <4>3, <4>4
    <3>3. FlushOf(t)'
      BY <1>0, <2>1, <2>2, <2>4, <3>2 DEF FlushOf
    <3> QED
      BY <1>s, <1>t, <2>1, <3>3
  <2> QED
    BY <1>t, <2>3, <2>4
<1>8. ASSUME NEW t \in Threads, Unlock(t) PROVE \A u \in Threads : FlushOf(u)'
  <2>1. /\ pc[t] = "land" /\ pc' = [pc EXCEPT ![t] = ret[t]]
        /\ ret' = [ret EXCEPT ![t] = "idle"]
        /\ UNCHANGED <<step, goal, sent, queue, survivors, virtual_now>>
    BY <1>8 DEF Unlock
  <2>2. pc'[t] = ret[t] /\ Waiting(t)' = Waiting(t)
    BY <1>t, <2>1 DEF Waiting, InLine
  <2>3. FlushOf(t)'
    <3>1. CASE ret[t] = "idle"
      <4>1. goal'[t] = {} /\ pc'[t] # "step"
        BY <1>0, <2>1, <2>2, <3>1 DEF FlushOf
      <4> QED
        BY <4>1, IdleWaitsForNothing
    <3>2. CASE ret[t] = "flush"
      BY <1>0, <2>1, <2>2, <3>2 DEF FlushOf
    <3> QED
      BY <1>t, <3>1, <3>2
  <2> QED
    BY <1>s, <1>t, <2>1, <2>3
<1>9. ASSUME \/ \E t \in Threads : Drain(t) \/ Push(t) \/ NextMessage(t)
             \/ \E e \in Registered : Send(e) \/ TryRecv(e)
             \/ \E l \in Latencies : SetLatency(l)
             \/ \E r \in Rates : SetDropRate(r) \/ SetReorderRate(r)
             \/ \E up \in BOOLEAN : SetConnected(up)
             \/ Stats
             \/ UNCHANGED vars
      PROVE  \A u \in Threads : FlushOf(u)'
  BY <1>n, <1>9 DEF Drain, Push, NextMessage, Send, SendQueued, SendDropped, SendOverflows, TryRecv,
                    SetLatency, SetDropRate, SetReorderRate, SetConnected, Stats, vars
<1>10. ASSUME NEW t \in Threads, FlushStep(t) \/ \E by \in Steps : Advance(t, by)
       PROVE  \A u \in Threads : FlushOf(u)'
  <2>1. step[t] \in Nat /\ \A by \in Steps : by \in Nat
    BY <1>t, DurationAssumption DEF Duration
  <2> QED
    BY <1>3, <1>5, <1>6, <1>10, <2>1 DEF FlushStep, Advance
<1> QED
  BY <1>1, <1>3, <1>4, <1>7, <1>8, <1>9, <1>10
  DEF Next, PairCall, DeliverDue, Flush, PanicAtCall

\* The controller may raise the latency, never lower it.
LatencyNeverLowered == [][latency' >= latency]_vars

\* One round of flush delivers all it saw in flight, whatever other threads
\* send, advance and flush meanwhile, provided nobody lowers the latency: a
\* round steps by the latency it read, and deadlines are at most that far off.
THEOREM RoundsLandAll == Spec /\ LatencyNeverLowered => []RoundLandsAll
<1>1. Init => FlushInv
  BY DEF Init, FlushInv, FlushOf, InLine, Waiting, Range
<1>2. TypeInv /\ OvertakeInv /\ FlushInv /\ [Next]_vars /\ [latency' >= latency]_vars => FlushInv'
  <2> SUFFICES ASSUME TypeInv, OvertakeInv, FlushInv, [Next]_vars, [latency' >= latency]_vars
               PROVE  FlushInv'
    OBVIOUS
  <2>1. latency \in Nat
    BY DurationAssumption DEF TypeInv, TypeOK, Duration
  <2>2. latency' >= latency
    BY <2>1 DEF vars, config
  <2> QED
    BY <2>2, NextFlushInv
<1>3. TypeInv /\ FlushInv => RoundLandsAll
  <2> SUFFICES ASSUME TypeInv, FlushInv, NEW t \in Threads, pc[t] = "flush"
               PROVE  goal[t] \cap {(queue \o survivors)[i].n :
                                      i \in DOMAIN (queue \o survivors)} = {}
    BY DEF RoundLandsAll
  <2>1. Waiting(t) = {}
    BY DEF FlushInv, FlushOf
  <2>2. Range(queue \o survivors) = InLine
    BY RangeConcatenation DEF TypeInv, TypeOK, InLine
  <2> QED
    BY <2>1, <2>2 DEF Waiting, Range
<1> QED
  BY <1>1, <1>2, <1>3, InitTypeInv, NextTypeInv, OvertakeInvAlways, PTL
  DEF Spec, LatencyNeverLowered

=============================================================================
