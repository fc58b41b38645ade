---------------------------- MODULE MidiPortProofs ----------------------------
(***************************************************************************)
(* Theorems about MidiPort for every value of its constants: any number of *)
(* producers and consumers, gestures of any length.                        *)
(***************************************************************************)
EXTENDS MidiPort, Lemmas

-----------------------------------------------------------------------------
(* Types and the mutex *)

LEMMA PushBackType ==
    ASSUME TypeOK, NEW t \in Producers, NEW g \in 1 .. MaxGestures, NEW k \in 1 .. MaxSize,
           PushBack(<<t, g, k>>)
    PROVE  /\ <<t, g, k>> \in Messages
           /\ input_queue' \in Seq(Messages) /\ injected' \in Seq(Messages)
<1>1. <<t, g, k>> \in Messages
  BY DEF Messages
<1> QED
  BY <1>1, AppendProperties DEF PushBack, TypeOK

\* A thread inside inject_all has begun a call, which its messages are named after.
Begun == \A t \in Producers : pc[t] = "gesture" => gestures[t] # 0

TypeInv == TypeOK /\ Begun

LEMMA Bounds ==
    /\ MaxGestures \in Nat /\ MaxSize \in Nat \ {0} /\ MaxSent \in Nat
    /\ Nobody \notin Threads /\ Producers \cap Consumers = {}
BY MidiPortAssumption DEF Nobody, Threads

LEMMA InitTypeInv == Init => TypeInv
<1> SUFFICES ASSUME Init PROVE TypeInv
  OBVIOUS
<1>1. /\ input_queue \in Seq(Messages) /\ injected \in Seq(Messages)
      /\ received \in Seq(Messages)
      /\ output_queue \in Seq(1 .. MaxSent) /\ drained \in Seq(1 .. MaxSent)
  BY EmptySeq DEF Init
<1>2. \A t \in Threads : pc[t] = "ready" /\ holder # t
  BY Bounds DEF Init
<1>3. 0 \in 0 .. MaxSize /\ 0 \in 0 .. MaxGestures /\ 0 \in 0 .. MaxSent
  BY Bounds
<1>4. /\ pc \in [Threads -> {"ready", "gesture", "dead"}]
      /\ left \in [Producers -> 0 .. MaxSize] /\ gestures \in [Producers -> 0 .. MaxGestures]
  BY <1>3 DEF Init
<1>5. /\ sent \in 0 .. MaxSent /\ closed \in BOOLEAN /\ poisoned \in BOOLEAN
      /\ holder \in Producers \cup {Nobody}
  BY <1>3 DEF Init
<1>6. TypeOK
  BY <1>1, <1>2, <1>4, <1>5 DEF TypeOK
<1>7. Begun
  BY <1>2 DEF Begun, Threads
<1> QED
  BY <1>6, <1>7 DEF TypeInv

LEMMA NextTypeInv == TypeInv /\ [Next]_vars => TypeInv'
<1> SUFFICES ASSUME TypeInv, [Next]_vars PROVE TypeInv'
  OBVIOUS
<1> USE DEF TypeInv, TypeOK, Begun, Threads
<1>a. /\ MaxGestures \in Nat /\ MaxSize \in Nat \ {0} /\ MaxSent \in Nat
      /\ Nobody \notin Threads /\ Producers \cap Consumers = {}
  BY Bounds
<1>1. ASSUME NEW t \in Threads, Panic(t) PROVE TypeInv'
  BY <1>1, <1>a DEF Panic, inbound, outbound, mutex
<1>2. ASSUME NEW t \in Threads, Close(t) PROVE TypeInv'
  BY <1>2 DEF Close, inbound, outbound, mutex, calls
<1>3. ASSUME NEW t \in Producers, Inject(t) PROVE TypeInv'
  <2>1. gestures[t] + 1 \in 1 .. MaxGestures /\ 1 \in 1 .. MaxSize
    BY SMTT(30), <1>3, <1>a DEF Inject
  <2>2. input_queue' \in Seq(Messages) /\ injected' \in Seq(Messages)
    BY <1>3, <2>1, PushBackType DEF Inject
  <2>3. /\ gestures' \in [Producers -> 0 .. MaxGestures]
        /\ \A u \in Producers : gestures[u] # 0 => gestures'[u] # 0
    BY SMTT(30), <1>3, <2>1, <1>a DEF Inject
  <2> QED
    BY <1>3, <2>2, <2>3 DEF Inject, outbound, mutex
<1>4. ASSUME NEW t \in Producers, DrainOutput(t) PROVE TypeInv'
  <2>1. output_queue' \in Seq(1 .. MaxSent) /\ drained' \in Seq(1 .. MaxSent)
    BY <1>4, ConcatProperties, EmptySeq DEF DrainOutput
  <2> QED
    BY <1>4, <2>1 DEF DrainOutput, inbound, mutex, calls
<1>5. ASSUME NEW t \in Producers, BeginGesture(t) PROVE TypeInv'
  <2>1. /\ gestures' \in [Producers -> 0 .. MaxGestures]
        /\ gestures'[t] # 0 /\ \A u \in Producers : gestures[u] # 0 => gestures'[u] # 0
    BY SMTT(30), <1>5, <1>a DEF BeginGesture
  <2>2. left' \in [Producers -> 0 .. MaxSize]
    BY <1>5 DEF BeginGesture
  <2>3. /\ holder' \in Producers \cup {Nobody}
        /\ pc' \in [Threads -> {"ready", "gesture", "dead"}]
        /\ \A u \in Threads : pc'[u] = "gesture" <=> holder' = u
    BY <1>5, <1>a DEF BeginGesture, Locks
  <2> QED
    BY <1>5, <2>1, <2>2, <2>3 DEF BeginGesture, inbound, outbound
<1>6. ASSUME NEW t \in Producers, Extend(t) PROVE TypeInv'
  <2>1. gestures[t] \in 1 .. MaxGestures /\ left[t] \in 1 .. MaxSize
    BY <1>6, <1>a DEF Extend
  <2>2. input_queue' \in Seq(Messages) /\ injected' \in Seq(Messages)
    BY <1>6, <2>1, PushBackType DEF Extend
  <2>3. left' \in [Producers -> 0 .. MaxSize]
    BY <1>6, <2>1, <1>a DEF Extend
  <2> QED
    BY <1>6, <2>2, <2>3 DEF Extend, outbound, mutex
<1>7. ASSUME NEW t \in Producers, EndGesture(t) PROVE TypeInv'
  BY <1>7, <1>a DEF EndGesture, inbound, outbound
<1>8. ASSUME NEW t \in Producers, IteratorPanics(t) PROVE TypeInv'
  BY <1>8, <1>a DEF IteratorPanics, inbound, outbound
<1>9. ASSUME NEW t \in Consumers, TryRecv(t) PROVE TypeInv'
  <2>1. received' \in Seq(Messages) /\ input_queue' \in Seq(Messages)
    BY <1>9, HandOn DEF TryRecv
  <2> QED
    BY <1>9, <2>1 DEF TryRecv, outbound, mutex, calls
<1>10. ASSUME NEW t \in Consumers, Send(t) PROVE TypeInv'
  <2>1. sent' \in 0 .. MaxSent /\ sent + 1 \in 1 .. MaxSent
    BY <1>10, <1>a DEF Send
  <2>2. output_queue' \in Seq(1 .. MaxSent)
    BY <1>10, <2>1, AppendProperties DEF Send
  <2> QED
    BY <1>10, <2>1, <2>2 DEF Send, inbound, mutex, calls
<1>11. CASE UNCHANGED vars
  BY <1>11 DEF vars, inbound, outbound, mutex, calls
<1> QED
  BY <1>1, <1>2, <1>3, <1>4, <1>5, <1>6, <1>7, <1>8, <1>9, <1>10, <1>11 DEF Next, Ended

\* The queues and locals have their types, and the mutex is held exactly by
\* the thread inside inject_all: there is never a second one.
THEOREM TypeCorrect == Spec => []TypeOK
<1>1. Spec => []TypeInv
  BY InitTypeInv, NextTypeInv, PTL DEF Spec
<1> QED
  BY <1>1, PTL DEF TypeInv

-----------------------------------------------------------------------------
(* Nothing is lost, repeated or reordered *)

Numbers(n) == [i \in 1 .. n |-> i]

LEMMA NumbersGrow ==
    ASSUME NEW n \in Nat
    PROVE  Numbers(n + 1) = Append(Numbers(n), n + 1)
<1>1. Numbers(n) \in Seq(Nat) /\ Numbers(n + 1) \in Seq(Nat)
  BY DEF Numbers
<1>2. Len(Numbers(n)) = n /\ Len(Numbers(n + 1)) = n + 1
  BY <1>1, LenProperties DEF Numbers
<1>3. Append(Numbers(n), n + 1) \in Seq(Nat) /\ Len(Append(Numbers(n), n + 1)) = n + 1
  BY <1>1, <1>2, AppendProperties
<1>4. \A i \in 1 .. n + 1 : Numbers(n + 1)[i] = Append(Numbers(n), n + 1)[i]
  BY <1>1, <1>2, AppendProperties DEF Numbers
<1> QED
  BY <1>1, <1>2, <1>3, <1>4, SeqEqual

LEMMA InitLossless == Init => Lossless
<1> SUFFICES ASSUME Init PROVE Lossless
  OBVIOUS
<1>1. <<>> \o <<>> = <<>> /\ [i \in 1 .. 0 |-> i] = <<>>
  OBVIOUS
<1> QED
  BY <1>1 DEF Init, Lossless

LEMMA NextLossless == TypeInv /\ Lossless /\ [Next]_vars => Lossless'
<1> SUFFICES ASSUME TypeInv, Lossless, [Next]_vars PROVE Lossless'
  OBVIOUS
<1>a. TypeOK /\ Begun
  BY DEF TypeInv
<1>1. ASSUME NEW m \in Messages, PushBack(m)
      PROVE  received \o input_queue' = injected'
  <2>1. received \in Seq(Messages) /\ input_queue \in Seq(Messages)
    BY <1>a DEF TypeOK
  <2>2. received \o Append(input_queue, m) = Append(received \o input_queue, m)
    BY <2>1, ConcatAppend
  <2> QED
    BY <1>1, <2>2 DEF PushBack, Lossless
<1>2. ASSUME NEW t \in Producers, Inject(t) PROVE Lossless'
  <2>1. <<t, gestures[t] + 1, 1>> \in Messages
    <3>1. gestures[t] + 1 \in 1 .. MaxGestures /\ 1 \in 1 .. MaxSize
      BY SMTT(30), <1>a, <1>2, Bounds DEF Inject, TypeOK
    <3> QED
      BY <3>1 DEF Messages
  <2> QED
    BY <1>1, <1>2, <2>1 DEF Inject, outbound, Lossless
<1>3. ASSUME NEW t \in Producers, Extend(t) PROVE Lossless'
  <2>1. <<t, gestures[t], left[t]>> \in Messages
    <3>1. gestures[t] \in 1 .. MaxGestures /\ left[t] \in 1 .. MaxSize
      BY SMTT(30), <1>a, <1>3, Bounds DEF Extend, TypeOK, Begun
    <3> QED
      BY <3>1 DEF Messages
  <2> QED
    BY <1>1, <1>3, <2>1 DEF Extend, outbound, Lossless
<1>4. ASSUME NEW t \in Producers, DrainOutput(t) PROVE Lossless'
  <2>1. drained' \o output_queue' = drained \o output_queue
    BY <1>a, <1>4, ConcatProperties, ConcatEmptySeq DEF DrainOutput, TypeOK
  <2> QED
    BY <1>4, <2>1 DEF DrainOutput, inbound, Lossless
<1>5. ASSUME NEW t \in Consumers, TryRecv(t) PROVE Lossless'
  <2>1. received' \o input_queue' = received \o input_queue
    BY <1>a, <1>5, HandOn DEF TryRecv, TypeOK
  <2> QED
    BY <1>5, <2>1 DEF TryRecv, outbound, Lossless
<1>6. ASSUME NEW t \in Consumers, Send(t) PROVE Lossless'
  <2>1. sent \in Nat /\ sent + 1 \in 1 .. MaxSent
    BY <1>a, <1>6, Bounds DEF Send, TypeOK
  <2>2. drained \o output_queue' = Append(Numbers(sent), sent + 1)
    <3>1. drained \in Seq(1 .. MaxSent) /\ output_queue \in Seq(1 .. MaxSent)
      BY <1>a DEF TypeOK
    <3>2. drained \o Append(output_queue, sent + 1) = Append(drained \o output_queue, sent + 1)
      BY <2>1, <3>1, ConcatAppend
    <3> QED
      BY <1>6, <3>2 DEF Send, Lossless, Numbers
  <2>3. drained' \o output_queue' = Numbers(sent')
    BY <1>6, <2>1, <2>2, NumbersGrow DEF Send
  <2> QED
    BY <1>6, <2>3 DEF Send, inbound, Lossless, Numbers
<1>7. CASE UNCHANGED <<inbound, outbound>>
  BY <1>7 DEF inbound, outbound, Lossless
<1> QED
  BY <1>2, <1>3, <1>4, <1>5, <1>6, <1>7
  DEF Next, Panic, Close, BeginGesture, EndGesture, IteratorPanics, Ended, vars

\* What was received and what waits is what was injected, in order, and what
\* was drained and what waits is what was sent, however threads interleave and
\* wherever an iterator panics.
THEOREM NothingLost == Spec => []Lossless
<1> QED
  BY InitTypeInv, NextTypeInv, InitLossless, NextLossless, PTL DEF Spec

-----------------------------------------------------------------------------
(* Gestures stay whole *)

\* No message is named after a call that has not begun.
Named == \A i \in DOMAIN injected : injected[i][2] <= gestures[injected[i][1]]

\* After the first message of the gesture under way come only its thread's.
OwnTail ==
    \A i, j \in DOMAIN injected :
        LET t == injected[i][1] IN
        (i <= j /\ pc[t] = "gesture" /\ injected[i][2] = gestures[t]) => injected[j][1] = t

WholeInv == Named /\ OwnTail /\ GesturesWhole

LEMMA InitWholeInv == Init => WholeInv
BY DEF Init, WholeInv, Named, OwnTail, GesturesWhole

\* A message of a call that is under way or has only begun, pushed by the
\* thread that holds the mutex or that nobody holds it against.
LEMMA PushKeepsWhole ==
    ASSUME TypeInv, TypeInv', WholeInv,
           NEW t \in Producers, NEW g \in 1 .. MaxGestures, NEW k \in 1 .. MaxSize,
           PushBack(<<t, g, k>>), pc' = pc,
           g = gestures'[t], \A u \in Producers : u # t => gestures'[u] = gestures[u],
           \A u \in Producers : u # t => pc[u] # "gesture",
           \/ g = gestures[t] /\ pc[t] = "gesture"
           \/ g = gestures[t] + 1 /\ pc[t] # "gesture"
    PROVE  WholeInv'
<1> DEFINE n == Len(injected)
<1>a. TypeOK /\ TypeOK'
  BY DEF TypeInv
<1>1. /\ n \in Nat /\ DOMAIN injected = 1 .. n /\ DOMAIN injected' = 1 .. n + 1
      /\ injected'[n + 1] = <<t, g, k>> /\ \A i \in 1 .. n : injected'[i] = injected[i]
  <2>1. injected \in Seq(Messages) /\ <<t, g, k>> \in Messages
    BY <1>a DEF TypeOK, Messages
  <2>2. injected' = Append(injected, <<t, g, k>>)
    BY DEF PushBack
  <2> QED
    BY <2>1, <2>2, AppendProperties, LenProperties
<1>2. \A i \in 1 .. n : /\ injected[i][1] \in Producers /\ injected[i][2] \in 1 .. MaxGestures
                        /\ injected[i][2] <= gestures[injected[i][1]]
  <2>1. \A i \in 1 .. n : injected[i] \in Messages
    BY <1>a, <1>1, ElementOfSeq DEF TypeOK
  <2> QED
    BY <1>1, <2>1 DEF Messages, WholeInv, Named
<1>3. /\ gestures \in [Producers -> 0 .. MaxGestures]
      /\ MaxGestures \in Nat
  BY <1>a, Bounds DEF TypeOK
<1> HIDE DEF n
<1>4. Named'
  <2>1. \A u \in Producers : gestures[u] <= gestures'[u]
    BY <1>3
  <2>2. \A i \in 1 .. n : injected'[i][2] <= gestures'[injected'[i][1]]
    <3> TAKE i \in 1 .. n
    <3>1. /\ injected'[i] = injected[i] /\ injected[i][1] \in Producers
          /\ injected[i][2] \in 1 .. MaxGestures /\ injected[i][2] <= gestures[injected[i][1]]
      BY <1>1, <1>2
    <3>2. gestures[injected[i][1]] <= gestures'[injected[i][1]]
      BY <2>1, <3>1
    <3>3. /\ gestures[injected[i][1]] \in 0 .. MaxGestures
          /\ gestures'[injected[i][1]] \in 0 .. MaxGestures
      BY <1>a, <3>1 DEF TypeOK
    <3> QED
      BY <1>3, <3>1, <3>2, <3>3
  <2>3. injected'[n + 1][2] <= gestures'[injected'[n + 1][1]]
    BY <1>1
  <2> QED
    BY <1>1, <2>2, <2>3 DEF Named
<1>5. \* Earlier messages of this call are followed by none of another thread.
      \A i, j \in 1 .. n : 
        (i <= j /\ injected[i][1] = t /\ injected[i][2] = g) => injected[j][1] = t
  <2> SUFFICES ASSUME NEW i \in 1 .. n, NEW j \in 1 .. n,
                      i <= j, injected[i][1] = t, injected[i][2] = g
               PROVE  injected[j][1] = t
    OBVIOUS
  <2>1. injected[i][2] <= gestures[t] /\ gestures[t] \in 0 .. MaxGestures
    BY <1>2, <1>3
  <2>2. g = gestures[t] /\ pc[t] = "gesture"
    BY <1>3, <2>1
  <2>3. OwnTail
    BY DEF WholeInv
  <2> QED
    BY <1>1, <2>2, <2>3 DEF OwnTail
<1>6. OwnTail'
  <2> SUFFICES ASSUME NEW i \in 1 .. n + 1, NEW j \in 1 .. n + 1, i <= j,
                      pc[injected'[i][1]] = "gesture",
                      injected'[i][2] = gestures'[injected'[i][1]]
               PROVE  injected'[j][1] = injected'[i][1]
    BY <1>1 DEF OwnTail
  <2>1. injected'[i][1] \in Producers
    BY <1>1, <1>2
  <2>2. injected'[i][1] = t
    BY <2>1
  <2>3. CASE j = n + 1
    BY <1>1, <2>2, <2>3
  <2>4. CASE j # n + 1
    <3>1. i \in 1 .. n /\ j \in 1 .. n
      BY <1>1, <2>4
    <3> QED
      BY <1>1, <1>5, <2>2, <3>1
  <2> QED
    BY <2>3, <2>4
<1>7. GesturesWhole'
  <2> SUFFICES ASSUME NEW i \in 1 .. n + 1, NEW l \in 1 .. n + 1, i < l,
                      injected'[i][1] = injected'[l][1], injected'[i][2] = injected'[l][2],
                      NEW j \in i .. l
               PROVE  injected'[j][1] = injected'[i][1]
    BY <1>1 DEF GesturesWhole
  <2>1. CASE l # n + 1
    <3>1. i \in 1 .. n /\ l \in 1 .. n /\ j \in 1 .. n
      BY <1>1, <2>1
    <3>2. /\ injected'[i] = injected[i] /\ injected'[l] = injected[l]
          /\ injected'[j] = injected[j]
      BY <1>1, <3>1
    <3>3. i \in DOMAIN injected /\ l \in DOMAIN injected
      BY <1>1, <3>1
    <3>4. injected[i][1] = injected[l][1] /\ injected[i][2] = injected[l][2]
      BY <3>2
    <3>5. \A m \in i .. l : injected[m][1] = injected[i][1]
      BY <3>3, <3>4 DEF WholeInv, GesturesWhole
    <3> QED
      BY <3>2, <3>5
  <2>2. CASE l = n + 1
    <3>1. i \in 1 .. n /\ injected[i][1] = t /\ injected[i][2] = g
      BY <1>1, <2>2
    <3>2. CASE j = n + 1
      BY <1>1, <3>1, <3>2
    <3>3. CASE j # n + 1
      <4>1. j \in 1 .. n /\ i <= j
        BY <1>1, <2>2, <3>1, <3>3
      <4> QED
        BY <1>1, <1>5, <3>1, <4>1
    <3> QED
      BY <3>2, <3>3
  <2> QED
    BY <2>1, <2>2
<1> QED
  BY <1>4, <1>6, <1>7 DEF WholeInv

LEMMA NextWholeInv == TypeInv /\ TypeInv' /\ WholeInv /\ [Next]_vars => WholeInv'
<1> SUFFICES ASSUME TypeInv, TypeInv', WholeInv, [Next]_vars PROVE WholeInv'
  OBVIOUS
<1>a. TypeOK /\ Begun
  BY DEF TypeInv
<1>b. \A i \in DOMAIN injected : injected[i][1] \in Producers /\ injected[i][2] \in Nat
  <2>1. injected \in Seq(Messages) /\ MaxGestures \in Nat
    BY <1>a, Bounds DEF TypeOK
  <2>2. \A i \in DOMAIN injected : injected[i] \in Messages
    BY <2>1, LenProperties, ElementOfSeq
  <2> QED
    BY <2>1, <2>2 DEF Messages
<1>c. gestures \in [Producers -> 0 .. MaxGestures] /\ pc \in [Threads -> {"ready", "gesture", "dead"}]
  BY <1>a DEF TypeOK
<1>1. ASSUME NEW t \in Producers, Inject(t) PROVE WholeInv'
  <2>1. gestures[t] + 1 \in 1 .. MaxGestures /\ 1 \in 1 .. MaxSize
    BY <1>1, <1>c, Bounds DEF Inject
  <2>2. \A u \in Producers : pc[u] # "gesture"
    BY <1>1, <1>a, Bounds DEF Inject, Locks, TypeOK, Threads
  <2>3. /\ gestures'[t] = gestures[t] + 1 /\ pc' = pc
        /\ \A u \in Producers : u # t => gestures'[u] = gestures[u]
        /\ PushBack(<<t, gestures[t] + 1, 1>>)
    BY <1>1, <1>c DEF Inject
  <2> QED
    BY <2>1, <2>2, <2>3, PushKeepsWhole
<1>2. ASSUME NEW t \in Producers, Extend(t) PROVE WholeInv'
  <2>1. gestures[t] \in 1 .. MaxGestures /\ left[t] \in 1 .. MaxSize
    BY SMTT(30), <1>a, <1>2, Bounds DEF Extend, TypeOK, Begun
  <2>2. pc[t] = "gesture" /\ \A u \in Producers : u # t => pc[u] # "gesture"
    BY <1>2, <1>a DEF Extend, TypeOK, Threads
  <2>3. gestures' = gestures /\ pc' = pc /\ PushBack(<<t, gestures[t], left[t]>>)
    BY <1>2 DEF Extend
  <2> QED
    BY <2>1, <2>2, <2>3, PushKeepsWhole
<1>3. ASSUME NEW t \in Producers, BeginGesture(t) PROVE WholeInv'
  <2>1. /\ injected' = injected /\ gestures'[t] = gestures[t] + 1
        /\ \A u \in Producers : u # t => gestures'[u] = gestures[u] /\ pc'[u] = pc[u]
    BY <1>3, <1>c DEF BeginGesture, inbound, Threads
  <2>2. Named'
    BY <1>b, <1>c, <2>1, Bounds DEF WholeInv, Named
  <2>3. \A u \in Producers : u # t => pc'[u] # "gesture"
    BY <1>3, <1>a, <2>1, Bounds DEF BeginGesture, Locks, TypeOK, Threads
  <2>4. \A i \in DOMAIN injected : injected[i][1] = t => injected[i][2] # gestures'[t]
    BY <1>b, <1>c, <2>1, Bounds DEF WholeInv, Named
  <2>5. OwnTail'
    BY <1>b, <2>1, <2>3, <2>4 DEF OwnTail
  <2> QED
    BY <2>1, <2>2, <2>5 DEF WholeInv, GesturesWhole
<1>4. CASE /\ injected' = injected /\ gestures' = gestures
           /\ \A u \in Threads : pc'[u] = "gesture" => pc[u] = "gesture"
  BY <1>4, <1>b DEF WholeInv, Named, OwnTail, GesturesWhole, Threads
<1>5. ASSUME NEW t \in Threads, Panic(t) \/ Close(t) PROVE WholeInv'
  BY <1>4, <1>5, <1>c DEF Panic, Close, inbound, calls
<1>6. ASSUME NEW t \in Producers, EndGesture(t) \/ IteratorPanics(t) \/ DrainOutput(t)
      PROVE  WholeInv'
  BY <1>4, <1>6, <1>c DEF EndGesture, IteratorPanics, DrainOutput, inbound, calls
<1>7. ASSUME NEW t \in Consumers, TryRecv(t) \/ Send(t) PROVE WholeInv'
  BY <1>4, <1>7 DEF TryRecv, Send, inbound, calls
<1>8. CASE UNCHANGED vars
  BY <1>4, <1>8 DEF vars, inbound, calls
<1> QED
  BY <1>1, <1>2, <1>3, <1>5, <1>6, <1>7, <1>8 DEF Next, Ended

\* A gesture is one run of messages in the order of injection: whoever else
\* injects waits for the mutex, however long the iterator takes.
THEOREM NobodyBreaksIn == Spec => []GesturesWhole
<1>1. TypeInv /\ WholeInv /\ [Next]_vars => (TypeInv /\ WholeInv)'
  BY NextTypeInv, NextWholeInv
<1>2. Spec => [](TypeInv /\ WholeInv)
  BY <1>1, InitTypeInv, InitWholeInv, PTL DEF Spec
<1> QED
  BY <1>2, PTL DEF WholeInv
-----------------------------------------------------------------------------
(* Wire bytes *)

LEMMA Masks ==
    ASSUME NEW x \in Nat, x < 256
    PROVE  x % 128 \in 0 .. 127 /\ x % 16 \in 0 .. 15
OBVIOUS

\* The high nibbles of the voice messages, and what may follow a status byte.
Kinds == {128, 144, 176, 192, 224}

DataBytes == 0 .. 127

\* A status byte splits into its kind and its channel again.
LEMMA StatusSplits ==
    ASSUME NEW c \in Nat, c < 256, NEW kind \in Kinds
    PROVE  /\ Voice(kind, c) % 16 = c % 16 /\ Voice(kind, c) = kind + (c % 16)
           /\ Voice(kind, c) \in 128 .. 239 /\ (Voice(kind, c) \in 144 .. 159 <=> kind = 144)
<1>1. c % 16 \in 0 .. 15
  BY Masks
<1>2. Voice(kind, c) = kind + (c % 16)
  BY DEF Voice
<1>3. ASSUME NEW s \in 0 .. 15
      PROVE  /\ (128 + s) % 16 = s /\ (144 + s) % 16 = s /\ (176 + s) % 16 = s
             /\ (192 + s) % 16 = s /\ (224 + s) % 16 = s
  OBVIOUS
<1>4. (kind + (c % 16)) % 16 = c % 16
  BY <1>1, <1>3 DEF Kinds
<1> QED
  BY <1>1, <1>2, <1>4 DEF Kinds

\* A message with such a status byte and with data bytes after it.
LEMMA VoiceWellFormed ==
    ASSUME NEW c \in Nat, c < 256, NEW kind \in Kinds,
           NEW m, m.bytes # <<>>, m.bytes[1] = Voice(kind, c),
           \A i \in 2 .. Len(m.bytes) : m.bytes[i] \in 0 .. 127
    PROVE  WellFormed(m, kind, c)
<1>1. status(m) = Voice(kind, c)
  BY DEF status
<1>2. channel(m) = c % 16
  <2>1. status(m) \in 128 .. 239 /\ status(m) % 16 = c % 16
    BY <1>1, StatusSplits
  <2> QED
    BY <2>1, Zenon DEF channel
<1>3. status(m) = kind + channel(m)
  <2>1. Voice(kind, c) = kind + (c % 16)
    BY DEF Voice
  <2> QED
    BY <1>1, <1>2, <2>1, Zenon
<1>4. is_note_on(m) <=> kind = 144
  <2>1. status(m) \in 144 .. 159 <=> kind = 144
    BY <1>1, StatusSplits
  <2> QED
    BY <2>1, Zenon DEF is_note_on
<1> QED
  BY <1>2, <1>3, <1>4, Zenon DEF WellFormed

LEMMA ThreeBytes ==
    ASSUME NEW c \in Nat, c < 256, NEW kind \in Kinds,
           NEW x \in DataBytes, NEW y \in DataBytes
    PROVE  WellFormed(new(<<Voice(kind, c), x, y>>), kind, c)
<1> DEFINE m == new(<<Voice(kind, c), x, y>>)
<1>1. m.bytes = <<Voice(kind, c), x, y>>
  BY DEF new
<1> HIDE DEF m
<1>2. m.bytes # <<>> /\ m.bytes[1] = Voice(kind, c)
  BY <1>1
<1>3. \A i \in 2 .. Len(m.bytes) : m.bytes[i] \in 0 .. 127
  <2>1. Len(m.bytes) = 3 /\ m.bytes[2] = x /\ m.bytes[3] = y
    BY <1>1
  <2>2. \A i \in 2 .. 3 : i = 2 \/ i = 3
    OBVIOUS
  <2>3. m.bytes[2] \in 0 .. 127 /\ m.bytes[3] \in 0 .. 127
    BY <2>1 DEF DataBytes
  <2> QED
    BY <2>1, <2>2, <2>3
<1>5. WellFormed(m, kind, c)
  BY <1>2, <1>3, VoiceWellFormed
<1> QED
  BY <1>5 DEF m

\* Every constructor of a voice message masks what it is given.
LEMMA VoiceIsRight ==
    ASSUME NEW c \in Octets, NEW x \in Octets, NEW y \in Octets
    PROVE  VoiceRight(c, x, y)
<1>1. c \in Nat /\ c < 256 /\ x % 128 \in DataBytes /\ y % 128 \in DataBytes
  BY MidiMessageAssumption, Masks DEF DataBytes
<1>2. /\ WellFormed(note_on(c, x, y), 144, c) /\ WellFormed(note_off(c, x, y), 128, c)
      /\ WellFormed(control_change(c, x, y), 176, c)
  <2>1. \A kind \in {128, 144, 176} :
            WellFormed(new(<<Voice(kind, c), x % 128, y % 128>>), kind, c)
    <3> TAKE kind \in {128, 144, 176}
    <3>1. kind \in Kinds
      BY DEF Kinds
    <3> QED
      BY <1>1, <3>1, ThreeBytes, Zenon
  <2> QED
    BY <2>1 DEF note_on, note_off, control_change
<1>3. WellFormed(program_change(c, x), 192, c)
  <2> DEFINE m == program_change(c, x)
  <2>1. m.bytes = <<Voice(192, c), x % 128>>
    BY DEF program_change, new
  <2>2. m.bytes # <<>> /\ m.bytes[1] = Voice(192, c)
    BY <2>1
  <2>3. \A i \in 2 .. Len(m.bytes) : m.bytes[i] \in 0 .. 127
    <3>1. Len(m.bytes) = 2 /\ m.bytes[2] = x % 128
      BY <2>1
    <3>2. \A i \in 2 .. 2 : i = 2
      OBVIOUS
    <3> QED
      BY <1>1, <3>1, <3>2 DEF DataBytes
  <2> HIDE DEF m
  <2>4. WellFormed(m, 192, c)
    BY <1>1, <2>2, <2>3, VoiceWellFormed DEF Kinds
  <2> QED
    BY <2>4 DEF m
<1>4. channel(sysex(<<x, y>>)) = None /\ ~is_note_on(sysex(<<x, y>>))
  <2>1. <<x, y>> \in Seq(Int) /\ <<240>> \in Seq(Int) /\ <<247>> \in Seq(Int)
    BY MidiMessageAssumption
  <2>2. status(sysex(<<x, y>>)) = 240
    <3> DEFINE bytes == (<<240>> \o <<x, y>>) \o <<247>>
    <3>1. /\ <<240>> \o <<x, y>> \in Seq(Int) /\ Len(<<240>> \o <<x, y>>) = 3
          /\ (<<240>> \o <<x, y>>)[1] = 240
      BY <2>1, ConcatProperties
    <3>2. bytes[1] = 240 /\ Len(bytes) = 4
      BY <2>1, <3>1, ConcatProperties
    <3>3. sysex(<<x, y>>).bytes = bytes
      BY DEF sysex, new
    <3>4. bytes # <<>>
      BY <3>2
    <3> HIDE DEF bytes
    <3> QED
      BY <3>2, <3>3, <3>4, Zenon DEF status
  <2> QED
    BY <2>2 DEF channel, is_note_on
<1>5. is_note_on(note_on(c, x, y))
  <2>1. status(note_on(c, x, y)) = Voice(144, c)
    BY DEF note_on, new, status
  <2>2. Voice(144, c) \in 144 .. 159
    BY <1>1, StatusSplits DEF Kinds
  <2> QED
    BY <2>1, <2>2 DEF is_note_on
<1> QED
  BY <1>2, <1>3, <1>4, <1>5 DEF VoiceRight

LEMMA BendIsRight ==
    ASSUME NEW c \in Octets, NEW v \in Values14
    PROVE  BendRight(c, v)
<1> DEFINE bend == pitch_bend(c, v)
           high == v \div 128
           low  == v % 128
<1>1. c \in Nat /\ c < 256 /\ v \in Nat /\ v < 65536
  BY MidiMessageAssumption
<1>2. bend.bytes = <<Voice(224, c), low, high % 256>>
  BY DEF pitch_bend, new
<1>3. status(bend) = Voice(224, c)
  BY <1>2 DEF status
<1>4. v = (128 * high) + low /\ low \in Nat /\ low < 128 /\ high \in Nat /\ high < 512
  BY <1>1
<1>5. bend.bytes[2] = low /\ bend.bytes[3] = high % 256
  BY <1>2
<1>6. bend = new(<<Voice(224, c), low, high % 256>>)
  BY DEF pitch_bend
<1> HIDE DEF bend, high, low
<1>7. channel(bend) = c % 16
  <2>1. 224 \in Kinds
    BY DEF Kinds
  <2>2. status(bend) \in 128 .. 239 /\ status(bend) % 16 = c % 16
    BY <1>1, <1>3, <2>1, StatusSplits
  <2> QED
    BY <2>2, Zenon DEF channel
<1>8. bend.bytes[2] + 128 * bend.bytes[3] = IF v < 32768 THEN v ELSE v - 32768
  <2>1. CASE v < 32768
    <3>1. high < 256
      BY <1>4, <2>1
    <3>2. high % 256 = high
      BY <1>4, <3>1
    <3> QED
      BY <1>4, <1>5, <2>1, <3>2
  <2>2. CASE v >= 32768
    <3>1. high >= 256
      BY <1>4, <2>2
    <3>2. high % 256 = high - 256
      BY <1>4, <3>1
    <3> QED
      BY <1>4, <1>5, <2>2, <3>2
  <2> QED
    BY <1>1, <2>1, <2>2
<1>9. ASSUME v < 16384 PROVE WellFormed(bend, 224, c)
  <2>1. high < 128
    BY <1>4, <1>9
  <2>2. high % 256 = high /\ high \in DataBytes
    BY <1>4, <2>1 DEF DataBytes
  <2>3. 224 \in Kinds /\ low \in DataBytes
    BY <1>4 DEF Kinds, DataBytes
  <2>4. WellFormed(new(<<Voice(224, c), low, high>>), 224, c)
    BY <1>1, <2>2, <2>3, ThreeBytes
  <2> QED
    BY <1>6, <2>2, <2>4
<1>10. BendRight(c, v)
  BY <1>7, <1>8, <1>9 DEF BendRight, bend
<1> QED
  BY <1>10

\* Whatever u8 and u16 values a test passes, channel and kind are read back
\* from the bytes, and no data byte of a voice message is a status byte.
THEOREM WireBytes == Spec => []WireIsSound
<1>1. WireIsSound
  BY VoiceIsRight, BendIsRight DEF WireIsSound
<1>2. Init => WireIsSound
  BY <1>1
<1>3. WireIsSound /\ [Next]_vars => WireIsSound'
  BY VoiceIsRight, BendIsRight DEF WireIsSound
<1> QED
  BY <1>2, <1>3, PTL DEF Spec

=============================================================================
