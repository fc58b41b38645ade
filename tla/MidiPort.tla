------------------------------- MODULE MidiPort -------------------------------
(***************************************************************************)
(* MockMidiDevice (tpt-av-test-mock/src/midi_port.rs): a port shared by    *)
(* the clones and halves that producers and consumers hold.  Every call is *)
(* one critical section of the port's mutex.  inject_all alone runs code   *)
(* of its caller, the iterator, inside it, so it is modelled a message at  *)
(* a time; a panic of the iterator poisons the mutex, and every later call *)
(* then panics in expect("MIDI port poisoned").                            *)
(***************************************************************************)
EXTENDS MidiMessage, Functions

CONSTANTS
    Producers,      \* threads playing the hardware
    Consumers,      \* threads of the code under test
    MaxGestures,    \* bound: calls of inject and inject_all per producer
    MaxSize,        \* bound: messages of one inject_all
    MaxSent         \* bound: successful sends

ASSUME MidiPortAssumption ==
    /\ Producers \cap Consumers = {}
    /\ "nobody" \notin Producers \cup Consumers
    /\ MaxGestures \in Nat /\ MaxSize \in Nat \ {0} /\ MaxSent \in Nat

VARIABLES
    input_queue, output_queue, closed,      \* PortState
    holder, poisoned,                       \* its mutex
    pc, left,       \* of each thread; what its iterator still yields
    gestures,       \* injecting calls each producer has begun
    injected, received, sent, drained       \* histories

mutex    == <<holder, poisoned>>
calls    == <<pc, left, gestures>>
inbound  == <<input_queue, injected, received>>
outbound == <<output_queue, sent, drained>>
vars     == <<inbound, outbound, closed, mutex, calls>>

Threads == Producers \cup Consumers
Nobody  == "nobody"

Init ==
    /\ input_queue = <<>> /\ output_queue = <<>> /\ closed = FALSE
    /\ holder = Nobody /\ poisoned = FALSE
    /\ pc = [t \in Threads |-> "ready"]
    /\ left = [t \in Producers |-> 0]
    /\ gestures = [t \in Producers |-> 0]
    /\ injected = <<>> /\ received = <<>> /\ sent = 0 /\ drained = <<>>

\* lock().expect(..) returns.
Locks(t) == pc[t] = "ready" /\ holder = Nobody /\ ~poisoned

\* lock().expect(..) on a poisoned mutex.
Panic(t) ==
    /\ pc[t] = "ready" /\ holder = Nobody /\ poisoned
    /\ pc' = [pc EXCEPT ![t] = "dead"]
    /\ UNCHANGED <<inbound, outbound, closed, mutex, left, gestures>>

-----------------------------------------------------------------------------
(* The hardware side.  A message is named after its producer, the call     *)
(* that injected it, and what its iterator had left.                       *)

\* Mutant of PushBack: the message overtakes what is queued.
PushFront(m) ==
    /\ input_queue' = <<m>> \o input_queue
    /\ injected' = Append(injected, m)

PushBack(m) ==
    /\ input_queue' = Append(input_queue, m)
    /\ injected' = Append(injected, m)

\* inject and inject_bytes: the port need not be open.
Inject(t) ==
    /\ Locks(t)
    /\ gestures[t] < MaxGestures
    /\ gestures' = [gestures EXCEPT ![t] = @ + 1]
    /\ PushBack(<<t, gestures[t] + 1, 1>>)
    /\ UNCHANGED <<received, outbound, closed, mutex, pc, left>>

\* Mutant of BeginGesture: inject_all locks for each message on its own.
BeginGestureUnlocked(t) ==
    /\ Locks(t)
    /\ gestures[t] < MaxGestures
    /\ gestures' = [gestures EXCEPT ![t] = @ + 1]
    /\ left' \in [Producers -> 0 .. MaxSize]
    /\ \A u \in Producers \ {t} : left'[u] = left[u]
    /\ pc' = [pc EXCEPT ![t] = "gesture"]
    /\ UNCHANGED <<inbound, outbound, closed, mutex>>

\* inject_all takes the lock once, for the whole gesture.
BeginGesture(t) ==
    /\ Locks(t)
    /\ gestures[t] < MaxGestures
    /\ gestures' = [gestures EXCEPT ![t] = @ + 1]
    /\ \E n \in 0 .. MaxSize : left' = [left EXCEPT ![t] = n]
    /\ holder' = t
    /\ pc' = [pc EXCEPT ![t] = "gesture"]
    /\ UNCHANGED <<inbound, outbound, closed, poisoned>>

Extend(t) ==
    /\ pc[t] = "gesture" /\ left[t] > 0
    /\ PushBack(<<t, gestures[t], left[t]>>)
    /\ left' = [left EXCEPT ![t] = @ - 1]
    /\ UNCHANGED <<received, outbound, closed, mutex, pc, gestures>>

EndGesture(t) ==
    /\ pc[t] = "gesture" /\ left[t] = 0
    /\ holder' = Nobody
    /\ pc' = [pc EXCEPT ![t] = "ready"]
    /\ UNCHANGED <<inbound, outbound, closed, poisoned, left, gestures>>

\* The guard is dropped while the thread unwinds; what was pushed stays.
IteratorPanics(t) ==
    /\ pc[t] = "gesture"
    /\ holder' = Nobody
    /\ poisoned' = TRUE
    /\ pc' = [pc EXCEPT ![t] = "dead"]
    /\ UNCHANGED <<inbound, outbound, closed, left, gestures>>

DrainOutput(t) ==
    /\ Locks(t)
    /\ drained' = drained \o output_queue
    /\ output_queue' = <<>>
    /\ UNCHANGED <<inbound, sent, closed, mutex, calls>>

Close(t) ==
    /\ Locks(t)
    /\ closed' = TRUE
    /\ UNCHANGED <<inbound, outbound, mutex, calls>>

-----------------------------------------------------------------------------
(* The code under test *)

\* Mutant of TryRecv: the last message in the queue is taken for its end.
TryRecvButLast(t) ==
    /\ Locks(t)
    /\ ~closed
    /\ Len(input_queue) > 1
    /\ received' = Append(received, Head(input_queue))
    /\ input_queue' = Tail(input_queue)
    /\ UNCHANGED <<injected, outbound, closed, mutex, calls>>

\* Err(PortClosed) and Ok(None) change nothing.
TryRecv(t) ==
    /\ Locks(t)
    /\ ~closed
    /\ input_queue # <<>>
    /\ received' = Append(received, Head(input_queue))
    /\ input_queue' = Tail(input_queue)
    /\ UNCHANGED <<injected, outbound, closed, mutex, calls>>

Send(t) ==
    /\ Locks(t)
    /\ ~closed
    /\ sent < MaxSent
    /\ sent' = sent + 1
    /\ output_queue' = Append(output_queue, sent + 1)
    /\ UNCHANGED <<inbound, drained, closed, mutex, calls>>

-----------------------------------------------------------------------------

Ended == (\A t \in Threads : pc[t] = "dead") /\ UNCHANGED vars

Next ==
    \/ \E t \in Threads : Panic(t) \/ Close(t)
    \/ \E t \in Producers :
          \/ Inject(t) \/ DrainOutput(t)
          \/ BeginGesture(t) \/ Extend(t) \/ EndGesture(t) \/ IteratorPanics(t)
    \/ \E t \in Consumers : TryRecv(t) \/ Send(t)
    \/ Ended

Spec == Init /\ [][Next]_vars

\* Consumers poll again and again, and an injection that has begun goes on.
\* Producers and consumers compete for one mutex, which is why polling takes
\* strong fairness.
FairSpec ==
    /\ Spec
    /\ \A t \in Consumers : SF_vars(TryRecv(t))
    /\ \A t \in Producers : WF_vars(Extend(t) \/ EndGesture(t))

-----------------------------------------------------------------------------
(* Properties *)

Messages == Producers \X (1 .. MaxGestures) \X (1 .. MaxSize)

\* The types, and the mutex: it is held exactly by the thread inside inject_all.
TypeOK ==
    /\ input_queue \in Seq(Messages) /\ injected \in Seq(Messages)
    /\ received \in Seq(Messages)
    /\ output_queue \in Seq(1 .. MaxSent) /\ drained \in Seq(1 .. MaxSent)
    /\ sent \in 0 .. MaxSent
    /\ closed \in BOOLEAN /\ poisoned \in BOOLEAN
    /\ holder \in Producers \cup {Nobody}
    /\ pc \in [Threads -> {"ready", "gesture", "dead"}]
    /\ left \in [Producers -> 0 .. MaxSize]
    /\ gestures \in [Producers -> 0 .. MaxGestures]
    /\ \A t \in Threads : pc[t] = "gesture" <=> holder = t

\* "Lossless and FIFO ... exactly once, in order": whatever the interleaving,
\* what was received and what waits is what was injected, and likewise for
\* what the code under test sent; a poisoned mutex loses nothing either.
Lossless ==
    /\ received \o input_queue = injected
    /\ drained \o output_queue = [i \in 1 .. sent |-> i]

\* inject_all is one gesture: no other producer's message lands inside it,
\* even if its iterator is slow or panics half way.
GesturesWhole ==
    \A i, k \in DOMAIN injected :
        (i < k /\ injected[i][1] = injected[k][1] /\ injected[i][2] = injected[k][2])
            => \A j \in i .. k : injected[j][1] = injected[i][1]

\* "every injected message is delivered exactly once": as long as consumers
\* keep polling a port that is not closed and not poisoned, none waits for ever.
Delivered ==
    \A m \in Messages :
        (m \in Range(injected)) ~> (m \in Range(received) \/ closed \/ poisoned)

\* VoiceRight and BendRight of whatever bytes a test hands to a constructor.
\* Constructors keep no state; they are looked at before the first injection.
WireIsSound ==
    gestures = [t \in Producers |-> 0] =>
        /\ \A c, x, y \in Octets : VoiceRight(c, x, y)
        /\ \A c \in Octets, v \in Values14 : BendRight(c, v)

=============================================================================
