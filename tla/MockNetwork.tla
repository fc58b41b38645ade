----------------------------- MODULE MockNetwork -----------------------------
(***************************************************************************)
(* The simulated link of tpt-av-test-mock/src/network.rs: one LinkState    *)
(* behind one mutex, one inbox (with a mutex of its own) per endpoint, and *)
(* an atomic endpoint counter outside both.                                *)
(*                                                                         *)
(* Granularity.  A call that takes the link mutex once and does not touch  *)
(* an inbox is one action.  deliver_due pushes into inboxes one at a time, *)
(* and a receiver polls an inbox without the link mutex, so advance is a   *)
(* sequence of steps of the thread that holds the mutex.  pair and flush   *)
(* are sequences of steps too: they touch shared state several times.      *)
(*                                                                         *)
(* Abstractions.  A payload is the serial number of its send.  The         *)
(* splitmix64 stream is a free choice, constrained by the rate exactly as  *)
(* next_unit() < rate is: never at 0.0, always at 1.0.  A Duration is a    *)
(* number of nanoseconds in 0..DurationMax.                                *)
(***************************************************************************)
EXTENDS Naturals, Sequences, FiniteSets, Functions

CONSTANTS
    Threads,        \* threads calling pair, advance and flush
    NoThread,       \* nobody holds the link mutex
    Latencies,      \* durations passed to set_latency
    Steps,          \* durations passed to advance
    Rates,          \* subset of {"never", "sometimes", "always"}
    RoundLimits,    \* max_rounds passed to flush
    DurationMax,    \* the largest Duration; one more overflows and panics
    MaxEndpoints,   \* bound: endpoints ever created
    MaxSends        \* bound: messages ever accepted

ASSUME NoThreadAssumption == NoThread \notin Threads
ASSUME DurationAssumption ==
    /\ DurationMax \in Nat \ {0}
    /\ Latencies \subseteq 0..DurationMax
    /\ Steps \subseteq 0..DurationMax
ASSUME RatesAssumption == Rates \subseteq {"never", "sometimes", "always"}
ASSUME BoundsAssumption ==
    /\ RoundLimits \subseteq Nat
    /\ MaxEndpoints \in Nat
    /\ MaxSends \in Nat

VARIABLES
    virtual_now, latency, drop_rate, reorder_rate, connected,
    queue,          \* messages in simulated flight
    mailboxes,      \* endpoint ids in registration order
    sent, delivered, dropped, in_flight,    \* LinkStats
    inbox,          \* the inbox of each registered endpoint
    next_endpoint,
    holder,         \* the thread holding the link mutex across steps
    poisoned,       \* a panic happened under the link mutex
    due, survivors, count, slot,        \* locals of deliver_due
    pc, ret, ids, rounds, step,         \* per thread: position and locals
    received, landed, joined, goal      \* history, see below

(***************************************************************************)
(* History.  received[e]: what try_recv returned at e.  landed: messages   *)
(* whose delivery loop has finished, in that order.  joined[e]: how many   *)
(* had landed when e was registered.  goal[t]: the messages flush saw in   *)
(* flight at the start of its current round.                               *)
(***************************************************************************)

config    == <<latency, drop_rate, reorder_rate, connected>>
stats     == <<sent, delivered, dropped, in_flight>>
delivery  == <<due, survivors, count, slot>>
threads   == <<pc, ret, ids, rounds, step, goal>>
endpoints == <<mailboxes, inbox, received, joined>>
vars == <<virtual_now, config, queue, stats, endpoints, next_endpoint,
          holder, poisoned, delivery, threads, landed>>

Rate     == {"never", "sometimes", "always"}
Duration == 0..DurationMax
Message  == [n : Nat, from : Nat, deliver_at : Duration]
Registered == Range(mailboxes)
InFlight == {queue[i].n : i \in DOMAIN queue}

\* The link mutex can be taken, and taking it does not panic.
LockFree == holder = NoThread /\ ~poisoned

\* next_unit() < rate, for next_unit() in [0, 1).
Draws(rate) == CASE rate = "never"  -> {FALSE}
                 [] rate = "always" -> {TRUE}
                 [] OTHER           -> BOOLEAN

\* A call of t ends, by returning or by a panic, and its locals are gone.
Leave(t) ==
    /\ pc' = [pc EXCEPT ![t] = "idle"]
    /\ ids' = [ids EXCEPT ![t] = <<>>]
    /\ rounds' = [rounds EXCEPT ![t] = 0]
    /\ step' = [step EXCEPT ![t] = 0]
    /\ goal' = [goal EXCEPT ![t] = {}]

\* Mutant of Insert: the reordered message jumps the whole queue.
InsertAtFront(q, m, reorder) ==
    IF reorder /\ q # <<>> THEN <<m>> \o q ELSE Append(q, m)

\* Where transmit inserts: at the back, or one slot ahead of the last message.
Insert(q, m, reorder) ==
    IF reorder /\ q # <<>>
    THEN SubSeq(q, 1, Len(q) - 1) \o <<m, q[Len(q)]>>
    ELSE Append(q, m)

Init ==
    /\ virtual_now = 0
    /\ latency = 0
    /\ drop_rate = "never"
    /\ reorder_rate = "never"
    /\ connected = TRUE
    /\ queue = <<>>
    /\ mailboxes = <<>>
    /\ sent = 0 /\ delivered = 0 /\ dropped = 0 /\ in_flight = 0
    /\ inbox = [e \in {} |-> <<>>]
    /\ next_endpoint = 0
    /\ holder = NoThread
    /\ poisoned = FALSE
    /\ due = <<>> /\ survivors = <<>> /\ count = 0 /\ slot = 1
    /\ pc = [t \in Threads |-> "idle"]
    /\ ret = [t \in Threads |-> "idle"]
    /\ ids = [t \in Threads |-> <<>>]
    /\ rounds = [t \in Threads |-> 0]
    /\ step = [t \in Threads |-> 0]
    /\ goal = [t \in Threads |-> {}]
    /\ received = [e \in {} |-> <<>>]
    /\ joined = [e \in {} |-> 0]
    /\ landed = <<>>

-----------------------------------------------------------------------------
(* pair: two separate fetch_adds, then both mailboxes under one lock. *)

\* Bound: enough ids are left for every pair call under way.
PairBound ==
    next_endpoint + 2 + Cardinality({t \in Threads : pc[t] = "second"})
        <= MaxEndpoints

\* Mutant of TakeId: the counter is read, and stored only by the second step.
TakeIdNonAtomic(t) ==
    IF ids[t] = <<>>
    THEN /\ ids' = [ids EXCEPT ![t] = <<next_endpoint>>]
         /\ UNCHANGED next_endpoint
    ELSE /\ ids' = [ids EXCEPT ![t] = Append(@, @[1] + 1)]
         /\ next_endpoint' = ids[t][1] + 2

\* fetch_add hands out the counter and increments it in one atomic step.
TakeId(t) ==
    /\ ids' = [ids EXCEPT ![t] = Append(@, next_endpoint)]
    /\ next_endpoint' = next_endpoint + 1

PairFirst(t) ==
    /\ pc[t] = "idle"
    /\ PairBound
    /\ TakeId(t)
    /\ pc' = [pc EXCEPT ![t] = "second"]
    /\ UNCHANGED <<virtual_now, config, queue, stats, endpoints, holder,
                   poisoned, delivery, ret, rounds, step, goal, landed>>

PairSecond(t) ==
    /\ pc[t] = "second"
    /\ TakeId(t)
    /\ pc' = [pc EXCEPT ![t] = "register"]
    /\ UNCHANGED <<virtual_now, config, queue, stats, endpoints, holder,
                   poisoned, delivery, ret, rounds, step, goal, landed>>

PairRegister(t) ==
    /\ pc[t] = "register"
    /\ LockFree
    /\ LET fresh == Range(ids[t]) IN
         /\ mailboxes' = mailboxes \o ids[t]
         /\ inbox' = [e \in Registered \cup fresh |->
                        IF e \in fresh THEN <<>> ELSE inbox[e]]
         /\ received' = [e \in Registered \cup fresh |->
                        IF e \in fresh THEN <<>> ELSE received[e]]
         /\ joined' = [e \in Registered \cup fresh |->
                        IF e \in fresh THEN Len(landed) ELSE joined[e]]
    /\ ids' = [ids EXCEPT ![t] = <<>>]
    /\ pc' = [pc EXCEPT ![t] = "idle"]
    /\ UNCHANGED <<virtual_now, config, queue, stats, next_endpoint, holder,
                   poisoned, delivery, ret, rounds, step, goal, landed>>

-----------------------------------------------------------------------------
(* The controller's knobs. *)

SetLatency(l) ==
    /\ LockFree
    /\ latency' = l
    /\ UNCHANGED <<virtual_now, drop_rate, reorder_rate, connected, queue,
                   stats, endpoints, next_endpoint, holder, poisoned,
                   delivery, threads, landed>>

SetDropRate(r) ==
    /\ LockFree
    /\ drop_rate' = r
    /\ UNCHANGED <<virtual_now, latency, reorder_rate, connected, queue,
                   stats, endpoints, next_endpoint, holder, poisoned,
                   delivery, threads, landed>>

SetReorderRate(r) ==
    /\ LockFree
    /\ reorder_rate' = r
    /\ UNCHANGED <<virtual_now, latency, drop_rate, connected, queue,
                   stats, endpoints, next_endpoint, holder, poisoned,
                   delivery, threads, landed>>

SetConnected(up) ==
    /\ LockFree
    /\ connected' = up
    /\ UNCHANGED <<virtual_now, latency, drop_rate, reorder_rate, queue,
                   stats, endpoints, next_endpoint, holder, poisoned,
                   delivery, threads, landed>>

\* stats(): in_flight is brought up to date only here and in deliver_due.
Stats ==
    /\ LockFree
    /\ in_flight' = Len(queue)
    /\ UNCHANGED <<virtual_now, config, queue, sent, delivered, dropped,
                   endpoints, next_endpoint, holder, poisoned, delivery,
                   threads, landed>>

-----------------------------------------------------------------------------
(* Endpoint::send = LinkState::transmit under the link mutex.  When the     *)
(* link is down it returns Disconnected and changes nothing.                *)

Accepts(e) ==
    /\ LockFree
    /\ e \in Registered
    /\ connected
    /\ sent < MaxSends

\* Mutant of SendDropped: the early return skips the dropped counter.
SendDroppedUncounted(e) ==
    /\ Accepts(e)
    /\ TRUE \in Draws(drop_rate)
    /\ sent' = sent + 1
    /\ UNCHANGED <<virtual_now, config, queue, delivered, dropped, in_flight,
                   endpoints, next_endpoint, holder, poisoned, delivery,
                   threads, landed>>

SendDropped(e) ==
    /\ Accepts(e)
    /\ TRUE \in Draws(drop_rate)
    /\ sent' = sent + 1
    /\ dropped' = dropped + 1
    /\ UNCHANGED <<virtual_now, config, queue, delivered, in_flight, endpoints,
                   next_endpoint, holder, poisoned, delivery, threads, landed>>

SendQueued(e) ==
    /\ Accepts(e)
    /\ FALSE \in Draws(drop_rate)
    /\ virtual_now + latency <= DurationMax
    /\ \E reorder \in Draws(reorder_rate) :
          queue' = Insert(queue,
                          [n |-> sent + 1, from |-> e,
                           deliver_at |-> virtual_now + latency], reorder)
    /\ sent' = sent + 1
    /\ UNCHANGED <<virtual_now, config, delivered, dropped, in_flight,
                   endpoints, next_endpoint, holder, poisoned, delivery,
                   threads, landed>>

\* virtual_now + latency panics after sent was incremented.
SendOverflows(e) ==
    /\ Accepts(e)
    /\ FALSE \in Draws(drop_rate)
    /\ virtual_now + latency > DurationMax
    /\ sent' = sent + 1
    /\ poisoned' = TRUE
    /\ UNCHANGED <<virtual_now, config, queue, delivered, dropped, in_flight,
                   endpoints, next_endpoint, holder, delivery, threads, landed>>

\* Endpoint::try_recv takes the inbox mutex only, so it runs beside advance.
TryRecv(e) ==
    /\ e \in Registered
    /\ inbox[e] # <<>>
    /\ inbox' = [inbox EXCEPT ![e] = Tail(@)]
    /\ received' = [received EXCEPT ![e] = Append(@, Head(inbox[e]))]
    /\ UNCHANGED <<virtual_now, config, queue, stats, mailboxes, joined,
                   next_endpoint, holder, poisoned, delivery, threads, landed>>

-----------------------------------------------------------------------------
(* advance: the clock moves and deliver_due runs under one lock. *)

LockAndAdvance(t, by, back) ==
    /\ LockFree
    /\ virtual_now + by <= DurationMax
    /\ virtual_now' = virtual_now + by
    /\ holder' = t
    /\ pc' = [pc EXCEPT ![t] = "drain"]
    /\ ret' = [ret EXCEPT ![t] = back]
    /\ step' = [step EXCEPT ![t] = 0]
    /\ UNCHANGED <<config, queue, stats, endpoints, next_endpoint, poisoned,
                   delivery, ids, rounds, goal, landed>>

\* virtual_now += by panics before the clock is assigned.
AdvanceOverflows(t, by) ==
    /\ LockFree
    /\ virtual_now + by > DurationMax
    /\ poisoned' = TRUE
    /\ Leave(t)
    /\ UNCHANGED <<virtual_now, config, queue, stats, endpoints,
                   next_endpoint, holder, delivery, ret, landed>>

Advance(t, by) ==
    /\ pc[t] = "idle"
    /\ LockAndAdvance(t, by, "idle") \/ AdvanceOverflows(t, by)

\* Mutant of Drain: the queue is taken to be sorted by deadline.
DrainSorted(t) ==
    /\ pc[t] = "drain"
    /\ queue # <<>>
    /\ IF Head(queue).deliver_at <= virtual_now
       THEN /\ due' = Append(due, Head(queue))
            /\ queue' = Tail(queue)
            /\ UNCHANGED survivors
       ELSE survivors' = queue /\ queue' = <<>> /\ UNCHANGED due
    /\ UNCHANGED <<virtual_now, config, stats, endpoints, next_endpoint,
                   holder, poisoned, count, slot, threads, landed>>

\* Mutant of Drain: a message is due only after its deadline.
DrainLate(t) ==
    /\ pc[t] = "drain"
    /\ queue # <<>>
    /\ queue' = Tail(queue)
    /\ IF Head(queue).deliver_at < virtual_now
       THEN due' = Append(due, Head(queue)) /\ UNCHANGED survivors
       ELSE survivors' = Append(survivors, Head(queue)) /\ UNCHANGED due
    /\ UNCHANGED <<virtual_now, config, stats, endpoints, next_endpoint,
                   holder, poisoned, count, slot, threads, landed>>

\* The first loop of deliver_due: split the queue into due and survivors.
Drain(t) ==
    /\ pc[t] = "drain"
    /\ queue # <<>>
    /\ queue' = Tail(queue)
    /\ IF Head(queue).deliver_at <= virtual_now
       THEN due' = Append(due, Head(queue)) /\ UNCHANGED survivors
       ELSE survivors' = Append(survivors, Head(queue)) /\ UNCHANGED due
    /\ UNCHANGED <<virtual_now, config, stats, endpoints, next_endpoint,
                   holder, poisoned, count, slot, threads, landed>>

Drained(t) ==
    /\ pc[t] = "drain"
    /\ queue = <<>>
    /\ queue' = survivors
    /\ survivors' = <<>>
    /\ count' = Len(due)
    /\ pc' = [pc EXCEPT ![t] = "land"]
    /\ UNCHANGED <<virtual_now, config, stats, endpoints, next_endpoint,
                   holder, poisoned, due, slot, ret, ids, rounds, step, goal,
                   landed>>

\* Mutant of Push: the sender is not filtered out.
PushEcho(t) ==
    /\ pc[t] = "land"
    /\ due # <<>>
    /\ slot <= Len(mailboxes)
    /\ slot' = slot + 1
    /\ inbox' = [inbox EXCEPT ![mailboxes[slot]] = Append(@, Head(due))]
    /\ UNCHANGED <<virtual_now, config, queue, stats, mailboxes, received,
                   joined, next_endpoint, holder, poisoned, due, survivors,
                   count, threads, landed>>

\* The nested loop: for each due message, for each mailbox but the sender's.
Push(t) ==
    /\ pc[t] = "land"
    /\ due # <<>>
    /\ slot <= Len(mailboxes)
    /\ slot' = slot + 1
    /\ IF mailboxes[slot] # Head(due).from
       THEN inbox' = [inbox EXCEPT ![mailboxes[slot]] = Append(@, Head(due))]
       ELSE UNCHANGED inbox
    /\ UNCHANGED <<virtual_now, config, queue, stats, mailboxes, received,
                   joined, next_endpoint, holder, poisoned, due, survivors,
                   count, threads, landed>>

NextMessage(t) ==
    /\ pc[t] = "land"
    /\ due # <<>>
    /\ slot > Len(mailboxes)
    /\ due' = Tail(due)
    /\ slot' = 1
    /\ landed' = Append(landed, Head(due))
    /\ UNCHANGED <<virtual_now, config, queue, stats, endpoints,
                   next_endpoint, holder, poisoned, survivors, count, threads>>

\* Mutant of Unlock: in_flight is decremented instead of recomputed, though
\* send never incremented it.
UnlockDecrement(t) ==
    /\ pc[t] = "land"
    /\ due = <<>>
    /\ delivered' = delivered + count
    /\ in_flight' = in_flight - count
    /\ count' = 0
    /\ holder' = NoThread
    /\ pc' = [pc EXCEPT ![t] = ret[t]]
    /\ ret' = [ret EXCEPT ![t] = "idle"]
    /\ UNCHANGED <<virtual_now, config, queue, sent, dropped, endpoints,
                   next_endpoint, poisoned, due, survivors, slot, ids, rounds,
                   step, goal, landed>>

\* The counters are updated and the guard is dropped.
Unlock(t) ==
    /\ pc[t] = "land"
    /\ due = <<>>
    /\ delivered' = delivered + count
    /\ in_flight' = Len(queue)
    /\ count' = 0
    /\ holder' = NoThread
    /\ pc' = [pc EXCEPT ![t] = ret[t]]
    /\ ret' = [ret EXCEPT ![t] = "idle"]
    /\ UNCHANGED <<virtual_now, config, queue, sent, dropped, endpoints,
                   next_endpoint, poisoned, due, survivors, slot, ids, rounds,
                   step, goal, landed>>

-----------------------------------------------------------------------------
(* flush: each round reads the queue length and the latency under the lock, *)
(* releases it, and then advances by what it read.                          *)

FlushCall(t, max_rounds) ==
    /\ pc[t] = "idle"
    /\ pc' = [pc EXCEPT ![t] = "flush"]
    /\ rounds' = [rounds EXCEPT ![t] = max_rounds]
    /\ UNCHANGED <<virtual_now, config, queue, stats, endpoints,
                   next_endpoint, holder, poisoned, delivery, ret, ids, step,
                   goal, landed>>

\* Mutant of FlushRead: the guard lives until the end of the round, so the
\* advance of the same thread finds its own mutex taken.
FlushReadKeepsLock(t) ==
    /\ pc[t] = "flush"
    /\ rounds[t] > 0
    /\ LockFree
    /\ queue # <<>>
    /\ rounds' = [rounds EXCEPT ![t] = @ - 1]
    /\ step' = [step EXCEPT ![t] = IF latency > 1 THEN latency ELSE 1]
    /\ goal' = [goal EXCEPT ![t] = InFlight]
    /\ pc' = [pc EXCEPT ![t] = "step"]
    /\ holder' = t
    /\ UNCHANGED <<virtual_now, config, queue, stats, endpoints,
                   next_endpoint, poisoned, delivery, ret, ids, landed>>

FlushRead(t) ==
    /\ pc[t] = "flush"
    /\ rounds[t] > 0
    /\ LockFree
    /\ queue # <<>>
    /\ rounds' = [rounds EXCEPT ![t] = @ - 1]
    /\ step' = [step EXCEPT ![t] = IF latency > 1 THEN latency ELSE 1]
    /\ goal' = [goal EXCEPT ![t] = InFlight]
    /\ pc' = [pc EXCEPT ![t] = "step"]
    /\ UNCHANGED <<virtual_now, config, queue, stats, endpoints,
                   next_endpoint, holder, poisoned, delivery, ret, ids, landed>>

FlushStep(t) ==
    /\ pc[t] = "step"
    /\ LockAndAdvance(t, step[t], "flush") \/ AdvanceOverflows(t, step[t])

FlushReturn(t) ==
    /\ pc[t] = "flush"
    /\ rounds[t] = 0 \/ (LockFree /\ queue = <<>>)
    /\ Leave(t)
    /\ UNCHANGED <<virtual_now, config, queue, stats, endpoints,
                   next_endpoint, holder, poisoned, delivery, ret, landed>>

-----------------------------------------------------------------------------
(* A poisoned mutex makes every later lock().expect(..) panic: a call under *)
(* way ends at its next lock, and a new one changes nothing.                *)

PanicInCall(t) ==
    /\ poisoned
    /\ \/ pc[t] \in {"register", "step"}
       \/ pc[t] = "flush" /\ rounds[t] > 0
    /\ Leave(t)
    /\ UNCHANGED <<virtual_now, config, queue, stats, endpoints,
                   next_endpoint, holder, poisoned, delivery, ret, landed>>

PanicAtCall == poisoned /\ UNCHANGED vars

-----------------------------------------------------------------------------

PairCall(t)  == PairFirst(t) \/ PairSecond(t) \/ PairRegister(t)
DeliverDue(t) == Drain(t) \/ Drained(t) \/ Push(t) \/ NextMessage(t) \/ Unlock(t)
Flush(t)     == FlushRead(t) \/ FlushStep(t) \/ FlushReturn(t)
Send(e)      == SendDropped(e) \/ SendQueued(e) \/ SendOverflows(e)

Next ==
    \/ \E t \in Threads :
          \/ PairCall(t) \/ DeliverDue(t) \/ Flush(t) \/ PanicInCall(t)
          \/ \E by \in Steps : Advance(t, by)
          \/ \E max_rounds \in RoundLimits : FlushCall(t, max_rounds)
    \/ \E e \in Registered : Send(e) \/ TryRecv(e)
    \/ \E l \in Latencies : SetLatency(l)
    \/ \E r \in Rates : SetDropRate(r) \/ SetReorderRate(r)
    \/ \E up \in BOOLEAN : SetConnected(up)
    \/ Stats
    \/ PanicAtCall

Spec == Init /\ [][Next]_vars

(***************************************************************************)
(* Fairness.  A thread inside a call keeps running (WF), and a thread that *)
(* waits for the link mutex gets it if it is released again and again (SF):*)
(* what the operating system's scheduler and its mutex give.  Nothing is   *)
(* assumed about which calls the program makes.                            *)
(***************************************************************************)
Fairness == \A t \in Threads :
    /\ WF_vars(PairSecond(t) \/ DeliverDue(t) \/ PanicInCall(t))
    /\ SF_vars(PairRegister(t))
    /\ SF_vars(Flush(t))

FairSpec == Spec /\ Fairness

-----------------------------------------------------------------------------
(* Properties *)

TypeOK ==
    /\ virtual_now \in Duration
    /\ latency \in Duration
    /\ drop_rate \in Rate
    /\ reorder_rate \in Rate
    /\ connected \in BOOLEAN
    /\ queue \in Seq(Message)
    /\ mailboxes \in Seq(Nat)
    /\ sent \in Nat /\ delivered \in Nat /\ dropped \in Nat /\ in_flight \in Nat
    /\ inbox \in [Registered -> Seq(Message)]
    /\ next_endpoint \in Nat
    /\ holder \in Threads \cup {NoThread}
    /\ poisoned \in BOOLEAN
    /\ due \in Seq(Message)
    /\ survivors \in Seq(Message)
    /\ count \in Nat
    /\ slot \in Nat \ {0}
    /\ pc \in [Threads -> {"idle", "second", "register", "flush", "step",
                           "drain", "land"}]
    /\ ret \in [Threads -> {"idle", "flush"}]
    /\ ids \in [Threads -> Seq(Nat)]
    /\ rounds \in [Threads -> Nat]
    /\ step \in [Threads -> Duration]
    /\ goal \in [Threads -> SUBSET Nat]
    /\ received \in [Registered -> Seq(Message)]
    /\ joined \in [Registered -> Nat]
    /\ landed \in Seq(Message)

\* Every message send accepted is exactly one of dropped, delivered or in
\* flight whenever the mutex is free; a send that panicked on overflow is the
\* only one that can go missing, and then the link is unusable.
Conservation ==
    holder = NoThread =>
        LET accounted == dropped + delivered + Len(queue)
        IN  \/ sent = accounted
            \/ poisoned /\ sent = accounted + 1

\* Nothing reaches an inbox before its deadline, and once advance has
\* returned nothing whose deadline lies in the past is still in flight.
Deadlines ==
    /\ \A e \in Registered : \A i \in DOMAIN inbox[e] :
          inbox[e][i].deliver_at <= virtual_now
    /\ holder = NoThread =>
          \A i \in DOMAIN queue : queue[i].deliver_at >= virtual_now

\* Endpoint ids are unique, across registered endpoints and the pair calls
\* still running: the sender filter of deliver_due relies on it.
UniqueEndpoints ==
    /\ \A i, j \in DOMAIN mailboxes : i # j => mailboxes[i] # mailboxes[j]
    /\ \A t \in Threads :
          /\ \A i \in DOMAIN ids[t] : ids[t][i] \notin Registered
          /\ \A u \in Threads : \A i \in DOMAIN ids[t] : \A j \in DOMAIN ids[u] :
                <<t, i>> # <<u, j>> => ids[t][i] # ids[u][j]

\* The messages of s that e did not send, in their order.
NotFrom(s, e) ==
    LET F[i \in 0 .. Len(s)] ==
            IF i = 0 THEN <<>>
            ELSE IF s[i].from = e THEN F[i - 1] ELSE Append(F[i - 1], s[i])
    IN  F[Len(s)]

\* Broadcast in one order: what each endpoint was given is the landing order,
\* from the moment it joined, without its own messages.  So no message is
\* duplicated, echoed or withheld, and all receivers agree on the order.
AgreedOrder ==
    holder = NoThread => \A e \in Registered :
        received[e] \o inbox[e] = NotFrom(SubSeq(landed, joined[e] + 1, Len(landed)), e)

\* Of the messages sent before it and due no later, a message overtakes at
\* most one, whatever reordering and advancing goes on.
AtMostOneOvertake ==
    holder = NoThread =>
        LET order == landed \o queue IN
        \A i \in DOMAIN order :
            Cardinality({j \in DOMAIN order :
                            /\ j > i
                            /\ order[j].n < order[i].n
                            /\ order[j].deliver_at <= order[i].deliver_at}) <= 1

\* As long as the latency is never lowered, one round of flush delivers
\* everything it saw in flight, whatever other threads do in between.
RoundLandsAll ==
    \A t \in Threads : pc[t] = "flush" =>
        goal[t] \cap {(queue \o survivors)[i].n :
                        i \in DOMAIN (queue \o survivors)} = {}

\* Every pair, advance and flush call returns (or panics): no thread waits
\* for the link mutex for ever, its own second lock included.
CallsReturn == \A t \in Threads : pc[t] # "idle" ~> pc[t] = "idle"

=============================================================================
