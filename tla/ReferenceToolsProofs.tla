-------------------------- MODULE ReferenceToolsProofs --------------------------
(***************************************************************************)
(* Theorems about tpt-av-test-reference: run_captured implements           *)
(* CapturedRun, for pipes of any capacity and tools that write any number  *)
(* of bytes; its callers decode and parse what was written, whole and as   *)
(* the documentation says; and the comparisons of audio.rs and image.rs    *)
(* are right for recordings and frames of any size.                        *)
(***************************************************************************)
EXTENDS ReferenceTools, Lemmas

-----------------------------------------------------------------------------
(* run_captured *)

TypeOK ==
    /\ main \in {"start", "read_out", "read_err", "wait", "join_out", "join_err", "returned"}
    /\ reader \in [Streams -> {"none", "reading", "eof", "failed"}]
    /\ buf \in [Streams -> Seq(Bytes)] /\ pipe \in [Streams -> Seq(Bytes)]
    /\ holders \in [Streams -> SUBSET Procs]
    /\ want \in [DOMAIN want -> {Idle} \cup (Streams \X Bytes)] /\ DOMAIN want \subseteq Procs
    /\ status \in {"unborn", "running"} \cup Ends

\* Only a live process holds a stream, and it holds the one it writes to.
HoldersLive ==
    /\ \A p \in Streams : holders[p] \subseteq DOMAIN want
    /\ \A w \in DOMAIN want : want[w] # Idle => w \in holders[want[w][1]]
    /\ "tool" \in DOMAIN want <=> status = "running"
    /\ status = "unborn" => DOMAIN want = {}

\* A reader that has seen the end of a stream has all of it.
EofIsFinal == \A p \in Streams : reader[p] = "eof" => pipe[p] = <<>> /\ holders[p] = {}

\* Where the caller is tells what it knows of the tool.
CallerKnows ==
    /\ main = "start" => status = "unborn" /\ \A p \in Streams : reader[p] = "none"
    /\ status = "unborn" => main \in {"start", "returned"}
    /\ main \in {"join_out", "join_err"} => status \in Ends
    /\ main = "join_err" => Done("out")
    /\ result = NoResult <=> main # "returned"

IInv == TypeOK /\ HoldersLive /\ EofIsFinal /\ CallerKnows

LEMMA InitIInv == Init => IInv
<1> SUFFICES ASSUME Init PROVE IInv
  OBVIOUS
<1>1. TypeOK
  <2>1. <<>> \in Seq(Bytes)
    BY EmptySeq
  <2> QED
    BY <2>1 DEF Init, TypeOK, Procs
<1>2. HoldersLive /\ EofIsFinal /\ CallerKnows
  BY DEF Init, HoldersLive, EofIsFinal, CallerKnows, Ends, NoResult
<1> QED
  BY <1>1, <1>2 DEF IInv

LEMMA CallerKeepsIInv == IInv /\ Caller => IInv'
<1> SUFFICES ASSUME IInv, Caller PROVE IInv'
  OBVIOUS
<1> USE DEF IInv, readers, tool
<1>1. CASE Spawn
  <2>1. TypeOK'
    BY <1>1 DEF Spawn, TypeOK, Procs
  <2>2. HoldersLive'
    BY <1>1 DEF Spawn, HoldersLive
  <2>3. EofIsFinal'
    BY <1>1 DEF Spawn, EofIsFinal, CallerKnows
  <2>4. CallerKnows'
    BY <1>1 DEF Spawn, CallerKnows, Ends
  <2> QED
    BY <2>1, <2>2, <2>3, <2>4
<1>2. CASE SpawnFails \/ WaitFails
  <2>1. result' # NoResult /\ main' = "returned" /\ UNCHANGED <<readers, tool, pipe>>
    BY <1>2 DEF SpawnFails, WaitFails, NoResult
  <2>2. CallerKnows'
    BY <2>1 DEF CallerKnows
  <2> QED
    BY <2>1, <2>2 DEF TypeOK, HoldersLive, EofIsFinal
<1>3. ASSUME NEW p \in Streams, NEW from \in {"read_out", "read_err"},
             NEW to \in {"read_err", "wait"}, SpawnReader(p, from, to)
      PROVE  IInv'
  <2>1. TypeOK'
    BY <1>3 DEF SpawnReader, TypeOK
  <2>2. EofIsFinal'
    BY <1>3 DEF SpawnReader, EofIsFinal, TypeOK
  <2>3. CallerKnows'
    BY <1>3 DEF SpawnReader, CallerKnows
  <2> QED
    BY <1>3, <2>1, <2>2, <2>3 DEF SpawnReader, HoldersLive
<1>4. CASE Wait \/ JoinOut
  <2>1. /\ UNCHANGED <<result, readers, tool, pipe>> /\ main' \in {"join_out", "join_err"}
        /\ main \in {"wait", "join_out"}
    BY <1>4 DEF Wait, JoinOut
  <2>2. CallerKnows'
    BY <1>4, <2>1 DEF CallerKnows, Wait, JoinOut, Done
  <2> QED
    BY <2>1, <2>2 DEF TypeOK, HoldersLive, EofIsFinal
<1>5. CASE JoinErr
  <2>1. main = "join_err" /\ main' = "returned" /\ UNCHANGED <<readers, tool, pipe>>
    BY <1>5 DEF JoinErr
  <2>2. result' # NoResult
    BY <1>5 DEF JoinErr, NoResult
  <2>3. CallerKnows'
    BY <2>1, <2>2 DEF CallerKnows
  <2> QED
    BY <2>1, <2>3 DEF TypeOK, HoldersLive, EofIsFinal
<1> QED
  BY <1>1, <1>2, <1>3, <1>4, <1>5 DEF Caller, Streams

LEMMA ReaderKeepsIInv ==
    ASSUME IInv, NEW p \in Streams, Reader(p) \/ ReadFails(p)
    PROVE  IInv'
<1> USE DEF IInv, caller, tool
<1>1. CASE Read(p)
  <2>1. TypeOK'
    <3>1. Append(buf[p], Head(pipe[p])) \in Seq(Bytes) /\ Tail(pipe[p]) \in Seq(Bytes)
      BY <1>1, HandOn DEF Read, TypeOK
    <3> QED
      BY <1>1, <3>1 DEF Read, TypeOK
  <2>2. EofIsFinal'
    BY <1>1 DEF Read, EofIsFinal, TypeOK
  <2>3. HoldersLive' /\ CallerKnows'
    BY <1>1 DEF Read, HoldersLive, CallerKnows, Done
  <2> QED
    BY <2>1, <2>2, <2>3
<1>2. CASE ReadEof(p) \/ ReadFails(p)
  <2>1. /\ UNCHANGED <<caller, buf, tool, pipe>> /\ reader[p] = "reading"
        /\ \E r \in {"eof", "failed"} : reader' = [reader EXCEPT ![p] = r]
    BY <1>2 DEF ReadEof, ReadFails
  <2>2. TypeOK'
    BY <2>1 DEF TypeOK
  <2>3. EofIsFinal'
    BY <1>2 DEF ReadEof, ReadFails, EofIsFinal, TypeOK
  <2>4. HoldersLive' /\ CallerKnows'
    BY <2>1 DEF HoldersLive, CallerKnows, Done, TypeOK
  <2> QED
    BY <2>2, <2>3, <2>4
<1> QED
  BY <1>1, <1>2 DEF Reader

\* A process that ends lets go of its streams, and nobody else's.
LEMMA EndingKeepsIInv ==
    ASSUME IInv, NEW w \in Procs, Alive(w), NEW end \in Ends, Ending(w, end)
    PROVE  IInv'
<1> USE DEF IInv, caller, readers
<1>1. /\ DOMAIN want' = DOMAIN want \ {w}
      /\ \A v \in DOMAIN want' : want'[v] = want[v]
      /\ \A p \in Streams : holders'[p] = holders[p] \ {w}
      /\ UNCHANGED <<main, result, reader, buf, pipe>>
      /\ status' = IF w = "tool" THEN end ELSE status
  BY DEF Ending, Restrict
<1>2. TypeOK'
  <2>1. want' \in [DOMAIN want' -> {Idle} \cup (Streams \X Bytes)]
    BY <1>1 DEF Ending, Restrict, TypeOK
  <2>2. holders' \in [Streams -> SUBSET Procs]
    BY DEF Ending, TypeOK
  <2> QED
    BY <1>1, <2>1, <2>2 DEF TypeOK
<1>3. HoldersLive'
  <2>1. \A p \in Streams : holders'[p] \subseteq DOMAIN want'
    BY <1>1 DEF HoldersLive
  <2>2. \A v \in DOMAIN want' : want'[v] # Idle => v \in holders'[want'[v][1]]
    BY <1>1 DEF HoldersLive, TypeOK
  <2>3. "tool" \in DOMAIN want' <=> status' = "running"
    BY <1>1 DEF HoldersLive, Ends
  <2>4. status' # "unborn"
    BY <1>1 DEF HoldersLive, Alive, Ends
  <2> QED
    BY <2>1, <2>2, <2>3, <2>4 DEF HoldersLive
<1>4. EofIsFinal'
  BY <1>1 DEF EofIsFinal
<1>5. CallerKnows'
  <2>1. status # "unborn"
    BY DEF Alive, HoldersLive
  <2> QED
    BY <1>1, <2>1 DEF CallerKnows, Done, Ends
<1> QED
  BY <1>2, <1>3, <1>4, <1>5

LEMMA ToolKeepsIInv ==
    ASSUME IInv, NEW w \in Procs,
           \/ \E p \in Streams : CloseStream(w, p)
           \/ \E p \in Streams, x \in Bytes : BeginWrite(w, p, x)
           \/ \E end \in {"exit0", "exit1"} : Exit(w, end)
           \/ Write(w) \/ BrokenPipe(w) \/ Killed(w)
    PROVE  IInv'
<1> USE DEF IInv, caller, readers
<1>1. ASSUME NEW p \in Streams, CloseStream(w, p) PROVE IInv'
  <2>1. TypeOK'
    BY <1>1 DEF CloseStream, TypeOK
  <2>2. HoldersLive'
    BY <1>1 DEF CloseStream, HoldersLive, TypeOK
  <2>3. EofIsFinal'
    BY <1>1 DEF CloseStream, EofIsFinal, TypeOK
  <2>4. CallerKnows'
    BY <1>1 DEF CloseStream, CallerKnows, Done
  <2> QED
    BY <2>1, <2>2, <2>3, <2>4
<1>2. ASSUME NEW p \in Streams, NEW x \in Bytes, BeginWrite(w, p, x) PROVE IInv'
  <2>1. TypeOK'
    BY <1>2 DEF BeginWrite, TypeOK, Alive
  <2>2. HoldersLive'
    BY <1>2 DEF BeginWrite, HoldersLive, TypeOK, Alive
  <2>3. EofIsFinal' /\ CallerKnows'
    BY <1>2 DEF BeginWrite, EofIsFinal, CallerKnows, Done
  <2> QED
    BY <2>1, <2>2, <2>3
<1>3. CASE Write(w)
  <2>1. PICK p \in Streams, x \in Bytes : want[w] = <<p, x>>
    BY <1>3 DEF Write, Alive, TypeOK
  <2>2. /\ pipe' = [pipe EXCEPT ![p] = Append(@, x)] /\ w \in DOMAIN want
        /\ want' = [want EXCEPT ![w] = Idle] /\ UNCHANGED <<caller, readers, holders, status>>
    BY <1>3, <2>1 DEF Write, Alive
  <2>3. TypeOK'
    <3>1. Append(pipe[p], x) \in Seq(Bytes)
      BY AppendProperties DEF TypeOK
    <3> QED
      BY <2>2, <3>1 DEF TypeOK
  <2>4. HoldersLive'
    BY <2>2 DEF HoldersLive, TypeOK
  <2>5. w \in holders[p]
    BY <2>1, <2>2 DEF HoldersLive, Idle
  <2>6. EofIsFinal'
    BY <2>2, <2>5 DEF EofIsFinal, TypeOK
  <2>7. CallerKnows'
    BY <2>2 DEF CallerKnows, Done
  <2> QED
    BY <2>3, <2>4, <2>6, <2>7
<1>4. CASE BrokenPipe(w) \/ Killed(w) \/ \E end \in {"exit0", "exit1"} : Exit(w, end)
  BY <1>4, EndingKeepsIInv DEF BrokenPipe, Killed, Exit, Ends
<1> QED
  BY <1>1, <1>2, <1>3, <1>4

LEMMA ForkKeepsIInv == IInv /\ Fork => IInv'
<1> SUFFICES ASSUME IInv, Fork PROVE IInv'
  OBVIOUS
<1> USE DEF IInv, caller, readers
<1>1. TypeOK'
  BY DEF Fork, TypeOK, Procs
<1>2. HoldersLive'
  BY DEF Fork, HoldersLive, Alive, Procs, TypeOK
<1>3. EofIsFinal' /\ CallerKnows'
  BY DEF Fork, EofIsFinal, CallerKnows, Done
<1> QED
  BY <1>1, <1>2, <1>3

LEMMA NextIInv == IInv /\ [Next]_vars => IInv'
<1> SUFFICES ASSUME IInv, [Next]_vars PROVE IInv'
  OBVIOUS
<1>1. CASE UNCHANGED vars
  BY <1>1 DEF vars, caller, readers, tool, IInv, TypeOK, HoldersLive, EofIsFinal,
              CallerKnows, Done
<1> QED
  BY <1>1, CallerKeepsIInv, ReaderKeepsIInv, ToolKeepsIInv, ForkKeepsIInv DEF Next, Ended

-----------------------------------------------------------------------------
(* Every step is a step of CapturedRun, or one it does not see. *)

\* What run_captured returns is what CapturedRun allows: the code of the tool
\* and the whole of each stream, or nothing of a stream that could not be read
\* or is not text, in whatever order caller, readers and tool take their steps.
THEOREM RunIsCapturedRun == Spec => ImplementsCapturedRun
<1> DEFINE log  == [p \in Streams |-> buf[p] \o pipe[p]]
           open == {p \in Streams : holders[p] # {}}
<1>1. Init => Captured!Init
  <2> SUFFICES ASSUME Init PROVE Captured!Init
    OBVIOUS
  <2>1. \A p \in Streams : buf[p] \o pipe[p] = <<>>
    BY DEF Init
  <2> QED
    BY <2>1 DEF Init, Captured!Init, Captured!NoResult, NoResult
<1>2. IInv /\ IInv' /\ [Next]_vars => [Captured!Next]_Captured!vars
  <2> SUFFICES ASSUME IInv, IInv', [Next]_vars
               PROVE  Captured!Next \/ (log' = log /\ open' = open /\ UNCHANGED <<status, result>>)
    BY DEF Captured!vars
  <2> USE DEF IInv, caller, readers, tool
  <2>1. CASE Spawn
    <3>1. UNCHANGED <<buf, pipe, result>> /\ \A p \in Streams : holders'[p] # {}
      BY <2>1 DEF Spawn
    <3>2. log' = log /\ open' = Streams
      BY <3>1
    <3>3. status = "unborn" /\ result = NoResult /\ status' = "running"
      BY <2>1 DEF Spawn, CallerKnows
    <3>4. Captured!Start
      BY <3>1, <3>2, <3>3 DEF Captured!Start, Captured!NoResult, NoResult
    <3> QED
      BY <3>4 DEF Captured!Next
  <2>2. CASE SpawnFails \/ WaitFails
    <3>1. UNCHANGED <<buf, pipe, holders, status>> /\ result = NoResult
      BY <2>2 DEF SpawnFails, WaitFails, CallerKnows
    <3>2. \/ result' = [is |-> "Spawn"]
          \/ status = "unborn" /\ result' = [is |-> "ReferenceBinaryNotFound"]
      BY <2>2 DEF SpawnFails, WaitFails, CallerKnows
    <3>3. Captured!Fail
      BY <3>1, <3>2 DEF Captured!Fail, Captured!NoResult, NoResult
    <3> QED
      BY <3>3 DEF Captured!Next
  <2>3. CASE \/ \E p \in Streams, from, to \in {"read_out", "read_err", "wait"} :
                   SpawnReader(p, from, to)
             \/ Wait \/ JoinOut \/ UNCHANGED vars
    <3>1. UNCHANGED <<buf, pipe, holders, status, result>>
      BY <2>3 DEF SpawnReader, Wait, JoinOut, vars
    <3> QED
      BY <3>1
  <2>4. CASE JoinErr
    <3>1. /\ UNCHANGED <<buf, pipe, holders, status>> /\ result = NoResult /\ status \in Ends
          /\ result' = [is |-> "ok", code |-> Code(status), out |-> OutBytes, err |-> ErrText]
      BY <2>4 DEF JoinErr, CallerKnows
    <3>2. ASSUME NEW p \in Streams, reader[p] = "eof"
          PROVE  buf[p] = log[p] /\ p \notin open
      <4>1. pipe[p] = <<>> /\ holders[p] = {} /\ buf[p] \in Seq(Bytes)
        BY <3>2 DEF EofIsFinal, TypeOK
      <4> QED
        BY <4>1, ConcatEmptySeq
    <3>3. OutBytes \in {log["out"], <<>>} /\ (OutBytes # <<>> => "out" \notin open)
      BY <3>2 DEF OutBytes, Streams
    <3>4. ErrText \in {log["err"], <<>>} /\ (ErrText # <<>> => "err" \notin open)
      BY <3>2 DEF ErrText, Streams
    <3>5. Code(status) = Captured!Code(status)
      BY DEF Code, Captured!Code
    <3>6. log' = log /\ open' = open
      BY <3>1
    <3>7. Captured!Return
      BY <3>1, <3>3, <3>4, <3>5, <3>6 DEF Captured!Return, Captured!NoResult, NoResult,
                                          Captured!Ends, Ends
    <3> QED
      BY <3>7 DEF Captured!Next
  <2>5. ASSUME NEW p \in Streams, Read(p)
        PROVE  log' = log /\ open' = open /\ UNCHANGED <<status, result>>
    <3>1. \A r \in Streams : buf'[r] \o pipe'[r] = buf[r] \o pipe[r]
      <4> TAKE r \in Streams
      <4>1. /\ pipe[p] # <<>> /\ buf[p] \in Seq(Bytes) /\ pipe[p] \in Seq(Bytes)
            /\ buf' = [buf EXCEPT ![p] = Append(@, Head(pipe[p]))]
            /\ pipe' = [pipe EXCEPT ![p] = Tail(@)]
        BY <2>5 DEF Read, TypeOK
      <4>2. Append(buf[p], Head(pipe[p])) \o Tail(pipe[p]) = buf[p] \o pipe[p]
        BY <4>1, HandOn
      <4> QED
        BY <4>1, <4>2 DEF TypeOK
    <3> QED
      BY <2>5, <3>1 DEF Read
  <2>6. ASSUME NEW p \in Streams, ReadEof(p) \/ ReadFails(p)
        PROVE  log' = log /\ open' = open /\ UNCHANGED <<status, result>>
    BY <2>6 DEF ReadEof, ReadFails
  <2>7. ASSUME NEW w \in Procs, NEW p \in Streams, NEW x \in Bytes, BeginWrite(w, p, x)
        PROVE  log' = log /\ open' = open /\ UNCHANGED <<status, result>>
    BY <2>7 DEF BeginWrite
  <2>8. ASSUME NEW w \in Procs, Write(w) PROVE Captured!Next
    <3>1. PICK p \in Streams, x \in Bytes : want[w] = <<p, x>>
      BY <2>8 DEF Write, Alive, TypeOK
    <3>2. /\ pipe' = [pipe EXCEPT ![p] = Append(@, x)] /\ w \in DOMAIN want
          /\ UNCHANGED <<buf, holders, status, result>>
      BY <2>8, <3>1 DEF Write, Alive
    <3>3. w \in holders[p]
      BY <3>1, <3>2 DEF HoldersLive, Idle
    <3>4. buf[p] \o Append(pipe[p], x) = Append(buf[p] \o pipe[p], x)
      BY ConcatAppend DEF TypeOK
    <3>5. log' = [log EXCEPT ![p] = Append(@, x)] /\ p \in open /\ open' = open
      BY <3>2, <3>3, <3>4 DEF TypeOK
    <3>6. Captured!Write(p, x)
      BY <3>2, <3>5 DEF Captured!Write
    <3> QED
      BY <3>6 DEF Captured!Next
  <2>9. ASSUME NEW w \in Procs, NEW p \in Streams, CloseStream(w, p) PROVE Captured!Next
    <3>1. PICK S \in SUBSET Streams : S = open \ open'
      OBVIOUS
    <3>2. UNCHANGED <<buf, pipe, status, result>> /\ open' \subseteq open
      BY <2>9 DEF CloseStream, TypeOK
    <3>3. S \subseteq open /\ open' = open \ S /\ log' = log
      BY <3>1, <3>2
    <3>4. Captured!Close(S)
      BY <3>2, <3>3 DEF Captured!Close
    <3> QED
      BY <3>4 DEF Captured!Next
  <2>10. ASSUME NEW w \in Procs, Alive(w), NEW end \in Ends, Ending(w, end) PROVE Captured!Next
    <3>1. PICK S \in SUBSET Streams : S = open \ open'
      OBVIOUS
    <3>2. /\ UNCHANGED <<buf, pipe, result>> /\ open' \subseteq open
          /\ status' = IF w = "tool" THEN end ELSE status
      BY <2>10 DEF Ending
    <3>3. S \subseteq open /\ open' = open \ S /\ log' = log
      BY <3>1, <3>2
    <3>4. CASE w = "tool"
      <4>1. status = "running" /\ status' \in Captured!Ends
        BY <2>10, <3>2, <3>4 DEF Alive, HoldersLive, Ends, Captured!Ends
      <4>2. Captured!End(S)
        BY <3>2, <3>3, <4>1 DEF Captured!End
      <4> QED
        BY <4>2 DEF Captured!Next
    <3>5. CASE w # "tool"
      <4>1. Captured!Close(S)
        BY <3>2, <3>3, <3>5 DEF Captured!Close
      <4> QED
        BY <4>1 DEF Captured!Next
    <3> QED
      BY <3>4, <3>5
  <2>11. ASSUME NEW w \in Procs,
                BrokenPipe(w) \/ Killed(w) \/ \E end \in {"exit0", "exit1"} : Exit(w, end)
         PROVE  Captured!Next
    BY <2>10, <2>11 DEF BrokenPipe, Killed, Exit, Ends
  <2>12. CASE Fork
    <3>1. \A p \in Streams : holders'[p] = {} <=> holders[p] = {}
      BY <2>12 DEF Fork
    <3> QED
      BY <2>12, <3>1 DEF Fork
  <2> QED
    BY <2>1, <2>2, <2>3, <2>4, <2>5, <2>6, <2>7, <2>8, <2>9, <2>11, <2>12
    DEF Next, Caller, Reader, Ended, Streams
<1>3. Spec => []IInv
  BY InitIInv, NextIInv, PTL DEF Spec
<1> QED
  BY <1>1, <1>2, <1>3, PTL DEF Spec, Captured!Spec, ImplementsCapturedRun

-----------------------------------------------------------------------------
(* What the callers make of the result *)

\* A reader that has ended and a status that is known change no more, so the
\* result stays what it was when the call returned.
ResultKnown ==
    main = "returned" =>
        \/ result.is = "Spawn"
        \/ status = "unborn" /\ result.is = "ReferenceBinaryNotFound"
        \/ /\ status \in Ends /\ Done("out") /\ Done("err")
           /\ result = [is |-> "ok", code |-> Code(status), out |-> OutBytes, err |-> ErrText]

LEMMA NextResultKnown == IInv /\ ResultKnown /\ [Next]_vars => ResultKnown'
<1> SUFFICES ASSUME IInv, ResultKnown, [Next]_vars, main' = "returned"
             PROVE  \/ result'.is = "Spawn"
                    \/ status' = "unborn" /\ result'.is = "ReferenceBinaryNotFound"
                    \/ /\ status' \in Ends /\ Done("out")' /\ Done("err")'
                       /\ result' = [is |-> "ok", code |-> Code(status), out |-> OutBytes,
                                     err |-> ErrText]'
  BY DEF ResultKnown
<1> USE DEF caller, readers, tool
<1>1. CASE SpawnFails \/ WaitFails
  <2>1. CASE SpawnFails
    <3>1. status = "unborn" /\ UNCHANGED status
      BY <2>1 DEF SpawnFails, IInv, CallerKnows
    <3> QED
      BY <2>1, <3>1 DEF SpawnFails
  <2>2. CASE WaitFails
    BY <2>2 DEF WaitFails
  <2> QED
    BY <1>1, <2>1, <2>2
<1>2. CASE JoinErr
  <2>1. /\ UNCHANGED <<reader, buf, status>> /\ status \in Ends /\ Done("out") /\ Done("err")
        /\ result' = [is |-> "ok", code |-> Code(status), out |-> OutBytes, err |-> ErrText]
    BY <1>2 DEF JoinErr, IInv, CallerKnows
  <2>2. OutBytes' = OutBytes /\ ErrText' = ErrText /\ Code(status)' = Code(status)
    BY <2>1 DEF OutBytes, ErrText, Code
  <2> QED
    BY <2>1, <2>2 DEF Done
\* Every other step leaves a call that has returned alone.
<1>3. ASSUME main = "returned", UNCHANGED <<main, result>>,
             status \in Ends \cup {"unborn"} => status' = status,
             \A p \in Streams : Done(p) => UNCHANGED <<reader[p], buf[p]>>
      PROVE  \/ result'.is = "Spawn"
             \/ status' = "unborn" /\ result'.is = "ReferenceBinaryNotFound"
             \/ /\ status' \in Ends /\ Done("out")' /\ Done("err")'
                /\ result' = [is |-> "ok", code |-> Code(status), out |-> OutBytes,
                              err |-> ErrText]'
  <2>1. CASE result.is = "Spawn"
    BY <1>3, <2>1
  <2>2. CASE status = "unborn" /\ result.is = "ReferenceBinaryNotFound"
    BY <1>3, <2>2
  <2>3. CASE /\ status \in Ends /\ Done("out") /\ Done("err")
             /\ result = [is |-> "ok", code |-> Code(status), out |-> OutBytes, err |-> ErrText]
    <3>1. UNCHANGED <<reader["out"], reader["err"], buf["out"], buf["err"], status>>
      BY <1>3, <2>3 DEF Streams
    <3>2. OutBytes' = OutBytes /\ ErrText' = ErrText /\ Code(status)' = Code(status)
      BY <3>1 DEF OutBytes, ErrText, Code
    <3>3. Done("out")' /\ Done("err")'
      BY <2>3, <3>1 DEF Done
    <3> QED
      BY <1>3, <2>3, <3>1, <3>2, <3>3
  <2> QED
    BY <1>3, <2>1, <2>2, <2>3 DEF ResultKnown
<1>4. CASE \/ Spawn \/ Wait \/ JoinOut
           \/ SpawnReader("out", "read_out", "read_err") \/ SpawnReader("err", "read_err", "wait")
  BY <1>4 DEF Spawn, Wait, JoinOut, SpawnReader
<1>5. ASSUME NEW p \in Streams, Reader(p) \/ ReadFails(p)
      PROVE  /\ UNCHANGED <<main, result, status>>
             /\ \A q \in Streams : Done(q) => UNCHANGED <<reader[q], buf[q]>>
  BY <1>5 DEF Reader, Read, ReadEof, ReadFails, Done, IInv, TypeOK
<1>6. ASSUME NEW w \in Procs,
             \/ \E p \in Streams : CloseStream(w, p)
             \/ \E p \in Streams, x \in Bytes : BeginWrite(w, p, x)
             \/ \E end \in {"exit0", "exit1"} : Exit(w, end)
             \/ Write(w) \/ BrokenPipe(w) \/ Killed(w)
      PROVE  /\ UNCHANGED <<main, result, reader, buf>>
             /\ status \in Ends \cup {"unborn"} => status' = status
  <2>1. ASSUME NEW end, Ending(w, end), Alive(w) PROVE status \in Ends \cup {"unborn"} => status' = status
    BY <2>1 DEF Ending, Alive, IInv, HoldersLive, Ends
  <2> QED
    BY <1>6, <2>1 DEF CloseStream, BeginWrite, Exit, Write, BrokenPipe, Killed, Ending
<1>7. CASE Fork \/ UNCHANGED vars
  BY <1>3, <1>7 DEF Fork, vars
<1> QED
  BY <1>1, <1>2, <1>3, <1>4, <1>5, <1>6, <1>7 DEF Next, Caller, Ended

\* What a number of whole samples takes in bytes.
LEMMA WholeSamples ==
    ASSUME NEW len \in Nat, NEW size \in Nat \ {0}
    PROVE  /\ len \div size \in Nat
           /\ len % size = 0 => (len \div size) * size = len
<1>1. /\ len \div size \in Int /\ len % size \in 0 .. size - 1
      /\ len = size * (len \div size) + (len % size)
  BY SMT
<1> DEFINE q == len \div size
<1>2. size * q = q * size /\ (q < 0 => size * q <= -size)
  BY <1>1, SMT
<1>3. q >= 0
  BY <1>1, <1>2
<1> QED
  BY <1>1, <1>2, <1>3

\* A group of chunks_exact is as long as a sample.
LEMMA ChunksAreSamples ==
    ASSUME NEW raw \in Seq(Bytes), NEW i \in DOMAIN Chunks(raw)
    PROVE  FromBits(Chunks(raw)[i]) \in Sample
<1> DEFINE n == Len(raw) \div SampleBytes
           a == (i - 1) * SampleBytes
           b == i * SampleBytes
<1>1. /\ Len(raw) \in Nat /\ SampleBytes \in Nat \ {0} /\ n \in Nat
      /\ Len(raw) = SampleBytes * n + (Len(raw) % SampleBytes)
      /\ Len(raw) % SampleBytes \in Nat
  BY LenProperties, WholeSamples, ReferenceToolsAssumption, SMT
<1>2. i \in 1 .. n
  BY DEF Chunks
<1>3. a \in Nat /\ b \in Nat /\ b = a + SampleBytes /\ b <= Len(raw)
  <2>1. i - 1 \in Nat /\ i \in Nat /\ n - i \in Nat
    BY <1>1, <1>2
  <2>2. (i - 1) * SampleBytes \in Nat /\ i * SampleBytes \in Nat /\ (n - i) * SampleBytes \in Nat
    BY <1>1, <2>1, SMT
  <2>3. i * SampleBytes = (i - 1) * SampleBytes + SampleBytes
    BY <1>1, <2>1, SMT
  <2>4. SampleBytes * n = i * SampleBytes + (n - i) * SampleBytes
    BY <1>1, <2>1, SMT
  <2> QED
    BY SMTT(30), <1>1, <2>2, <2>3, <2>4
<1>4. Chunks(raw)[i] = SubSeq(raw, a + 1, b)
  BY <1>2 DEF Chunks
<1> HIDE DEF a, b
<1>5. /\ SubSeq(raw, a + 1, b) \in Seq(Bytes)
      /\ Len(SubSeq(raw, a + 1, b)) = SampleBytes
  <2>1. /\ SubSeq(raw, a + 1, b) \in Seq(Bytes)
        /\ Len(SubSeq(raw, a + 1, b)) = IF a + 1 <= b THEN b - (a + 1) + 1 ELSE 0
    <3>1. \A j \in a + 1 .. b : raw[j] \in Bytes
      BY <1>1, <1>3, ElementOfSeq
    <3> QED
      BY <1>1, <1>3, <3>1, SubSeqProperties
  <2>2. a + 1 <= b /\ b - (a + 1) + 1 = SampleBytes
    BY <1>1, <1>3
  <2> QED
    BY <2>1, <2>2
<1>6. SubSeq(raw, a + 1, b) \in [1 .. SampleBytes -> Bytes]
  BY <1>5, LenProperties
<1> QED
  BY <1>4, <1>6, ReferenceToolsAssumption

\* With tolerance zero a sample is accepted by a finite one that is the same.
LEMMA ZeroTolerance ==
    ASSUME NEW x \in Sample, NEW y \in Finite, ~ExceedsTolerance(Diff(x, y), 0)
    PROVE  x = y
<1>1. CASE x \in Finite
  <2>1. Diff(x, y) = Abs(x - y)
    BY <1>1 DEF Diff, Finite, Inf, NaN, Abs
  <2> QED
    BY <1>1, <2>1 DEF ExceedsTolerance, Abs, NaN, Finite
<1>2. CASE x \in {Inf, -Inf, NaN}
  <2>1. Diff(x, y) \in {Inf, NaN}
    BY <1>2 DEF Diff, Finite, Inf, NaN, Abs
  <2> QED
    BY <2>1 DEF ExceedsTolerance, Inf, NaN
<1> QED
  BY <1>1, <1>2 DEF Sample

\* Every decode that succeeds holds all the tool wrote, and compares equal to
\* those samples only; a tool that failed, was killed or was never started
\* makes no recording.
THEOREM DecodesAreWhole == Spec => []DecodeIsWhole
<1>1. Init => ResultKnown
  BY DEF Init, ResultKnown
<1>2. IInv /\ ResultKnown => DecodeIsWhole
  <2> DEFINE decoded == decode_to_f32le(result)
             written == buf["out"] \o pipe["out"]
             unread  == reader["out"] = "failed"
  <2> SUFFICES ASSUME IInv, ResultKnown, main = "returned"
               PROVE  /\ decoded.is = "Ok" =>
                           /\ status = "exit0"
                           /\ Len(decoded.val) * SampleBytes = IF unread THEN 0 ELSE Len(written)
                      /\ decoded.is = "PcmUnaligned" =>
                           ~unread /\ Len(written) % SampleBytes # 0
                      /\ decoded.is = "ReferenceBinaryNotFound" => status = "unborn"
                      /\ decoded.is = "ReferenceFailed" <=> result.is = "ok" /\ status # "exit0"
                      /\ sox_summary(result).is = "Ok" <=> result.is = "ok" /\ status = "exit0"
                      /\ \A output \in BoundedSeq(Samples, MaxBytes) :
                            assert_bit_exact_vs_ffmpeg(result, output, 0).is = "Ok" =>
                               \/ unread /\ output = <<>>
                               \/ /\ status = "exit0"
                                  /\ Len(output) * SampleBytes = Len(written)
                                  /\ \A i \in DOMAIN output :
                                        output[i] = FromBits(Chunks(written)[i])
    BY DEF DecodeIsWhole
  <2> USE DEF Succeeded, Failure, Err, OkWith
  <2>1. CASE result.is \in {"Spawn", "ReferenceBinaryNotFound"}
    <3>1. decoded = [is |-> result.is] /\ sox_summary(result) = [is |-> result.is]
      BY <2>1 DEF decode_to_f32le, sox_summary
    <3>2. result.is = "ReferenceBinaryNotFound" => status = "unborn"
      BY DEF ResultKnown
    <3>3. \A output : assert_bit_exact_vs_ffmpeg(result, output, 0) = decoded
      BY <2>1, <3>1 DEF assert_bit_exact_vs_ffmpeg
    <3>4. decoded.is = result.is /\ sox_summary(result).is = result.is
      BY <3>1
    <3>5. \A output : assert_bit_exact_vs_ffmpeg(result, output, 0).is = result.is
      BY <3>3, <3>4
    <3> HIDE DEF decoded, written, unread
    <3> QED
      BY <2>1, <3>2, <3>4, <3>5
  <2>2. CASE result.is = "ok"
    <3>1. /\ status \in Ends /\ Done("out")
          /\ result.code = Code(status) /\ result.out = OutBytes
      BY <2>2 DEF ResultKnown
    <3>2. Succeeded(result) <=> status = "exit0"
      BY <2>2, <3>1 DEF Code, Ends
    <3>3. sox_summary(result).is = "Ok" <=> status = "exit0"
      BY <2>2, <3>2 DEF sox_summary
    <3>4. CASE status # "exit0"
      <4>1. decoded = [is |-> "ReferenceFailed"]
        BY <2>2, <3>2, <3>4 DEF decode_to_f32le
      <4>2. \A output : assert_bit_exact_vs_ffmpeg(result, output, 0) = decoded
        BY <4>1 DEF assert_bit_exact_vs_ffmpeg
      <4>3. decoded.is = "ReferenceFailed"
        BY <4>1
      <4>4. \A output : assert_bit_exact_vs_ffmpeg(result, output, 0).is = "ReferenceFailed"
        BY <4>2, <4>3
      <4> HIDE DEF decoded, written, unread
      <4> QED
        BY <2>2, <3>3, <3>4, <4>3, <4>4
    <3>5. CASE status = "exit0"
      <4> DEFINE raw == OutBytes
                 val == [i \in DOMAIN Chunks(raw) |-> FromBits(Chunks(raw)[i])]
                 n   == Len(raw) \div SampleBytes
      <4>1. raw \in Seq(Bytes) /\ raw = IF unread THEN <<>> ELSE written
        <5>1. buf["out"] \in Seq(Bytes) /\ pipe["out"] \in Seq(Bytes) /\ "out" \in Streams
          BY DEF IInv, TypeOK, Streams
        <5>2. reader["out"] = "eof" => pipe["out"] = <<>>
          BY <5>1 DEF IInv, EofIsFinal
        <5>3. buf["out"] \o <<>> = buf["out"]
          BY <5>1, ConcatEmptySeq
        <5>4. <<>> \in Seq(Bytes)
          BY EmptySeq
        <5> QED
          BY <3>1, <5>1, <5>2, <5>3, <5>4 DEF OutBytes, Done
      <4>2. decoded = IF Len(raw) % SampleBytes # 0 THEN [is |-> "PcmUnaligned"]
                      ELSE [is |-> "Ok", val |-> val]
        BY <2>2, <3>1, <3>2, <3>5 DEF decode_to_f32le, pcm_bytes_to_f32
      <4>3. /\ n \in Nat /\ Len(raw) \in Nat /\ SampleBytes \in Nat \ {0}
            /\ Len(raw) % SampleBytes = 0 => n * SampleBytes = Len(raw)
        BY <4>1, LenProperties, WholeSamples, ReferenceToolsAssumption
      <4>4. DOMAIN Chunks(raw) = 1 .. n
        BY DEF Chunks
      <4>5. Len(val) = n /\ DOMAIN val = 1 .. n
        <5>1. \A i \in 1 .. n : FromBits(Chunks(raw)[i]) \in Sample
          BY <4>1, <4>4, ChunksAreSamples
        <5>2. val \in [1 .. n -> Sample]
          BY <4>4, <5>1
        <5> HIDE DEF val
        <5> QED
          BY <4>3, <5>2, LenProperties
      <4>6. Len(<<>>) = 0 /\ 0 % SampleBytes = 0
        BY <4>3, SMT
      <4>7. decoded.is = "Ok" => Len(decoded.val) * SampleBytes = IF unread THEN 0 ELSE Len(written)
        <5> SUFFICES ASSUME decoded.is = "Ok"
                     PROVE  Len(decoded.val) * SampleBytes = IF unread THEN 0 ELSE Len(written)
          OBVIOUS
        <5>1. Len(raw) % SampleBytes = 0 /\ decoded.val = val
          BY <4>2
        <5>2. Len(decoded.val) * SampleBytes = Len(raw)
          BY <4>3, <4>5, <5>1
        <5> HIDE DEF decoded, val, raw, n
        <5> QED
          BY <4>1, <4>6, <5>2
      <4>8. decoded.is = "PcmUnaligned" => ~unread /\ Len(written) % SampleBytes # 0
        <5>1. decoded.is = "PcmUnaligned" => Len(raw) % SampleBytes # 0
          BY <4>2
        <5> HIDE DEF decoded, raw
        <5> QED
          BY <4>1, <4>6, <5>1
      <4>9. decoded.is \in {"Ok", "PcmUnaligned"}
        BY <4>2
      <4>10. ASSUME NEW output \in BoundedSeq(Samples, MaxBytes),
                    assert_bit_exact_vs_ffmpeg(result, output, 0).is = "Ok"
             PROVE  \/ unread /\ output = <<>>
                    \/ /\ status = "exit0"
                       /\ Len(output) * SampleBytes = Len(written)
                       /\ \A i \in DOMAIN output : output[i] = FromBits(Chunks(written)[i])
        <5>1. output \in Seq(Samples)
          BY DEF BoundedSeq, SeqOf
        <5>2. decoded = [is |-> "Ok", val |-> val]
          BY <4>2, <4>10 DEF assert_bit_exact_vs_ffmpeg
        <5>3. assert_pcm_equal(val, output, 0).is = "Ok"
          BY <4>10, <5>2 DEF assert_bit_exact_vs_ffmpeg
        <5> HIDE DEF val
        <5>4. /\ Len(val) = Len(output)
              /\ {i \in DOMAIN val : ExceedsTolerance(Diff(val[i], output[i]), 0)} = {}
          BY <5>3 DEF assert_pcm_equal
        <5>5. Len(raw) % SampleBytes = 0
          BY <4>2, <5>2
        <5>6. CASE unread
          <6>1. Len(raw) = 0
            BY <4>1, <4>6, <5>6
          <6>2. Len(output) = 0
            <7>1. n = 0
              BY <4>3, <5>5, <6>1, SMT
            <7> QED
              BY <4>5, <5>4, <7>1
          <6> QED
            BY <5>1, <5>6, <6>2, EmptySeq
        <5>7. CASE ~unread
          <6>1. raw = written
            BY <4>1, <5>7
          <6>2. DOMAIN output = 1 .. n
            BY <4>5, <5>1, <5>4, LenProperties
          <6>3. ASSUME NEW i \in DOMAIN output PROVE output[i] = FromBits(Chunks(written)[i])
            <7>1. output[i] \in Finite
              BY <5>1, ElementOfSeq, <6>2, <4>5, <5>4, ReferenceToolsAssumption
            <7>2. val[i] = FromBits(Chunks(raw)[i])
              BY <4>4, <6>2 DEF val
            <7>3. val[i] \in Sample
              BY <4>1, <4>4, <6>2, <7>2, ChunksAreSamples
            <7>4. ~ExceedsTolerance(Diff(val[i], output[i]), 0)
              BY <4>5, <5>4, <6>2
            <7>5. val[i] = output[i]
              BY <7>1, <7>3, <7>4, ZeroTolerance
            <7> QED
              BY <6>1, <7>2, <7>5
          <6>4. Len(output) * SampleBytes = Len(written)
            BY <4>3, <4>5, <5>4, <5>5, <6>1
          <6> QED
            BY <3>5, <6>3, <6>4
        <5> QED
          BY <5>6, <5>7
      <4> QED
        BY <2>2, <3>3, <3>5, <4>7, <4>8, <4>9, <4>10
    <3> QED
      BY <3>4, <3>5
  <2>3. result.is \in {"Spawn", "ReferenceBinaryNotFound", "ok"}
    BY DEF ResultKnown
  <2> QED
    BY <2>1, <2>2, <2>3
<1> QED
  BY <1>1, <1>2, InitIInv, NextIInv, NextResultKnown, PTL DEF Spec

-----------------------------------------------------------------------------
(* parse_stream_info *)

\* The lines with this key among the first k.
UpTo(lines, key, k) == {i \in 1 .. k : lines[i] # <<>> /\ lines[i][1] = key}

NumericUpTo(lines, key, k) == {i \in UpTo(lines, key, k) : lines[i][2] # None}

LastIn(lines, A) == IF A = {} THEN None ELSE lines[Max(A)][2]
FirstIn(lines, A) == IF A = {} THEN None ELSE lines[Min(A)][2]

\* What StreamInfoRight expects of the first k lines.
Expected(lines, k) ==
    [codec_name |-> LastIn(lines, UpTo(lines, "codec_name", k)),
     sample_rate |-> LastIn(lines, UpTo(lines, "sample_rate", k)),
     channels |-> LastIn(lines, UpTo(lines, "channels", k)),
     bit_depth |-> IF NumericUpTo(lines, "bits_per_sample", k) # {}
                   THEN LastIn(lines, NumericUpTo(lines, "bits_per_sample", k))
                   ELSE FirstIn(lines, NumericUpTo(lines, "bits_per_raw_sample", k))]

\* One more index is the greatest, and the least only if it is the first.
LEMMA OneMoreIndex ==
    ASSUME NEW lines, NEW k \in Nat, NEW A, A \subseteq 1 .. k
    PROVE  /\ LastIn(lines, A \cup {k + 1}) = lines[k + 1][2]
           /\ FirstIn(lines, A \cup {k + 1}) = IF A = {} THEN lines[k + 1][2] ELSE FirstIn(lines, A)
<1> DEFINE B == A \cup {k + 1}
<1>1. k + 1 \in B /\ (\A y \in B : k + 1 >= y) /\ \A x \in B : (\A y \in B : x >= y) => x = k + 1
  OBVIOUS
<1>2. Max(B) = k + 1
  BY <1>1 DEF Max
<1>3. A = {} => Min(B) = k + 1
  BY DEF Min
<1>4. ASSUME A # {} PROVE Min(B) = Min(A)
  <2>1. PICK x \in A : \A y \in A : x =< y
    <3>1. A \subseteq Nat
      OBVIOUS
    <3> QED
      BY <1>4, <3>1, LeastNat
  <2>2. x \in A /\ x \in B /\ (\A y \in A : x =< y) /\ (\A y \in B : x =< y)
    BY <2>1
  <2>3. \A z \in A : (\A y \in A : z =< y) => z = x
    BY <2>2
  <2>4. \A z \in B : (\A y \in B : z =< y) => z = x
    BY <2>2
  <2>5. Min(A) = x
    BY <2>2, <2>3 DEF Min
  <2>6. Min(B) = x
    BY <2>2, <2>4 DEF Min
  <2> QED
    BY <2>5, <2>6
<1> QED
  BY <1>1, <1>2, <1>3, <1>4 DEF LastIn, FirstIn

\* The line has this key, and a value that parsed.
Has(line, key) == line # <<>> /\ line[1] = key
HasNumber(line, key) == Has(line, key) /\ line[2] # None

\* What one more line does to the lines with a key.
LEMMA OneMoreLine ==
    ASSUME NEW lines, NEW k \in Nat, NEW key
    PROVE  /\ LastIn(lines, UpTo(lines, key, k + 1))
                = IF Has(lines[k + 1], key) THEN lines[k + 1][2]
                  ELSE LastIn(lines, UpTo(lines, key, k))
           /\ NumericUpTo(lines, key, k + 1) # {}
                <=> NumericUpTo(lines, key, k) # {} \/ HasNumber(lines[k + 1], key)
           /\ LastIn(lines, NumericUpTo(lines, key, k + 1))
                = IF HasNumber(lines[k + 1], key) THEN lines[k + 1][2]
                  ELSE LastIn(lines, NumericUpTo(lines, key, k))
           /\ FirstIn(lines, NumericUpTo(lines, key, k + 1))
                = IF HasNumber(lines[k + 1], key) /\ NumericUpTo(lines, key, k) = {}
                  THEN lines[k + 1][2]
                  ELSE FirstIn(lines, NumericUpTo(lines, key, k))
<1> DEFINE line == lines[k + 1]
           A == UpTo(lines, key, k)
           N == NumericUpTo(lines, key, k)
<1>1. 1 .. k + 1 = (1 .. k) \cup {k + 1}
  OBVIOUS
<1>2. UpTo(lines, key, k + 1) = IF Has(line, key) THEN A \cup {k + 1} ELSE A
  BY <1>1 DEF UpTo, Has
<1>3. NumericUpTo(lines, key, k + 1) = IF HasNumber(line, key) THEN N \cup {k + 1} ELSE N
  BY <1>2 DEF NumericUpTo, HasNumber
<1>4. A \subseteq 1 .. k /\ N \subseteq 1 .. k
  BY DEF UpTo, NumericUpTo
<1> HIDE DEF A, N
<1>5. /\ LastIn(lines, A \cup {k + 1}) = line[2]
      /\ LastIn(lines, N \cup {k + 1}) = line[2]
      /\ FirstIn(lines, N \cup {k + 1}) = IF N = {} THEN line[2] ELSE FirstIn(lines, N)
  BY <1>4, OneMoreIndex
<1> HIDE DEF line
<1>6. LastIn(lines, UpTo(lines, key, k + 1)) = IF Has(line, key) THEN line[2] ELSE LastIn(lines, A)
  BY <1>2, <1>5
<1>7. NumericUpTo(lines, key, k + 1) # {} <=> N # {} \/ HasNumber(line, key)
  BY <1>3
<1>8. /\ LastIn(lines, NumericUpTo(lines, key, k + 1))
           = IF HasNumber(line, key) THEN line[2] ELSE LastIn(lines, N)
      /\ FirstIn(lines, NumericUpTo(lines, key, k + 1))
           = IF HasNumber(line, key) /\ N = {} THEN line[2] ELSE FirstIn(lines, N)
  BY <1>3, <1>5
<1> QED
  BY <1>6, <1>7, <1>8 DEF line, A, N

\* The depth of the lines so far is None or a value that is not.
LEMMA DepthIsNumeric ==
    ASSUME NEW lines, NEW k \in Nat, NEW key
    PROVE  LET N == NumericUpTo(lines, key, k) IN
           /\ N # {} <=> LastIn(lines, N) # None
           /\ N # {} <=> FirstIn(lines, N) # None
<1> DEFINE N == NumericUpTo(lines, key, k)
<1> SUFFICES ASSUME N # {} PROVE lines[Max(N)][2] # None /\ lines[Min(N)][2] # None
  BY DEF LastIn, FirstIn
<1>1. N \subseteq 0 .. k /\ N \subseteq Nat /\ \A i \in N : lines[i][2] # None
  BY DEF NumericUpTo, UpTo
<1> HIDE DEF N
<1>2. \E x \in N : \A y \in N : x >= y
  BY <1>1, GreatestNat
<1>3. \E x \in N : \A y \in N : x =< y
  BY <1>1, LeastNat
<1>4. Max(N) \in N /\ Min(N) \in N
  BY <1>2, <1>3 DEF Max, Min
<1> QED
  BY <1>1, <1>4

\* One turn of the loop does what one more line asks for.
LEMMA LineIsExpected ==
    ASSUME NEW lines, NEW k \in Nat
    PROVE  Line(Expected(lines, k), lines[k + 1]) = Expected(lines, k + 1)
<1> DEFINE line == lines[k + 1]
           info == Expected(lines, k)
           next == Expected(lines, k + 1)
           cn == LastIn(lines, UpTo(lines, "codec_name", k))
           sr == LastIn(lines, UpTo(lines, "sample_rate", k))
           ch == LastIn(lines, UpTo(lines, "channels", k))
           Own0 == NumericUpTo(lines, "bits_per_sample", k)
           Raw0 == NumericUpTo(lines, "bits_per_raw_sample", k)
           Own1 == NumericUpTo(lines, "bits_per_sample", k + 1)
           Raw1 == NumericUpTo(lines, "bits_per_raw_sample", k + 1)
           depth == IF Own1 # {} THEN LastIn(lines, Own1) ELSE FirstIn(lines, Raw1)
           before == IF Own0 # {} THEN LastIn(lines, Own0) ELSE FirstIn(lines, Raw0)
<1>1. /\ LastIn(lines, UpTo(lines, "codec_name", k + 1))
           = IF Has(line, "codec_name") THEN line[2] ELSE cn
      /\ LastIn(lines, UpTo(lines, "sample_rate", k + 1))
           = IF Has(line, "sample_rate") THEN line[2] ELSE sr
      /\ LastIn(lines, UpTo(lines, "channels", k + 1))
           = IF Has(line, "channels") THEN line[2] ELSE ch
  BY OneMoreLine
<1>2. /\ Own1 # {} <=> Own0 # {} \/ HasNumber(line, "bits_per_sample")
      /\ LastIn(lines, Own1) = IF HasNumber(line, "bits_per_sample") THEN line[2]
                               ELSE LastIn(lines, Own0)
      /\ FirstIn(lines, Raw1) = IF HasNumber(line, "bits_per_raw_sample") /\ Raw0 = {}
                                THEN line[2] ELSE FirstIn(lines, Raw0)
  BY OneMoreLine
<1>3. /\ Own0 # {} <=> LastIn(lines, Own0) # None
      /\ Raw0 # {} <=> FirstIn(lines, Raw0) # None
  BY DepthIsNumeric
<1>4. info = [codec_name |-> cn, sample_rate |-> sr, channels |-> ch, bit_depth |-> before]
  BY DEF Expected
<1>5. next = [codec_name |-> IF Has(line, "codec_name") THEN line[2] ELSE cn,
              sample_rate |-> IF Has(line, "sample_rate") THEN line[2] ELSE sr,
              channels |-> IF Has(line, "channels") THEN line[2] ELSE ch,
              bit_depth |-> depth]
  BY <1>1 DEF Expected
<1> HIDE DEF Own0, Raw0, Own1, Raw1, cn, sr, ch, info, next, line
<1>6. ASSUME Has(line, "bits_per_sample"), ~Has(line, "bits_per_raw_sample")
      PROVE  depth = IF line[2] = None THEN before ELSE line[2]
  BY <1>2, <1>6 DEF HasNumber
<1>7. ASSUME Has(line, "bits_per_raw_sample"), ~Has(line, "bits_per_sample")
      PROVE  depth = IF before = None THEN line[2] ELSE before
  BY <1>2, <1>3, <1>7 DEF HasNumber
<1>8. ASSUME ~Has(line, "bits_per_sample"), ~Has(line, "bits_per_raw_sample")
      PROVE  depth = before
  BY <1>2, <1>8 DEF HasNumber
<1> HIDE DEF depth, before
<1>9. CASE line = <<>>
  <2>1. \A key : ~Has(line, key)
    BY <1>9 DEF Has
  <2>2. Line(info, line) = info
    BY <1>9 DEF Line
  <2> QED
    BY <1>4, <1>5, <1>8, <2>1, <2>2 DEF line, info, next
<1>10. CASE line # <<>>
  <2>0. \A key : Has(line, key) <=> line[1] = key
    BY <1>10 DEF Has
  <2>1. CASE line[1] = "bits_per_sample"
    <3>1. Line(info, line) = IF line[2] = None THEN info ELSE [info EXCEPT !.bit_depth = line[2]]
      BY <1>10, <2>1 DEF Line, Own
    <3>2. /\ ~Has(line, "codec_name") /\ ~Has(line, "sample_rate") /\ ~Has(line, "channels")
          /\ Has(line, "bits_per_sample") /\ ~Has(line, "bits_per_raw_sample")
      BY <2>0, <2>1
    <3>3. next = [codec_name |-> cn, sample_rate |-> sr, channels |-> ch,
                  bit_depth |-> IF line[2] = None THEN before ELSE line[2]]
      BY <1>5, <1>6, <3>2
    <3>4. Line(info, line) = next
      BY <1>4, <3>1, <3>3
    <3> QED
      BY <3>4 DEF line, info, next
  <2>2. CASE line[1] = "bits_per_raw_sample"
    <3>1. Line(info, line) = IF info.bit_depth = None THEN [info EXCEPT !.bit_depth = line[2]]
                             ELSE info
      BY <1>10, <2>2 DEF Line, Own
    <3>2. /\ ~Has(line, "codec_name") /\ ~Has(line, "sample_rate") /\ ~Has(line, "channels")
          /\ Has(line, "bits_per_raw_sample") /\ ~Has(line, "bits_per_sample")
      BY <2>0, <2>2
    <3>3. next = [codec_name |-> cn, sample_rate |-> sr, channels |-> ch,
                  bit_depth |-> IF before = None THEN line[2] ELSE before]
      BY <1>5, <1>7, <3>2
    <3>4. Line(info, line) = next
      BY <1>4, <3>1, <3>3
    <3> QED
      BY <3>4 DEF line, info, next
  <2>3. CASE line[1] \in Own
    <3>1. Line(info, line) = [info EXCEPT ![line[1]] = line[2]]
      BY <1>10, <2>3 DEF Line, Own
    <3>2. ~Has(line, "bits_per_sample") /\ ~Has(line, "bits_per_raw_sample")
      BY <2>0, <2>3 DEF Own
    <3>3. next = [codec_name |-> IF line[1] = "codec_name" THEN line[2] ELSE cn,
                  sample_rate |-> IF line[1] = "sample_rate" THEN line[2] ELSE sr,
                  channels |-> IF line[1] = "channels" THEN line[2] ELSE ch,
                  bit_depth |-> before]
      BY <1>5, <1>8, <2>0, <3>2
    <3>4. Line(info, line) = next
      <4>1. CASE line[1] = "codec_name"
        BY <1>4, <3>1, <3>3, <4>1
      <4>2. CASE line[1] = "sample_rate"
        BY <1>4, <3>1, <3>3, <4>2
      <4>3. CASE line[1] = "channels"
        BY <1>4, <3>1, <3>3, <4>3
      <4> QED
        BY <2>3, <4>1, <4>2, <4>3 DEF Own
    <3> QED
      BY <3>4 DEF line, info, next
  <2>4. CASE line[1] \notin {"bits_per_sample", "bits_per_raw_sample"} /\ line[1] \notin Own
    <3>1. Line(info, line) = info
      BY <1>10, <2>4 DEF Line
    <3>2. /\ ~Has(line, "codec_name") /\ ~Has(line, "sample_rate") /\ ~Has(line, "channels")
          /\ ~Has(line, "bits_per_sample") /\ ~Has(line, "bits_per_raw_sample")
      BY <2>0, <2>4 DEF Own
    <3>3. next = info
      BY <1>4, <1>5, <1>8, <3>2
    <3> QED
      BY <3>1, <3>3 DEF line, info, next
  <2> QED
    BY <2>1, <2>2, <2>3, <2>4
<1> QED
  BY <1>9, <1>10

LEMMA NothingExpected == ASSUME NEW lines PROVE Expected(lines, 0) = Unset
<1>1. \A key : UpTo(lines, key, 0) = {} /\ NumericUpTo(lines, key, 0) = {}
  BY DEF UpTo, NumericUpTo
<1> QED
  BY <1>1 DEF Expected, LastIn, FirstIn, Unset

\* The loop of parse_stream_info goes through all lines, in their order.
LEMMA LoopIsExpected ==
    ASSUME NEW V, NEW lines \in Seq({<<>>} \cup (V \X V))
    PROVE  FoldLeft(Line, Unset, lines) = Expected(lines, Len(lines))
<1> DEFINE n == Len(lines)
           body(g) == [s \in SUBSET (DOMAIN lines) |->
                         IF s = {} THEN Unset
                         ELSE Line(g[s \ {Max(s)}], lines[Max(s)])]
           it == CHOOSE g : g = body(g)
           W == V \cup {None}
           R == [codec_name : W, sample_rate : W, channels : W, bit_depth : W]
           step == [p \in (1 .. n) \X R |-> Line(p[2], lines[p[1]])]
<1>1. /\ n \in Nat /\ DOMAIN lines = 1 .. n
      /\ \A i \in 1 .. n : lines[i] = <<>> \/ (lines[i][1] \in V /\ lines[i][2] \in V)
  BY LenProperties, ElementOfSeq
<1>2. Unset \in R
  BY DEF Unset
<1>3. step \in [(1 .. n) \X R -> R]
  <2> SUFFICES ASSUME NEW i \in 1 .. n, NEW info \in R PROVE Line(info, lines[i]) \in R
    OBVIOUS
  <2>1. CASE lines[i] = <<>>
    BY <2>1 DEF Line
  <2>2. CASE lines[i] # <<>>
    <3>1. lines[i][2] \in W
      BY <1>1, <2>2
    <3>2. Line(info, lines[i]) \in {info, [info EXCEPT !.bit_depth = lines[i][2]],
              [info EXCEPT !.codec_name = lines[i][2]], [info EXCEPT !.sample_rate = lines[i][2]],
              [info EXCEPT !.channels = lines[i][2]]}
      BY <2>2 DEF Line, Own
    <3> QED
      BY <3>1, <3>2
  <2> QED
    BY <2>1, <2>2
<1>4. \A k \in 1 .. n : /\ 1 .. k \in SUBSET (1 .. n) /\ 1 .. k # {}
                        /\ Max(1 .. k) = k /\ (1 .. k) \ {k} = 1 .. k - 1
  BY <1>1, MaxOfRange
<1>5. FoldLeft(Line, Unset, lines) = it[1 .. n]
  BY <1>1 DEF FoldLeft, MapThenFoldSet
<1>6. \E g : g = body(g)
  <2> HIDE DEF step, R, n
  <2>1. PICK g \in [SUBSET (1 .. n) -> R] : IsMaxFold(g, n, Unset, step)
    BY <1>1, <1>2, <1>3, MaxFold
  <2>2. ASSUME NEW s \in SUBSET (1 .. n), s # {}
        PROVE  g[s] = Line(g[s \ {Max(s)}], lines[Max(s)])
    <3>1. Max(s) \in 1 .. n /\ g[s \ {Max(s)}] \in R
      BY <2>1, <2>2 DEF IsMaxFold
    <3> QED
      BY <2>1, <2>2, <3>1 DEF step, IsMaxFold
  <2>3. g = body(g)
    BY <1>1, <2>1, <2>2 DEF IsMaxFold
  <2> QED
    BY <2>3
<1>7. it = body(it)
  BY <1>6
<1> HIDE DEF it
<1>8. \A s \in SUBSET (1 .. n) :
         it[s] = IF s = {} THEN Unset ELSE Line(it[s \ {Max(s)}], lines[Max(s)])
  BY <1>1, <1>7
<1> HIDE DEF n, step, R
<1> DEFINE T == {k \in Nat : k <= n => it[1 .. k] = Expected(lines, k)}
<1>9. 0 \in T
  <2>1. 1 .. 0 = {} /\ {} \in SUBSET (1 .. n)
    OBVIOUS
  <2>2. it[{}] = Unset
    BY <1>8, <2>1
  <2> QED
    BY <2>1, <2>2, NothingExpected
<1>10. ASSUME NEW k \in Nat, k \in T PROVE k + 1 \in T
  <2> SUFFICES ASSUME k + 1 <= n PROVE it[1 .. k + 1] = Expected(lines, k + 1)
    OBVIOUS
  <2>1. k + 1 \in 1 .. n /\ (k + 1) - 1 = k
    BY <1>1
  <2>2. /\ 1 .. k + 1 \in SUBSET (1 .. n) /\ 1 .. k + 1 # {}
        /\ Max(1 .. k + 1) = k + 1
        /\ (1 .. k + 1) \ {k + 1} = 1 .. k
    BY <1>4, <2>1
  <2>3. it[1 .. k + 1] = Line(it[1 .. k], lines[k + 1])
    BY <1>8, <2>2
  <2>4. it[1 .. k] = Expected(lines, k)
    BY <1>1, <1>10
  <2> QED
    BY <2>3, <2>4, LineIsExpected
<1>11. Nat \subseteq T
  <2> HIDE DEF T
  <2> QED
    BY <1>9, <1>10, NatSetInduction
<1>12. it[1 .. n] = Expected(lines, n)
  BY <1>1, <1>11
<1> QED
  BY <1>5, <1>12 DEF n

\* parse_stream_info on any output: the depth is the last bits_per_sample that
\* parsed, else the first bits_per_raw_sample that did, in whatever order the
\* lines come, and the other fields are those of the last line with their key.
THEOREM StreamInfo ==
    ASSUME NEW V, NEW lines \in Seq({<<>>} \cup (V \X V))
    PROVE  StreamInfoRight(lines)
<1> DEFINE n == Len(lines)
           At(key) == {i \in DOMAIN lines : lines[i] # <<>> /\ lines[i][1] = key}
           Numeric(key) == {i \in At(key) : lines[i][2] # None}
           LastOf(key) == IF At(key) = {} THEN None ELSE lines[Max(At(key))][2]
           own == Numeric("bits_per_sample")
           raw == Numeric("bits_per_raw_sample")
           info == [codec_name |-> LastOf("codec_name"),
                    sample_rate |-> LastOf("sample_rate"),
                    channels |-> LastOf("channels"),
                    bit_depth |-> IF own # {} THEN lines[Max(own)][2]
                                  ELSE IF raw # {} THEN lines[Min(raw)][2] ELSE None]
           captured == [is |-> "ok", code |-> 0, out |-> lines, err |-> <<>>]
<1>1. DOMAIN lines = 1 .. n
  BY LenProperties
<1>2. \A key : At(key) = UpTo(lines, key, n) /\ Numeric(key) = NumericUpTo(lines, key, n)
  BY <1>1 DEF UpTo, NumericUpTo
<1>3. \A key : LastOf(key) = LastIn(lines, UpTo(lines, key, n))
  BY <1>2 DEF LastIn
<1>4. info = Expected(lines, n)
  <2>1. own = NumericUpTo(lines, "bits_per_sample", n) /\ raw = NumericUpTo(lines, "bits_per_raw_sample", n)
    BY <1>2
  <2>2. (IF own # {} THEN lines[Max(own)][2] ELSE IF raw # {} THEN lines[Min(raw)][2] ELSE None)
          = IF own # {} THEN LastIn(lines, own) ELSE FirstIn(lines, raw)
    BY DEF LastIn, FirstIn
  <2> HIDE DEF LastOf, own, raw
  <2> QED
    BY <1>3, <2>1, <2>2 DEF Expected
<1> HIDE DEF info
<1>5. FoldLeft(Line, Unset, lines) = info
  BY <1>4, LoopIsExpected
<1>6. parse_stream_info(lines) = IF \E key \in Own : info[key] = None
                                 THEN Err("InvalidReferenceOutput") ELSE OkWith(info)
  BY <1>5 DEF parse_stream_info
<1>7. probe(captured) = parse_stream_info(lines)
  BY DEF probe, Succeeded
<1> QED
  BY <1>6, <1>7 DEF StreamInfoRight, info

\* The property of the run, for any numbers.
THEOREM StreamInfoIsAsWritten == Spec => []StreamInfoIsRight
<1> DEFINE V == {"codec_name", "sample_rate", "channels", "bits_per_sample",
                 "bits_per_raw_sample", 1, 2, None} \cup Numbers
           L == {<<>>} \cup (V \X V)
<1>1. Usual \in Seq(L) /\ Extra \subseteq L
  BY DEF Usual, Extra
<1> HIDE DEF V, L
<1>2. ASSUME NEW i \in 0 .. 3, NEW j \in 1 .. 4, NEW extra \in BoundedSeq(Extra, 3)
      PROVE  Text(i, extra, j) \in Seq(L)
  <2>1. Len(Usual) = 3
    BY DEF Usual
  <2>2. extra \in Seq(L)
    <3>1. PICK m \in 0 .. 3 : extra \in [1 .. m -> Extra]
      BY Zenon DEF BoundedSeq, SeqOf
    <3>2. extra \in [1 .. m -> L]
      BY <1>1, <3>1
    <3> QED
      BY <3>2
  <2>3. SubSeq(Usual, 1, i) \in Seq(L) /\ SubSeq(Usual, j, 3) \in Seq(L)
    <3>1. \A x \in 1 .. 3 : Usual[x] \in L
      BY <1>1, <2>1, ElementOfSeq
    <3> QED
      BY <1>1, <2>1, <3>1, SubSeqProperties
  <2> QED
    BY <2>2, <2>3, ConcatProperties DEF Text
<1>3. StreamInfoIsRight
  <2>1. Texts \subseteq Seq(L)
    BY <1>2 DEF Texts
  <2>2. ASSUME NEW lines \in Texts PROVE StreamInfoRight(lines)
    <3>1. lines \in Seq({<<>>} \cup (V \X V))
      BY <2>1 DEF L
    <3> QED
      BY <3>1, StreamInfo
  <2> QED
    BY <2>2 DEF StreamInfoIsRight
<1> QED
  BY <1>3, PTL

-----------------------------------------------------------------------------
(* assert_pcm_equal *)

IsTolerance(tolerance) == tolerance \in Nat /\ (tolerance <= Inf \/ tolerance = NaN)

\* What is known of the difference of two samples.
LEMMA DiffOfSamples ==
    ASSUME NEW x \in Sample, NEW y \in Sample
    PROVE  /\ Diff(x, y) = Diff(y, x)
           /\ Diff(x, y) \in Nat /\ (Diff(x, y) <= Inf \/ Diff(x, y) = NaN)
           /\ ~ExceedsTolerance(Diff(x, y), 0) <=> x = y /\ x \notin {Inf, -Inf, NaN}
<1> USE DEF Inf, NaN, Abs
<1>1. CASE x \in Finite /\ y \in Finite
  <2>1. Diff(x, y) = Abs(x - y) /\ Diff(y, x) = Abs(y - x)
    BY <1>1 DEF Diff, Finite
  <2>2. /\ Abs(x - y) = Abs(y - x) /\ Abs(x - y) \in Nat /\ Abs(x - y) <= 200
        /\ Abs(x - y) > 0 <=> x # y
    BY <1>1 DEF Finite
  <2>3. x \notin {Inf, -Inf, NaN}
    BY <1>1 DEF Finite
  <2> QED
    BY <2>1, <2>2, <2>3 DEF ExceedsTolerance
<1>2. CASE x \in {Inf, -Inf, NaN} \/ y \in {Inf, -Inf, NaN}
  <2>1. Diff(x, y) = Diff(y, x) /\ Diff(x, y) \in {Inf, NaN}
    BY <1>2 DEF Diff, Sample, Finite
  <2>2. ExceedsTolerance(Diff(x, y), 0)
    BY <2>1 DEF ExceedsTolerance
  <2>3. x = y => x \in {Inf, -Inf, NaN}
    BY <1>2
  <2> QED
    BY <2>1, <2>2, <2>3
<1> QED
  BY <1>1, <1>2 DEF Sample

\* A wider tolerance accepts no less.
LEMMA InfiniteTolerance ==
    ASSUME NEW diff \in Nat, diff <= Inf \/ diff = NaN,
           NEW tolerance, IsTolerance(tolerance), ~ExceedsTolerance(diff, tolerance)
    PROVE  ~ExceedsTolerance(diff, Inf)
  BY DEF ExceedsTolerance, IsTolerance, Inf, NaN

\* The verdict, in terms of the samples out of tolerance.
Beyond(a, b, tolerance) == {i \in DOMAIN a : ExceedsTolerance(Diff(a[i], b[i]), tolerance)}

LEMMA PcmVerdicts ==
    ASSUME NEW a, NEW b, NEW tolerance
    PROVE  LET verdict == assert_pcm_equal(a, b, tolerance) IN
           /\ Len(a) # Len(b) => verdict = Err("SampleCountMismatch")
           /\ Len(a) = Len(b) /\ Beyond(a, b, tolerance) = {} => verdict = Ok
           /\ Len(a) = Len(b) /\ Beyond(a, b, tolerance) # {} =>
                verdict = [is |-> "PcmMismatch", sample_index |-> Min(Beyond(a, b, tolerance)) - 1]
           /\ verdict = Ok <=> Len(a) = Len(b) /\ Beyond(a, b, tolerance) = {}
           /\ verdict.is = "PcmMismatch" <=> Len(a) = Len(b) /\ Beyond(a, b, tolerance) # {}
<1> DEFINE verdict == assert_pcm_equal(a, b, tolerance)
           beyond == Beyond(a, b, tolerance)
<1>1. verdict = IF Len(a) # Len(b) THEN Err("SampleCountMismatch")
                ELSE IF beyond = {} THEN Ok
                ELSE [is |-> "PcmMismatch", sample_index |-> Min(beyond) - 1]
  BY DEF assert_pcm_equal, Beyond
<1> HIDE DEF verdict, beyond
<1>2. verdict.is = IF Len(a) # Len(b) THEN "SampleCountMismatch"
                   ELSE IF beyond = {} THEN "Ok" ELSE "PcmMismatch"
  BY <1>1 DEF Err, Ok
<1>3. Ok.is = "Ok"
  BY DEF Ok
<1> QED
  BY <1>1, <1>2, <1>3 DEF verdict, beyond

\* assert_pcm_equal on recordings of any length: symmetrical, monotone in the
\* tolerance, exact at tolerance zero, and a mismatch is the first there is.
THEOREM PcmCompares ==
    ASSUME NEW a \in Seq(Sample), NEW b \in Seq(Sample), NEW tolerance, IsTolerance(tolerance)
    PROVE  PcmRight(a, b, tolerance)
<1> DEFINE verdict == assert_pcm_equal(a, b, tolerance)
           beyond == Beyond(a, b, tolerance)
           Alone(i) == assert_pcm_equal(<<a[i]>>, <<b[i]>>, tolerance) = Ok
<1>1. /\ DOMAIN a = 1 .. Len(a) /\ Len(a) \in Nat /\ DOMAIN b = 1 .. Len(b) /\ Len(b) \in Nat
      /\ \A i \in DOMAIN a : a[i] \in Sample
      /\ \A i \in DOMAIN b : b[i] \in Sample
  BY LenProperties, ElementOfSeq
<1>2. ASSUME Len(a) = Len(b), NEW i \in DOMAIN a
      PROVE  /\ Diff(a[i], b[i]) = Diff(b[i], a[i])
             /\ Diff(a[i], b[i]) \in Nat
             /\ Diff(a[i], b[i]) <= Inf \/ Diff(a[i], b[i]) = NaN
             /\ ~ExceedsTolerance(Diff(a[i], b[i]), 0)
                  <=> a[i] = b[i] /\ a[i] \notin {Inf, -Inf, NaN}
  <2> DEFINE x == a[i]
             y == b[i]
  <2>1. x \in Sample /\ y \in Sample
    BY <1>1, <1>2
  <2> HIDE DEF x, y
  <2>2. /\ Diff(x, y) = Diff(y, x)
        /\ Diff(x, y) \in Nat
        /\ Diff(x, y) <= Inf \/ Diff(x, y) = NaN
        /\ ~ExceedsTolerance(Diff(x, y), 0) <=> x = y /\ x \notin {Inf, -Inf, NaN}
    BY <2>1, DiffOfSamples
  <2> QED
    BY <2>2 DEF x, y
<1>3. verdict = assert_pcm_equal(b, a, tolerance)
  <2>1. CASE Len(a) = Len(b)
    <3>1. beyond = Beyond(b, a, tolerance)
      BY <1>1, <1>2, <2>1 DEF Beyond
    <3> QED
      BY <2>1, <3>1 DEF assert_pcm_equal, Beyond
  <2>2. CASE Len(a) # Len(b)
    BY <2>2 DEF assert_pcm_equal
  <2> QED
    BY <2>1, <2>2
<1>4. ASSUME verdict = Ok PROVE assert_pcm_equal(a, b, Inf) = Ok
  <2>1. Len(a) = Len(b) /\ beyond = {}
    BY <1>4, PcmVerdicts
  <2>2. Beyond(a, b, Inf) = {}
    <3> SUFFICES ASSUME NEW i \in DOMAIN a PROVE ~ExceedsTolerance(Diff(a[i], b[i]), Inf)
      BY DEF Beyond
    <3>1. ~ExceedsTolerance(Diff(a[i], b[i]), tolerance)
      BY <2>1 DEF Beyond
    <3>2. Diff(a[i], b[i]) \in Nat /\ (Diff(a[i], b[i]) <= Inf \/ Diff(a[i], b[i]) = NaN)
      BY <1>2, <2>1
    <3> HIDE DEF verdict, beyond
    <3> QED
      BY <3>1, <3>2, InfiniteTolerance
  <2> QED
    BY <2>1, <2>2, PcmVerdicts
<1>5. ASSUME tolerance = 0
      PROVE  verdict = Ok <=> a = b /\ \A i \in DOMAIN a : a[i] \notin {Inf, -Inf, NaN}
  <2>1. verdict = Ok <=> Len(a) = Len(b) /\ beyond = {}
    BY PcmVerdicts
  <2>2. a = b <=> Len(a) = Len(b) /\ \A i \in DOMAIN a : a[i] = b[i]
    BY <1>1, SeqEqual
  <2>3. Len(a) = Len(b) =>
           (beyond = {} <=> \A i \in DOMAIN a : a[i] = b[i] /\ a[i] \notin {Inf, -Inf, NaN})
    BY <1>2, <1>5 DEF Beyond
  <2> HIDE DEF verdict, beyond
  <2> QED
    BY <2>1, <2>2, <2>3
<1>6. ASSUME verdict.is = "PcmMismatch"
      PROVE  LET at == verdict.sample_index + 1
             IN  ~Alone(at) /\ \A i \in 1 .. at - 1 : Alone(i)
  <2> DEFINE m == Min(beyond)
  <2>1. Len(a) = Len(b) /\ beyond # {}
    BY <1>6, PcmVerdicts
  <2>2. verdict.sample_index = m - 1
    <3>1. verdict = [is |-> "PcmMismatch", sample_index |-> m - 1]
      BY <2>1, PcmVerdicts
    <3> HIDE DEF verdict, m
    <3> QED
      BY <3>1
  <2>3. beyond \subseteq 1 .. Len(a) /\ beyond \subseteq Nat
    BY <1>1 DEF Beyond
  <2>4. m \in beyond /\ \A i \in beyond : m <= i
    <3> HIDE DEF beyond
    <3>1. \E i \in beyond : \A j \in beyond : i =< j
      BY <2>1, <2>3, LeastNat
    <3> QED
      BY <3>1 DEF Min
  <2>5. ASSUME NEW i \in DOMAIN a PROVE Alone(i) <=> i \notin beyond
    <3> DEFINE p == <<a[i]>>
               q == <<b[i]>>
    <3>1. Len(p) = 1 /\ Len(q) = 1 /\ DOMAIN p = 1 .. 1 /\ p[1] = a[i] /\ q[1] = b[i]
      OBVIOUS
    <3> HIDE DEF p, q, beyond
    <3>2. Beyond(p, q, tolerance) = {} <=> ~ExceedsTolerance(Diff(a[i], b[i]), tolerance)
      BY <3>1 DEF Beyond
    <3>3. assert_pcm_equal(p, q, tolerance) = Ok <=> Beyond(p, q, tolerance) = {}
      BY <3>1, PcmVerdicts
    <3>4. i \in beyond <=> ExceedsTolerance(Diff(a[i], b[i]), tolerance)
      BY DEF Beyond, beyond
    <3> QED
      BY <3>2, <3>3, <3>4 DEF p, q
  <2>6. m \in Nat /\ m \in DOMAIN a /\ (m - 1) + 1 = m
    BY <1>1, <2>3, <2>4
  <2>7. \A i \in 1 .. m - 1 : i \in DOMAIN a /\ i \notin beyond
    BY <1>1, <2>3, <2>4, <2>6
  <2> HIDE DEF m, beyond, verdict, Alone
  <2>8. ~Alone(m) /\ \A i \in 1 .. m - 1 : Alone(i)
    BY <2>4, <2>5, <2>6, <2>7
  <2> QED
    BY <2>2, <2>6, <2>8
<1> QED
  BY <1>3, <1>4, <1>5, <1>6 DEF PcmRight

\* The property of the run, for any samples and blocks of any bound MaxBlock.
THEOREM PcmVerdictIsRight == Spec => []PcmVerdict
<1>1. ASSUME NEW a \in BoundedSeq(Samples \cup {Inf, -Inf, NaN}, MaxBlock),
             NEW b \in BoundedSeq(Samples \cup {Inf, -Inf, NaN}, MaxBlock),
             NEW tolerance \in {0, 1, Inf, NaN}
      PROVE  PcmRight(a, b, tolerance)
  <2>1. Samples \cup {Inf, -Inf, NaN} \subseteq Sample
    BY ReferenceToolsAssumption DEF Sample
  <2> HIDE DEF Sample
  <2>2. a \in Seq(Sample) /\ b \in Seq(Sample)
    <3>1. ASSUME NEW s \in BoundedSeq(Samples \cup {Inf, -Inf, NaN}, MaxBlock) PROVE s \in Seq(Sample)
      <4>1. PICK m \in 0 .. MaxBlock : s \in [1 .. m -> Samples \cup {Inf, -Inf, NaN}]
        BY Zenon DEF BoundedSeq, SeqOf
      <4>2. m \in Nat /\ s \in [1 .. m -> Sample]
        BY <2>1, <4>1, ReferenceToolsAssumption
      <4> QED
        BY <4>2
    <3> QED
      BY <3>1
  <2>3. IsTolerance(tolerance)
    BY DEF IsTolerance, Inf, NaN
  <2> QED
    BY <2>2, <2>3, PcmCompares
<1>2. PcmVerdict
  BY <1>1 DEF PcmVerdict
<1> QED
  BY <1>2, PTL

-----------------------------------------------------------------------------
(* The frames *)

\* The two frames have the same size.
Alike(a, b) ==
    /\ IsFrame(a) /\ IsFrame(b)
    /\ a.width = b.width /\ a.height = b.height

LEMMA FrameTypes ==
    ASSUME NEW f, IsFrame(f)
    PROVE  /\ f.width \in Nat /\ f.height \in Nat
           /\ f.raw \in Seq(0 .. 255)
           /\ DOMAIN f.raw = 1 .. Len(f.raw) /\ Len(f.raw) \in Nat
           /\ Len(f.raw) = 3 * (f.width * f.height)
           /\ \A i \in DOMAIN f.raw : f.raw[i] \in 0 .. 255
<1>1. f.width \in Nat /\ f.height \in Nat /\ f.raw \in Seq(0 .. 255)
  BY DEF IsFrame
<1>2. DOMAIN f.raw = 1 .. Len(f.raw) /\ Len(f.raw) \in Nat
  BY <1>1, LenProperties
<1>3. \A i \in DOMAIN f.raw : f.raw[i] \in 0 .. 255
  BY <1>1, <1>2, ElementOfSeq
<1>4. Len(f.raw) = 3 * (f.width * f.height)
  BY DEF IsFrame
<1> QED
  BY <1>1, <1>2, <1>3, <1>4

LEMMA SquareIsZero ==
    ASSUME NEW x \in Int, NEW y \in Int
    PROVE  (x - y) * (x - y) \in Nat /\ ((x - y) * (x - y) = 0 <=> x = y)
<1> DEFINE d == x - y
<1>1. d \in Int /\ (d = 0 <=> x = y)
  OBVIOUS
<1> HIDE DEF d
<1>2. d * d \in Nat /\ (d * d = 0 <=> d = 0)
  BY <1>1, SMT
<1> QED
  BY <1>1, <1>2 DEF d

\* The squared error is that of the samples that differ.
LEMMA SquaredSumIsZero ==
    ASSUME NEW a, NEW b, Alike(a, b)
    PROVE  /\ SquaredSum(a, b) \in Nat
           /\ SquaredSum(a, b) = 0 <=> \A i \in DOMAIN a.raw : a.raw[i] = b.raw[i]
<1> DEFINE S == DOMAIN a.raw
           w == [i \in S |-> (a.raw[i] - b.raw[i]) * (a.raw[i] - b.raw[i])]
           f(x) == (a.raw[x] - b.raw[x]) * (a.raw[x] - b.raw[x])
           body(g) == [s \in SUBSET S |-> IF s = {} THEN 0
                     ELSE f(CHOOSE x \in s : TRUE) + g[s \ {CHOOSE x \in s : TRUE}]]
           it == CHOOSE g : g = body(g)
<1>0. /\ S = 1 .. Len(a.raw) /\ Len(a.raw) \in Nat /\ S = DOMAIN b.raw
      /\ \A i \in S : a.raw[i] \in 0 .. 255 /\ b.raw[i] \in 0 .. 255
  <2>1. DOMAIN b.raw = 1 .. Len(b.raw) /\ Len(b.raw) = Len(a.raw)
    BY FrameTypes DEF Alike
  <2> QED
    BY SMTT(30), <2>1, FrameTypes DEF Alike
<1>1. IsFiniteSet(S)
  BY <1>0, FS_Interval
<1>2. \A i \in S : w[i] \in Nat /\ (w[i] = 0 <=> a.raw[i] = b.raw[i])
  <2> SUFFICES ASSUME NEW i \in S PROVE w[i] \in Nat /\ (w[i] = 0 <=> a.raw[i] = b.raw[i])
    OBVIOUS
  <2> DEFINE x == a.raw[i]
             y == b.raw[i]
  <2>1. x \in Int /\ y \in Int
    <3>1. x \in 0 .. 255 /\ y \in 0 .. 255
      BY <1>0
    <3> HIDE DEF x, y
    <3> QED
      BY <3>1
  <2>2. w[i] = (x - y) * (x - y)
    OBVIOUS
  <2> HIDE DEF x, y, w
  <2>3. w[i] \in Nat /\ (w[i] = 0 <=> x = y)
    BY <2>1, <2>2, SquareIsZero
  <2> QED
    BY <2>3 DEF x, y
<1>3. w \in [S -> Nat]
  BY <1>2
<1>4. PICK g : IsSum(g, S, w)
  <2> HIDE DEF S, w
  <2> QED
    BY <1>1, <1>3, SumExists
<1>5. g = body(g)
  <2>1. g \in [SUBSET S -> Nat]
    BY <1>4 DEF IsSum
  <2>2. ASSUME NEW s \in SUBSET S, s # {}
        PROVE  w[CHOOSE x \in s : TRUE] = f(CHOOSE x \in s : TRUE)
    <3>1. (CHOOSE x \in s : TRUE) \in S
      BY <2>2
    <3> QED
      BY <3>1
  <2>3. \A s \in SUBSET S : g[s] = body(g)[s]
    <3> HIDE DEF w, f
    <3> QED
      BY <1>4, <2>2 DEF IsSum
  <2> QED
    BY <2>1, <2>3
<1>6. it = body(it)
  <2> HIDE DEF body
  <2> QED
    BY <1>5, Zenon
<1>7. SquaredSum(a, b) = it[S]
  BY DEF SquaredSum, MapThenSumSet, MapThenFoldSet
<1> DEFINE F == {s \in SUBSET S : it[s] = g[s]}
<1> HIDE DEF it
<1>8. {} \in F
  BY <1>5, <1>6
<1>9. ASSUME NEW s \in SUBSET S, s # {}, \A x \in s : s \ {x} \in F
      PROVE  s \in F
  <2> HIDE DEF f
  <2> DEFINE c == CHOOSE x \in s : TRUE
  <2>1. c \in s /\ s \ {c} \in SUBSET S
    BY <1>9
  <2>2. it[s \ {c}] = g[s \ {c}]
    BY <1>9, <2>1
  <2>3. it[s] = f(c) + it[s \ {c}] /\ g[s] = f(c) + g[s \ {c}]
    BY <1>5, <1>6, <1>9, Zenon
  <2> QED
    BY <1>9, <2>2, <2>3
<1>10. S \in F
  <2> HIDE DEF F, S
  <2> QED
    BY <1>1, <1>8, <1>9, FiniteInduction
<1>11. SquaredSum(a, b) = g[S]
  BY <1>7, <1>10
<1>12. g[S] \in Nat
  BY <1>4 DEF IsSum
<1>13. g[S] = 0 <=> \A i \in S : w[i] = 0
  <2> HIDE DEF S, w
  <2> QED
    BY <1>1, <1>3, <1>4, SumIsZero
<1> QED
  BY <1>2, <1>11, <1>12, <1>13

-----------------------------------------------------------------------------
(* The first difference *)

\* A byte of a frame belongs to one pixel, in one row and column.
LEMMA PixelOfByte ==
    ASSUME NEW w \in Nat, NEW h \in Nat, NEW m \in 1 .. 3 * (w * h)
    PROVE  LET d == (m - 1) \div 3 IN
           /\ d \in Nat /\ d < w * h /\ 3 * d + 1 <= m /\ m <= 3 * d + 3
           /\ d % w \in 0 .. w - 1 /\ d \div w \in 0 .. h - 1
           /\ (d \div w) * w + (d % w) = d
<1> DEFINE p == w * h
           d == (m - 1) \div 3
           x == d % w
           y == d \div w
<1>1. p \in Nat /\ m \in 1 .. 3 * p
  <2>1. p \in Nat
    BY SMT
  <2> QED
    BY <2>1
<1>2. d \in Nat /\ d < p /\ 3 * d + 1 <= m /\ m <= 3 * d + 3
  <2> HIDE DEF p
  <2> QED
    BY <1>1, SMT
<1> HIDE DEF d
<1>3. w > 0
  <2>1. w = 0 => p = 0
    BY SMT
  <2> HIDE DEF p
  <2> QED
    BY <1>1, <1>2, <2>1
<1>4. y \in Nat /\ x \in 0 .. w - 1 /\ y * w + x = d
  BY <1>2, <1>3, SMT
<1> HIDE DEF x, y
<1>5. y < h
  <2> SUFFICES ASSUME h <= y PROVE FALSE
    BY <1>4
  <2>1. y * w >= h * w
    BY <1>4, SMT
  <2>2. y * w \in Nat /\ h * w = p
    BY <1>4, SMT
  <2> DEFINE q == y * w
  <2> HIDE DEF p, q
  <2>3. q \in Nat /\ q >= p /\ q + x = d
    BY <1>4, <2>1, <2>2 DEF q
  <2> QED
    BY <1>1, <1>2, <1>4, <2>3
<1> QED
  BY <1>2, <1>4, <1>5 DEF d, x, y

\* The pixels above, or left in the same row, are the ones before.
LEMMA PixelsBefore ==
    ASSUME NEW w \in Nat, NEW x \in 0 .. w - 1, NEW y \in Nat,
           NEW u \in 0 .. w - 1, NEW v \in 0 .. y, v < y \/ u < x
    PROVE  v * w + u \in Nat /\ v * w + u < y * w + x
<1>1. v * w \in Nat /\ y * w \in Nat
  BY SMT
<1>2. CASE v < y
  <2>1. (v + 1) * w <= y * w
    BY <1>2, SMT
  <2>2. (v + 1) * w = v * w + w
    BY SMT
  <2> DEFINE p == v * w
             q == y * w
  <2>3. p \in Nat /\ q \in Nat /\ p + w <= q
    BY <1>1, <2>1, <2>2
  <2> HIDE DEF p, q
  <2>4. p + u \in Nat /\ p + u < q + x
    BY <2>3
  <2> QED
    BY <2>4 DEF p, q
<1>3. CASE v = y
  <2>1. u < x
    BY <1>3
  <2> DEFINE q == y * w
  <2>2. q \in Nat
    BY <1>1
  <2> HIDE DEF q
  <2>3. q + u \in Nat /\ q + u < q + x
    BY <2>1, <2>2
  <2> QED
    BY <1>3, <2>3 DEF q
<1> QED
  BY <1>2, <1>3

\* The three bytes of a pixel.
LEMMA BytesOfPixel ==
    ASSUME NEW f, IsFrame(f), NEW d \in Nat, d < f.width * f.height
    PROVE  /\ \A c \in 1 .. 3 : 3 * d + c \in DOMAIN f.raw
           /\ PixelBytes(f, d) = [c \in 1 .. 3 |-> f.raw[3 * d + c]]
<1> DEFINE p == f.width * f.height
           s == f.raw
           t == SubSeq(s, 3 * d + 1, 3 * d + 3)
<1>1. /\ f.width \in Nat /\ f.height \in Nat
      /\ s \in Seq(0 .. 255) /\ DOMAIN s = 1 .. Len(s) /\ Len(s) = 3 * p
  BY FrameTypes
<1>2. p \in Nat
  BY <1>1, SMT
<1>3. d < p
  OBVIOUS
<1> HIDE DEF p, s
<1>4. /\ \A c \in 1 .. 3 : 3 * d + c \in DOMAIN s
      /\ 3 * d + 1 \in 1 .. Len(s) + 1 /\ 3 * d + 3 \in 0 .. Len(s)
      /\ 3 * d + 3 - (3 * d + 1) + 1 = 3
      /\ \A c \in 1 .. 3 : 3 * d + 1 + c - 1 = 3 * d + c
      /\ 3 * d + 1 \in Int /\ 3 * d + 3 \in Int
  BY <1>1, <1>2, <1>3
<1>5. t = [c \in 1 .. 3 |-> s[3 * d + c]]
  <2>1. t \in Seq(0 .. 255) /\ Len(t) = 3 /\ \A c \in 1 .. 3 : t[c] = s[3 * d + 1 + c - 1]
    <3> DEFINE from == 3 * d + 1
               to == 3 * d + 3
    <3>1. from \in 1 .. Len(s) + 1 /\ to \in from - 1 .. Len(s) /\ to - from + 1 = 3
      BY <1>1, <1>2, <1>3
    <3> HIDE DEF from, to
    <3>4. from \in Int /\ to \in Int
      BY <1>1, <3>1
    <3>5. \A i \in from .. to : s[i] \in 0 .. 255
      <4>1. s \in Seq(0 .. 255) /\ \A i \in from .. to : i \in 1 .. Len(s)
        BY <1>1, <1>2, <3>1, <3>4
      <4> QED
        BY <4>1, ElementOfSeq
    <3>2. /\ SubSeq(s, from, to) \in Seq(0 .. 255)
          /\ Len(SubSeq(s, from, to)) = IF from <= to THEN to - from + 1 ELSE 0
          /\ \A c \in 1 .. to - from + 1 : SubSeq(s, from, to)[c] = s[from + c - 1]
      BY <3>4, <3>5, SubSeqProperties
    <3>3. /\ SubSeq(s, from, to) \in Seq(0 .. 255)
          /\ Len(SubSeq(s, from, to)) = 3
          /\ \A c \in 1 .. 3 : SubSeq(s, from, to)[c] = s[from + c - 1]
      BY <3>1, <3>2
    <3> QED
      BY <3>3 DEF from, to
  <2> HIDE DEF t
  <2>2. DOMAIN t = 1 .. 3 /\ t = [c \in DOMAIN t |-> t[c]]
    BY <2>1
  <2>3. \A c \in 1 .. 3 : t[c] = s[3 * d + c]
    BY <1>4, <2>1
  <2> QED
    BY <2>2, <2>3
<1> QED
  BY <1>4, <1>5 DEF s, t, PixelBytes

PixelAt(f, x, y) == [c \in 1 .. 3 |-> f.raw[3 * (y * f.width + x) + c]]

\* What FrameRight asks of the report.
LocatesFirst(a, b) ==
    LET exact == FirstDifference(a, b)
        x == exact.pixel[1]
        y == exact.pixel[2]
    IN
    /\ x \in 0 .. a.width - 1 /\ y \in 0 .. a.height - 1
    /\ exact.generated = PixelAt(a, x, y) /\ exact.reference = PixelAt(b, x, y)
    /\ exact.generated # exact.reference
    /\ \A u \in 0 .. a.width - 1, v \in 0 .. y :
          v < y \/ u < x => PixelAt(a, u, v) = PixelAt(b, u, v)

LEMMA ReportsFirst ==
    ASSUME NEW a, NEW b, Alike(a, b), a.raw # b.raw
    PROVE  LocatesFirst(a, b)
<1> DEFINE D == {i \in DOMAIN a.raw : a.raw[i] # b.raw[i]}
           m == Min(D)
           d == (m - 1) \div 3
           w == a.width
           h == a.height
           x == d % w
           y == d \div w
<1>1. /\ IsFrame(a) /\ IsFrame(b) /\ b.width = w /\ b.height = h
      /\ w \in Nat /\ h \in Nat
      /\ DOMAIN a.raw = 1 .. Len(a.raw) /\ Len(a.raw) \in Nat
      /\ DOMAIN b.raw = DOMAIN a.raw /\ Len(b.raw) = Len(a.raw)
      /\ Len(a.raw) = 3 * (w * h)
      /\ a.raw \in Seq(0 .. 255) /\ b.raw \in Seq(0 .. 255)
  <2>1. IsFrame(a) /\ IsFrame(b) /\ b.width = w /\ b.height = h
    BY DEF Alike
  <2>2. /\ w \in Nat /\ h \in Nat /\ a.raw \in Seq(0 .. 255)
        /\ DOMAIN a.raw = 1 .. Len(a.raw) /\ Len(a.raw) \in Nat /\ Len(a.raw) = 3 * (w * h)
    BY <2>1, FrameTypes
  <2>3. /\ b.raw \in Seq(0 .. 255)
        /\ DOMAIN b.raw = 1 .. Len(b.raw) /\ Len(b.raw) = 3 * (b.width * b.height)
    BY <2>1, FrameTypes
  <2> QED
    BY <2>1, <2>2, <2>3
<1>2. m \in D /\ \A i \in D : m <= i
  <2>1. D \subseteq Nat
    BY <1>1
  <2>2. D # {}
    <3>1. a.raw = b.raw \/ \E i \in 1 .. Len(a.raw) : a.raw[i] # b.raw[i]
      <4> DEFINE s == a.raw
                 t == b.raw
      <4>1. s \in Seq(0 .. 255) /\ t \in Seq(0 .. 255) /\ Len(s) = Len(t)
        BY <1>1
      <4> HIDE DEF s, t
      <4>2. s = t \/ \E i \in 1 .. Len(s) : s[i] # t[i]
        BY <4>1, SeqEqual
      <4> QED
        BY <4>2 DEF s, t
    <3> QED
      BY <1>1, <3>1
  <2> HIDE DEF D
  <2>3. \E n \in D : \A i \in D : n <= i
    BY <2>1, <2>2, LeastNat
  <2> QED
    BY <2>3 DEF Min
<1>3. /\ m \in 1 .. 3 * (w * h)
      /\ a.raw[m] # b.raw[m]
      /\ \A i \in DOMAIN a.raw : i < m => a.raw[i] = b.raw[i]
  <2>1. \A i \in DOMAIN a.raw : i \in Nat
    BY <1>1
  <2>2. m \in DOMAIN a.raw /\ a.raw[m] # b.raw[m]
    BY <1>2
  <2>3. \A i \in DOMAIN a.raw : a.raw[i] # b.raw[i] => m <= i
    BY <1>2
  <2> HIDE DEF m
  <2> QED
    BY <1>1, <2>1, <2>2, <2>3
<1> HIDE DEF m, D
<1>4. /\ d \in Nat /\ d < w * h /\ 3 * d + 1 <= m /\ m <= 3 * d + 3
      /\ x \in 0 .. w - 1 /\ y \in 0 .. h - 1
      /\ y * w + x = d
  <2> HIDE DEF w, h
  <2> QED
    BY <1>1, <1>3, PixelOfByte
<1>5. /\ FirstDifference(a, b).pixel[1] = x
      /\ FirstDifference(a, b).pixel[2] = y
      /\ FirstDifference(a, b).generated = PixelBytes(a, d)
      /\ FirstDifference(a, b).reference = PixelBytes(b, d)
  <2>1. FirstDifference(a, b) = [is |-> "FrameNotExact", pixel |-> Position(d, a),
                                 generated |-> PixelBytes(a, d), reference |-> PixelBytes(b, d)]
    BY DEF FirstDifference, m, D
  <2>2. Position(d, a) = <<x, y>>
    BY DEF Position
  <2> HIDE DEF d, x, y
  <2> QED
    BY <2>1, <2>2
<1> HIDE DEF d, x, y, w, h
<1>6. /\ PixelBytes(a, d) = [c \in 1 .. 3 |-> a.raw[3 * d + c]]
      /\ PixelBytes(b, d) = [c \in 1 .. 3 |-> b.raw[3 * d + c]]
  <2>1. d < a.width * a.height /\ d < b.width * b.height
    BY <1>1, <1>4 DEF w, h
  <2> QED
    BY SMTT(30), <1>1, <1>4, <2>1, BytesOfPixel
<1>7. PixelAt(a, x, y) = PixelBytes(a, d) /\ PixelAt(b, x, y) = PixelBytes(b, d)
  <2>1. /\ PixelAt(a, x, y) = [c \in 1 .. 3 |-> a.raw[3 * (y * w + x) + c]]
        /\ PixelAt(b, x, y) = [c \in 1 .. 3 |-> b.raw[3 * (y * w + x) + c]]
    BY <1>1, Zenon DEF PixelAt, w
  <2> QED
    BY <1>4, <1>6, <2>1, Zenon
<1>8. PixelBytes(a, d) # PixelBytes(b, d)
  <2> DEFINE c == m - 3 * d
  <2>1. c \in 1 .. 3 /\ 3 * d + c = m
    BY <1>3, <1>4
  <2> HIDE DEF c
  <2>2. PixelBytes(a, d)[c] = a.raw[m] /\ PixelBytes(b, d)[c] = b.raw[m]
    BY <1>6, <2>1
  <2> QED
    BY <1>3, <2>2
<1>9. ASSUME NEW u \in 0 .. w - 1, NEW v \in 0 .. y, v < y \/ u < x
      PROVE  PixelAt(a, u, v) = PixelAt(b, u, v)
  <2> DEFINE q == v * w + u
  <2>1. q \in Nat /\ q < y * w + x
    <3>1. w \in Nat /\ x \in 0 .. w - 1 /\ y \in Nat
      BY <1>1, <1>4
    <3>2. v * w + u \in Nat /\ v * w + u < y * w + x
      BY <1>9, <3>1, PixelsBefore, Zenon
    <3> QED
      BY <3>2, Zenon
  <2>2. q < d
    BY <1>4, <2>1
  <2>3. /\ PixelAt(a, u, v) = [c \in 1 .. 3 |-> a.raw[3 * q + c]]
        /\ PixelAt(b, u, v) = [c \in 1 .. 3 |-> b.raw[3 * q + c]]
    BY <1>1, Zenon DEF PixelAt, w
  <2> HIDE DEF q
  <2>4. \A c \in 1 .. 3 : 3 * q + c < m
    BY <1>3, <1>4, <2>1, <2>2
  <2>5. \A c \in 1 .. 3 : 3 * q + c \in DOMAIN a.raw
    <3>1. q < a.width * a.height
      <4> DEFINE p == w * h
      <4>1. p \in Nat
        BY <1>1, SMT
      <4>2. p = a.width * a.height /\ d < p
        BY <1>4 DEF w, h
      <4> HIDE DEF p
      <4>3. q < p
        BY <1>4, <2>1, <2>2, <4>1, <4>2
      <4> QED
        BY <4>2, <4>3
    <3> QED
      BY <1>1, <2>1, <3>1, BytesOfPixel
  <2>6. \A c \in 1 .. 3 : a.raw[3 * q + c] = b.raw[3 * q + c]
    BY <1>3, <2>4, <2>5
  <2> QED
    BY <2>3, <2>6, Zenon
<1>10. /\ x \in 0 .. a.width - 1 /\ y \in 0 .. a.height - 1
       /\ \A u \in 0 .. a.width - 1, v \in 0 .. y :
             v < y \/ u < x => PixelAt(a, u, v) = PixelAt(b, u, v)
  BY <1>4, <1>9 DEF w, h
<1> QED
  BY <1>5, <1>7, <1>8, <1>10 DEF LocatesFirst

\* The two assertions open the reference in the same way.
LEMMA OpenedAlike ==
    ASSUME NEW a, NEW b, IsFrame(a), IsFrame(b)
    PROVE  /\ Opened(a, b) = Ok => Alike(a, b)
           /\ Opened(a, b) # Ok => Opened(a, b).is \in {"ImageDecode", "ImageDimensionMismatch"}
  BY DEF Opened, Alike, SameDimensions, Ok, Err

\* Similarity of two frames of one size, by their squared error.
LEMMA SimilarWhen ==
    ASSUME NEW a, NEW b, Opened(a, b) = Ok, NEW allowed
    PROVE  assert_image_similar(a, b, allowed).is
               = IF Below(a, b, allowed) THEN "ImagePsnr" ELSE "Ok"
<1>1. assert_image_similar(a, b, allowed)
          = IF Below(a, b, allowed) THEN Err("ImagePsnr") ELSE Ok
  BY DEF assert_image_similar
<1> QED
  BY <1>1 DEF Err, Ok

\* assert_frame_exact and assert_image_similar on frames of any size: the two
\* agree on what is exact, and the report of the first names the first pixel
\* that differs, in reading order, and its bytes.
THEOREM FramesCompare ==
    ASSUME NEW a, NEW b, IsFrame(a), IsFrame(b)
    PROVE  FrameRight(a, b)
<1> DEFINE exact == assert_frame_exact(a, b)
<1>1. CASE Opened(a, b) # Ok
  <2>1. exact = Opened(a, b) /\ \A allowed : assert_image_similar(a, b, allowed) = Opened(a, b)
    BY <1>1 DEF assert_frame_exact, assert_image_similar
  <2>2. exact.is # "Ok" /\ exact.is # "FrameNotExact"
    BY <1>1, <2>1, OpenedAlike
  <2>3. assert_image_similar(a, b, 0).is # "Ok"
    BY <2>1, <2>2
  <2> HIDE DEF exact
  <2> QED
    BY <2>2, <2>3 DEF FrameRight, exact
<1>2. CASE Opened(a, b) = Ok
  <2>1. Alike(a, b)
    BY <1>2, OpenedAlike
  <2> DEFINE error == SquaredSum(a, b)
             n == Len(a.raw)
  <2>2. /\ error \in Nat /\ n \in Nat
        /\ error = 0 <=> a.raw = b.raw
    <3>1. /\ DOMAIN a.raw = 1 .. n /\ n \in Nat /\ n = Len(b.raw)
          /\ a.raw \in Seq(0 .. 255) /\ b.raw \in Seq(0 .. 255)
      <4>1. Len(b.raw) = 3 * (b.width * b.height) /\ b.width = a.width /\ b.height = a.height
        BY <2>1, FrameTypes DEF Alike
      <4>2. DOMAIN a.raw = 1 .. n /\ n \in Nat /\ n = 3 * (a.width * a.height)
        BY FrameTypes
      <4> QED
        BY <4>1, <4>2, FrameTypes
    <3>2. error \in Nat /\ (error = 0 <=> \A i \in DOMAIN a.raw : a.raw[i] = b.raw[i])
      BY <2>1, SquaredSumIsZero
    <3>3. a.raw = b.raw <=> \A i \in DOMAIN a.raw : a.raw[i] = b.raw[i]
      <4> DEFINE s == a.raw
                 t == b.raw
      <4>1. s \in Seq(0 .. 255) /\ t \in Seq(0 .. 255) /\ Len(s) = Len(t) /\ DOMAIN s = 1 .. Len(s)
        BY <3>1
      <4> HIDE DEF s, t
      <4>2. s = t <=> \A i \in DOMAIN s : s[i] = t[i]
        BY <4>1, SeqEqual
      <4> QED
        BY <4>2 DEF s, t
    <3> HIDE DEF error, n
    <3> QED
      BY <3>1, <3>2, <3>3
  <2>3. /\ Below(a, b, 0) <=> error > 0
        /\ Below(a, b, 1) <=> error > n
        /\ ~Below(a, b, NaN)
    <3>1. /\ Below(a, b, 0) <=> error > 0 * n
          /\ Below(a, b, 1) <=> error > 1 * n
          /\ ~Below(a, b, NaN)
      BY DEF Below, NaN
    <3> HIDE DEF error, n
    <3> QED
      BY <2>2, <3>1
  <2>4. assert_image_similar(a, b, 0).is = "Ok" <=> a.raw = b.raw
    <3>1. assert_image_similar(a, b, 0).is = "Ok" <=> ~(error > 0)
      BY <1>2, <2>3, SimilarWhen
    <3> HIDE DEF error
    <3> QED
      BY <2>2, <3>1
  <2>5. CASE a.raw = b.raw
    <3>1. exact.is = "Ok"
      BY <1>2, <2>5 DEF assert_frame_exact, Ok
    <3>2. ~Below(a, b, 0) /\ ~Below(a, b, 1) /\ ~Below(a, b, NaN)
      <4> HIDE DEF error, n
      <4> QED
        BY <2>2, <2>3, <2>5
    <3>3. \A allowed \in {0, 1, NaN} : assert_image_similar(a, b, allowed).is = "Ok"
      BY <1>2, <3>2, SimilarWhen
    <3> HIDE DEF exact
    <3> QED
      BY <2>4, <2>5, <3>1, <3>3 DEF FrameRight, exact
  <2>6. CASE a.raw # b.raw
    <3>1. exact = FirstDifference(a, b)
      BY <1>2, <2>6 DEF assert_frame_exact
    <3>2. exact.is = "FrameNotExact"
      <4> HIDE DEF exact
      <4> QED
        BY <3>1 DEF FirstDifference
    <3>3. LocatesFirst(a, b)
      BY <2>1, <2>6, ReportsFirst
    <3>4. /\ exact.pixel[1] \in 0 .. a.width - 1
          /\ exact.pixel[2] \in 0 .. a.height - 1
          /\ exact.generated = PixelAt(a, exact.pixel[1], exact.pixel[2])
          /\ exact.reference = PixelAt(b, exact.pixel[1], exact.pixel[2])
          /\ exact.generated # exact.reference
          /\ \A u \in 0 .. a.width - 1, v \in 0 .. exact.pixel[2] :
                v < exact.pixel[2] \/ u < exact.pixel[1] => PixelAt(a, u, v) = PixelAt(b, u, v)
      <4> HIDE DEF exact
      <4> QED
        BY <3>1, <3>3, Zenon DEF LocatesFirst
    <3> HIDE DEF exact
    <3> QED
      BY <2>4, <2>6, <3>2, <3>4, Zenon DEF FrameRight, PixelAt, exact
  <2> QED
    BY <2>5, <2>6
<1> QED
  BY <1>1, <1>2

\* The same of the frames that the runs compare.
THEOREM FrameVerdictIsRight == Spec => []FrameVerdict
<1>1. IsFrame(Undecodable)
  <2>1. <<>> \in Seq(0 .. 255) /\ Len(<<>>) = 0
    BY EmptySeq
  <2> QED
    BY <2>1 DEF IsFrame, Undecodable
<1>2. FrameVerdict
  BY <1>1, FramesCompare, ReferenceToolsAssumption DEF FrameVerdict
<1>3. FrameVerdict'
  BY <1>1, FramesCompare, ReferenceToolsAssumption DEF FrameVerdict
<1> QED
  BY <1>2, <1>3, PTL DEF Spec

-----------------------------------------------------------------------------
(* The window of ssim *)

\* A number below the modulus is its own remainder.
LEMMA SmallRemainder ==
    ASSUME NEW a \in Nat, NEW n \in Nat, a < n
    PROVE  a % n = a
<1> QED
  BY SMT

\* The window of a position reaches five places to either side.
LEMMA WindowAt ==
    ASSUME NEW len \in Nat, NEW at \in 0 .. len - 1, NEW w \in 0 .. WINDOW - 1
    PROVE  /\ Window(at, len)[w] = mirror(at + w - half, len)
           /\ at + w - half \in -5 .. len + 4
<1>1. half = 5 /\ WINDOW = 11
  BY DEF half, WINDOW
<1> QED
  BY <1>1 DEF Window

\* mirror on a side of more than half a window: the index itself inside, its
\* reflection without the edge pixel outside.
LEMMA MirrorReflects ==
    ASSUME NEW len \in Nat \ {0}, 2 * len < UsizeEnd, half < len, NEW idx \in -5 .. len + 4
    PROVE  mirror(idx, len) = IF idx < 0 THEN -idx
                              ELSE IF idx >= len THEN 2 * len - idx - 2
                              ELSE idx
<1>1. half = 5
  BY DEF half, WINDOW
<1>2. len \in Nat /\ UsizeEnd \in Nat /\ 2 * len < UsizeEnd
  BY ComparisonAssumption
<1>3. CASE idx < 0
  <2>1. -idx \in Nat /\ -idx < len
    BY <1>1, <1>2, <1>3
  <2> QED
    BY <2>1, <1>2, <1>3, SmallRemainder DEF mirror
<1>4. CASE idx >= len
  <2>1. 2 * len - idx - 2 \in Nat /\ 2 * len - idx - 2 < UsizeEnd
    BY <1>1, <1>2, <1>4
  <2> QED
    BY <2>1, <1>2, <1>4, SmallRemainder DEF mirror
<1>5. CASE 0 <= idx /\ idx < len
  BY <1>5, <1>2 DEF mirror
<1> QED
  BY <1>3, <1>4, <1>5, <1>2

\* The last window of a side that is too short asks for a negative place,
\* which wraps to one past the end of any image.
LEMMA ShortSideLeaves ==
    ASSUME NEW len \in Nat \ {0}, ~(half < len)
    PROVE  ~InBounds(len)
<1>1. half = 5 /\ WINDOW = 11
  BY DEF half, WINDOW
<1>2. /\ len \in Nat /\ len >= 1 /\ len <= 5
      /\ UsizeEnd \in Nat /\ UsizeEnd >= 65536
  BY <1>1, ComparisonAssumption
<1>3. len - 1 \in 0 .. len - 1 /\ 10 \in 0 .. WINDOW - 1
  BY <1>1, <1>2
<1>4. Window(len - 1, len)[10] = mirror(len + 4, len)
  <2>1. len - 1 + 10 - half = len + 4
    BY <1>1, <1>2
  <2> QED
    BY <1>2, <1>3, <2>1, WindowAt
<1>5. mirror(len + 4, len) = (len - 6) % UsizeEnd
  <2>1. 2 * len - (len + 4) - 2 = len - 6
    BY <1>2
  <2> QED
    BY <1>2, <2>1 DEF mirror
<1>6. (len - 6) % UsizeEnd >= len
  <2> DEFINE r == (len - 6) % UsizeEnd
             q == (len - 6) \div UsizeEnd
  <2>1. r \in 0 .. UsizeEnd - 1 /\ q \in Int /\ len - 6 = UsizeEnd * q + r
    BY <1>2, SMT
  <2>2. len - 6 < 0 /\ len - 6 >= -5
    BY <1>2
  <2>3. q = -1
    BY <2>1, <2>2, <1>2, SMT
  <2> QED
    BY <2>1, <2>2, <2>3, <1>2
<1> QED
  BY <1>3, <1>4, <1>5, <1>6, <1>2 DEF InBounds

\* The window of ssim stays inside an image and reflects it at both edges
\* alike, if and only if its sides are longer than half a window: for sides of
\* any length that usize can double.
THEOREM WindowsReflect ==
    ASSUME NEW len \in Nat \ {0}, 2 * len < UsizeEnd
    PROVE  WindowRight(len)
<1>0. len \in Nat /\ half = 5 /\ WINDOW = 11
  BY ComparisonAssumption DEF half, WINDOW
<1>1. ASSUME half < len, NEW at \in 0 .. len - 1, NEW w \in 0 .. WINDOW - 1
      PROVE  LET idx == at + w - half
                 read == Window(at, len)[w]
             IN  /\ read < len
                 /\ read \in {idx, -idx, 2 * (len - 1) - idx}
                 /\ idx \in 0 .. len - 1 => read = idx
                 /\ Window(len - 1 - at, len)[WINDOW - 1 - w] = len - 1 - read
  <2> DEFINE idx == at + w - half
             far == (len - 1 - at) + (WINDOW - 1 - w) - half
  <2>1. idx \in -5 .. len + 4 /\ Window(at, len)[w] = mirror(idx, len)
    BY <1>0, WindowAt
  <2>2. len - 1 - at \in 0 .. len - 1 /\ WINDOW - 1 - w \in 0 .. WINDOW - 1
    BY <1>0
  <2>3. far \in -5 .. len + 4
        /\ Window(len - 1 - at, len)[WINDOW - 1 - w] = mirror(far, len)
    BY <1>0, <2>2, WindowAt
  <2>4. far = len - 1 - idx
    BY <1>0
  <2>5. mirror(idx, len) = IF idx < 0 THEN -idx
                           ELSE IF idx >= len THEN 2 * len - idx - 2 ELSE idx
    BY <1>1, <2>1, MirrorReflects
  <2>6. mirror(far, len) = IF far < 0 THEN -far
                           ELSE IF far >= len THEN 2 * len - far - 2 ELSE far
    BY <1>1, <2>3, MirrorReflects
  <2> HIDE DEF idx, far
  <2>7. mirror(idx, len) < len /\ mirror(far, len) = len - 1 - mirror(idx, len)
        /\ mirror(idx, len) \in {idx, -idx, 2 * (len - 1) - idx}
        /\ (idx \in 0 .. len - 1 => mirror(idx, len) = idx)
    BY <1>0, <1>1, <2>1, <2>3, <2>4, <2>5, <2>6
  <2> QED
    BY <2>1, <2>3, <2>7 DEF idx
<1>2. half < len => InBounds(len)
  BY <1>1 DEF InBounds
<1>3. InBounds(len) => half < len
  BY ShortSideLeaves
<1> QED
  BY <1>1, <1>2, <1>3 DEF WindowRight

\* The property of the run, for any bound on the sides.
THEOREM SsimWindows == Spec => []WindowReflects
<1>1. \A len \in 1 .. MaxSide : WindowRight(len)
  BY WindowsReflect, ReferenceToolsAssumption, ComparisonAssumption
<1>2. WindowReflects
  BY <1>1 DEF WindowReflects
<1> QED
  BY <1>2, PTL

=============================================================================
