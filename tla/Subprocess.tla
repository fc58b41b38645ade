------------------------------ MODULE Subprocess ------------------------------
(***************************************************************************)
(* run_captured of tpt-av-test-reference/src/subprocess.rs: the calling    *)
(* thread, its two reader threads, and the reference tool behind two pipes *)
(* of bounded capacity.                                                    *)
(*                                                                         *)
(* The tool (external) writes any bytes to either stream, may close a      *)
(* stream early, may leave a child of its own holding the streams, and     *)
(* ends with a code or by a signal.  A write to a full pipe blocks it.     *)
(***************************************************************************)
EXTENDS Integers, Sequences, Functions

CONSTANTS
    Bytes,          \* what a byte can be: "text" or "invalid" as UTF-8
    Capacity,       \* bytes a pipe holds
    MaxBytes        \* bound: bytes written to the streams

ASSUME CapacityAssumption == Capacity \in Nat \ {0} /\ MaxBytes \in Nat

VARIABLES
    main,       \* position of the calling thread
    reader,     \* each reader: "none", "reading", "eof" or "failed"
    buf,        \* what each reader has read
    result,
    pipe,       \* bytes in each pipe
    holders,    \* processes holding the write end of each pipe
    want,       \* the write each live process is blocked in, if any
    status      \* of the tool, as wait reports it

caller  == <<main, result>>
readers == <<reader, buf>>
tool    == <<holders, want, status>>
vars    == <<caller, readers, tool, pipe>>

Streams == {"out", "err"}
Procs   == {"tool", "child"}
Ends    == {"exit0", "exit1", "signal"}
Idle    == <<>>

NoResult == [is |-> "none"]

Init ==
    /\ main = "start"
    /\ result = NoResult
    /\ reader = [p \in Streams |-> "none"]
    /\ buf = [p \in Streams |-> <<>>]
    /\ pipe = [p \in Streams |-> <<>>]
    /\ holders = [p \in Streams |-> {}]
    /\ want = [w \in {} |-> Idle]
    /\ status = "unborn"

-----------------------------------------------------------------------------
(* The calling thread *)

Spawn ==
    /\ main = "start"
    /\ main' = "read_out"
    /\ status' = "running"
    /\ holders' = [p \in Streams |-> {"tool"}]
    /\ want' = [w \in {"tool"} |-> Idle]
    /\ UNCHANGED <<result, readers, pipe>>

\* map_err: a binary that is not there, or any other error.
SpawnFails ==
    /\ main = "start"
    /\ main' = "returned"
    /\ result' \in [is : {"ReferenceBinaryNotFound", "Spawn"}]
    /\ UNCHANGED <<readers, tool, pipe>>

\* Mutant of SpawnReader: the readers start once the tool has exited.
SpawnReaderAfterExit(p, from, to) ==
    /\ main = from
    /\ status \in Ends
    /\ main' = to
    /\ reader' = [reader EXCEPT ![p] = "reading"]
    /\ UNCHANGED <<result, buf, tool, pipe>>

\* One thread per stream is started before anything is waited for.
SpawnReader(p, from, to) ==
    /\ main = from
    /\ main' = to
    /\ reader' = [reader EXCEPT ![p] = "reading"]
    /\ UNCHANGED <<result, buf, tool, pipe>>

Wait ==
    /\ main = "wait"
    /\ status \in Ends
    /\ main' = "join_out"
    /\ UNCHANGED <<result, readers, tool, pipe>>

\* `?` on a failed wait: the readers are left behind.
WaitFails ==
    /\ main = "wait"
    /\ main' = "returned"
    /\ result' = [is |-> "Spawn"]
    /\ UNCHANGED <<readers, tool, pipe>>

Done(p) == reader[p] \in {"eof", "failed"}

JoinOut ==
    /\ main = "join_out"
    /\ Done("out")
    /\ main' = "join_err"
    /\ UNCHANGED <<result, readers, tool, pipe>>

Code(end) == CASE end = "exit0" -> 0 [] end = "exit1" -> 1 [] OTHER -> -1

\* Mutant of OutBytes: what was read before an error is returned as well.
OutBytesSoFar == buf["out"]

\* read_to_end or nothing; read_to_string or nothing, all of it valid UTF-8.
OutBytes == IF reader["out"] = "eof" THEN buf["out"] ELSE <<>>
ErrText  == IF reader["err"] = "eof" /\ "invalid" \notin Range(buf["err"])
            THEN buf["err"] ELSE <<>>

JoinErr ==
    /\ main = "join_err"
    /\ Done("err")
    /\ main' = "returned"
    /\ result' = [is |-> "ok", code |-> Code(status),
                out |-> OutBytes, err |-> ErrText]
    /\ UNCHANGED <<readers, tool, pipe>>

-----------------------------------------------------------------------------
(* The reader threads *)

Read(p) ==
    /\ reader[p] = "reading"
    /\ pipe[p] # <<>>
    /\ buf' = [buf EXCEPT ![p] = Append(@, Head(pipe[p]))]
    /\ pipe' = [pipe EXCEPT ![p] = Tail(@)]
    /\ UNCHANGED <<caller, reader, tool>>

\* Mutant of ReadEof: the caller keeps write ends of its own until it returns.
ReadEofHeld(p) ==
    /\ reader[p] = "reading"
    /\ pipe[p] = <<>>
    /\ holders[p] = {} /\ main = "returned"
    /\ reader' = [reader EXCEPT ![p] = "eof"]
    /\ UNCHANGED <<caller, buf, tool, pipe>>

\* End of file: the pipe is empty and nobody holds its write end.
ReadEof(p) ==
    /\ reader[p] = "reading"
    /\ pipe[p] = <<>>
    /\ holders[p] = {}
    /\ reader' = [reader EXCEPT ![p] = "eof"]
    /\ UNCHANGED <<caller, buf, tool, pipe>>

\* A read error ends the reader with the default value and closes the pipe.
ReadFails(p) ==
    /\ reader[p] = "reading"
    /\ reader' = [reader EXCEPT ![p] = "failed"]
    /\ UNCHANGED <<caller, buf, tool, pipe>>

-----------------------------------------------------------------------------
(* The tool and the process it may leave behind (external) *)

Alive(w) == w \in DOMAIN want

Emitted(p) == Len(buf[p]) + Len(pipe[p])

BeginWrite(w, p, x) ==
    /\ Alive(w) /\ want[w] = Idle
    /\ w \in holders[p]
    /\ Emitted("out") + Emitted("err") < MaxBytes
    /\ want' = [want EXCEPT ![w] = <<p, x>>]
    /\ UNCHANGED <<caller, readers, holders, status, pipe>>

Write(w) ==
    /\ Alive(w) /\ want[w] # Idle
    /\ LET p == want[w][1] IN
         /\ reader[p] # "failed"
         /\ Len(pipe[p]) < Capacity
         /\ pipe' = [pipe EXCEPT ![p] = Append(@, want[w][2])]
    /\ want' = [want EXCEPT ![w] = Idle]
    /\ UNCHANGED <<caller, readers, holders, status>>

CloseStream(w, p) ==
    /\ Alive(w) /\ want[w] = Idle
    /\ w \in holders[p]
    /\ holders' = [holders EXCEPT ![p] = @ \ {w}]
    /\ UNCHANGED <<caller, readers, want, status, pipe>>

Fork ==
    /\ Alive("tool") /\ want["tool"] = Idle
    /\ ~Alive("child")
    /\ holders' = [p \in Streams |->
            IF "tool" \in holders[p] THEN {"tool", "child"} ELSE holders[p]]
    /\ want' = [w \in Procs |-> Idle]
    /\ UNCHANGED <<caller, readers, status, pipe>>

Ending(w, end) ==
    /\ want' = Restrict(want, DOMAIN want \ {w})
    /\ holders' = [p \in Streams |-> holders[p] \ {w}]
    /\ status' = IF w = "tool" THEN end ELSE status
    /\ UNCHANGED <<caller, readers, pipe>>

Exit(w, end) == Alive(w) /\ want[w] = Idle /\ Ending(w, end)

\* A signal, SIGPIPE on a pipe whose reader has failed included.
Killed(w) == Alive(w) /\ Ending(w, "signal")

BrokenPipe(w) ==
    /\ Alive(w) /\ want[w] # Idle
    /\ reader[want[w][1]] = "failed"
    /\ \E end \in {"exit1", "signal"} : Ending(w, end)

-----------------------------------------------------------------------------

Caller ==
    \/ Spawn \/ SpawnFails \/ Wait \/ WaitFails \/ JoinOut \/ JoinErr
    \/ SpawnReader("out", "read_out", "read_err")
    \/ SpawnReader("err", "read_err", "wait")

Reader(p) == Read(p) \/ ReadEof(p)

Ended == main = "returned" /\ UNCHANGED vars

Next ==
    \/ Caller
    \/ \E p \in Streams : Reader(p) \/ ReadFails(p)
    \/ \E w \in Procs :
          \/ \E p \in Streams : CloseStream(w, p)
          \/ \E p \in Streams, x \in Bytes : BeginWrite(w, p, x)
          \/ \E end \in {"exit0", "exit1"} : Exit(w, end)
          \/ Write(w) \/ BrokenPipe(w) \/ Killed(w)
    \/ Fork
    \/ Ended

Spec == Init /\ [][Next]_vars

(***************************************************************************)
(* Fairness.  The three threads of the caller keep running, and so does a  *)
(* process whose write can proceed; the kernel serves the writers of one   *)
(* pipe in turn (SF).  Nothing makes the tool end: run_captured has no     *)
(* timeout, so it may wait for ever for a tool that does not, or for a     *)
(* child of it that holds a stream.                                        *)
(***************************************************************************)
FairSpec ==
    /\ Spec
    /\ WF_vars(Caller)
    /\ \A p \in Streams : WF_vars(Reader(p))
    /\ \A w \in Procs : SF_vars(Write(w) \/ BrokenPipe(w))

-----------------------------------------------------------------------------
(* Properties *)

\* The call behaves as CapturedRun: the threads, the pipes and the order of
\* wait and the joins are invisible, and no byte is lost or reordered.
Captured == INSTANCE CapturedRun WITH
    log  <- [p \in Streams |-> buf[p] \o pipe[p]],
    open <- {p \in Streams : holders[p] # {}}

ImplementsCapturedRun == Captured!Spec

\* "so a chatty subprocess can never fill a pipe and deadlock": every write
\* the tool starts gets through, even if the tool goes on for ever.
WritesProceed == \A w \in Procs : (Alive(w) /\ want[w] # Idle) ~> (~Alive(w) \/ want[w] = Idle)

\* Once the tool and the child it left behind have ended, the call returns,
\* whatever is still in the pipes.
CallReturns == (status \in Ends /\ DOMAIN want = {}) ~> main = "returned"

=============================================================================
