------------------------------ MODULE CapturedRun ------------------------------
(***************************************************************************)
(* What run_captured promises its callers (ffmpeg.rs, libsndfile.rs): the  *)
(* tool's exit code together with everything that was written to its two   *)
(* output streams until the last holder of a stream let go of it.  There   *)
(* are no pipes, no buffers and no threads here.                           *)
(***************************************************************************)
EXTENDS Integers, Sequences

CONSTANTS Streams, Bytes

VARIABLES
    log,        \* all that was written to each stream
    open,       \* streams somebody may still write to
    status,     \* "unborn", "running" or how the tool ended
    result      \* what the call returned, if it has

vars == <<log, open, status, result>>

Ends == {"exit0", "exit1", "signal"}

NoResult == [is |-> "none"]

\* ExitStatus::code, and -1 for a tool that a signal ended.
Code(end) == CASE end = "exit0" -> 0 [] end = "exit1" -> 1 [] OTHER -> -1

Init ==
    /\ log = [p \in Streams |-> <<>>]
    /\ open = {}
    /\ status = "unborn"
    /\ result = NoResult

Start ==
    /\ status = "unborn" /\ result = NoResult
    /\ status' = "running"
    /\ open' = Streams
    /\ UNCHANGED <<log, result>>

Write(p, x) ==
    /\ p \in open
    /\ log' = [log EXCEPT ![p] = Append(@, x)]
    /\ UNCHANGED <<open, status, result>>

\* The tool ends, or a process lets go of streams; others may hold them still.
End(S) ==
    /\ status = "running"
    /\ status' \in Ends
    /\ S \subseteq open
    /\ open' = open \ S
    /\ UNCHANGED <<log, result>>

Close(S) ==
    /\ S \subseteq open
    /\ open' = open \ S
    /\ UNCHANGED <<log, status, result>>

\* A stream is returned whole or, when it cannot be read, empty.
Return ==
    /\ result = NoResult
    /\ status \in Ends
    /\ \E out \in {log["out"], <<>>}, err \in {log["err"], <<>>} :
          /\ out # <<>> => "out" \notin open
          /\ err # <<>> => "err" \notin open
          /\ result' = [is |-> "ok", code |-> Code(status), out |-> out, err |-> err]
    /\ UNCHANGED <<log, open, status>>

\* The tool cannot be started, or its status cannot be collected; one that is
\* reported as missing never ran.
Fail ==
    /\ result = NoResult
    /\ \/ result' = [is |-> "Spawn"]
       \/ status = "unborn" /\ result' = [is |-> "ReferenceBinaryNotFound"]
    /\ UNCHANGED <<log, open, status>>

Next ==
    \/ Start \/ Return \/ Fail
    \/ \E p \in Streams, x \in Bytes : Write(p, x)
    \/ \E S \in SUBSET Streams : End(S) \/ Close(S)

Spec == Init /\ [][Next]_vars

=============================================================================
