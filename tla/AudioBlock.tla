------------------------------ MODULE AudioBlock ------------------------------
(***************************************************************************)
(* The simulated audio callback benchmark:                                 *)
(*   tpt-av-test-benchmark/src/audio_block.rs                              *)
(* AudioBlockBenchmark::run calls the closure under test warmup times, then *)
(* iterations times under a guard and a clock, on one thread of            *)
(* AllocTracker.  The closure takes time, allocates, keeps guards of its    *)
(* own from one callback to a later one, watches a RealtimeBudget of       *)
(* timing.rs, and may panic.  The caller may already live under a guard.   *)
(* Sizes and sample rates only enter through BlockDuration; deallocations  *)
(* and bytes are summed like allocations and left out.                     *)
(***************************************************************************)
EXTENDS AllocTracker, Timing

CONSTANTS
    Audio,              \* the thread that runs the benchmark
    BlockDuration,      \* block_duration() in clock ticks
    MaxWarmup,          \* bound: warm-up callbacks
    MaxIterations,      \* bound: measured callbacks
    MaxTime,            \* bound: clock ticks spent in callbacks
    MaxSamples          \* bound: samples, and parts of a whole, in a percentile

ASSUME BlockAssumption ==
    /\ Audio \in Threads
    /\ BlockDuration \in Nat
    /\ MaxWarmup \in Nat /\ MaxIterations \in Nat /\ MaxTime \in Nat

\* Fractions in hundredths of all measured callbacks are within the precision
\* of a float: for an f64, of fewer than 2^45 callbacks.
ASSUME PrecisionAssumption ==
    /\ MaxSamples \in Nat
    /\ 100 * MaxIterations < pow2[Precision - 1]
    /\ MaxSamples * MaxSamples < pow2[Precision - 1]
    /\ 100 * pow2[Precision - 1] <= pow2[MaxExponent]
    /\ MaxSamples * pow2[Precision - 1] <= pow2[MaxExponent]

VARIABLES
    pc,             \* where run is
    conf,           \* its warmup and iterations
    frame_index,
    now, start,     \* the clock, and the Instant read before a callback
    tracker,        \* which guard is the loop's own, 0 if none
    durations,      \* the Vec<Duration>
    allocated,      \* the accumulated AllocationStats
    budget,         \* the RealtimeBudget of the callback under way, if any
    work            \* history: what each callback saw and did

loop == <<pc, conf, frame_index, start, tracker, durations, allocated>>
closure == <<budget, work>>
blockVars == <<vars, loop, now, closure>>

BlockInit ==
    /\ Init
    /\ pc = "idle"
    /\ conf = [warmup |-> 0, iterations |-> 0]
    /\ frame_index = 0
    /\ now = 0 /\ start = 0
    /\ tracker = 0
    /\ durations = <<>>
    /\ allocated = 0
    /\ budget = NoBudget
    /\ work = <<>>

Calling == pc \in {"warming", "measuring"}

-----------------------------------------------------------------------------
(* AudioBlockBenchmark::run *)

\* The loop's own vectors, allocated between callbacks.
HarnessAllocates ==
    /\ RecordAlloc(Audio)
    /\ last' = NoEnd
    /\ UNCHANGED <<depth, deallocations, global, panic, aborted>>

RunNothing ==
    /\ pc = "idle"
    /\ UserPanic(Audio)
    /\ pc' = "failed"
    /\ UNCHANGED <<conf, frame_index, now, start, tracker, durations, allocated, closure>>

Run(warmup, iterations) ==
    /\ pc = "idle"
    /\ Running(Audio)
    /\ HarnessAllocates
    /\ conf' = [warmup |-> warmup, iterations |-> iterations]
    /\ pc' = "warmup"
    /\ UNCHANGED <<frame_index, now, start, tracker, durations, allocated, closure>>

\* History: a callback begins, and is told this index.
Begins == work' = Append(work,
    [index |-> frame_index, took |-> 0, allocated |-> 0, reported |-> 0])

WarmUp ==
    /\ pc = "warmup"
    /\ Running(Audio)
    /\ frame_index < conf.warmup
    /\ pc' = "warming"
    /\ Begins
    /\ UNCHANGED <<vars, conf, frame_index, now, start, tracker, durations, allocated, budget>>

WarmedUp ==
    /\ pc = "warming"
    /\ Running(Audio)
    /\ frame_index' = frame_index + 1
    /\ pc' = "warmup"
    /\ budget' = NoBudget
    /\ UNCHANGED <<vars, conf, now, start, tracker, durations, allocated, work>>

Reserve ==
    /\ pc = "warmup"
    /\ Running(Audio)
    /\ frame_index = conf.warmup
    /\ HarnessAllocates
    /\ pc' = "measure"
    /\ UNCHANGED <<conf, frame_index, now, start, tracker, durations, allocated, closure>>

\* The guard first, then the clock, then the callback.
Measure ==
    /\ pc = "measure"
    /\ Running(Audio)
    /\ Len(durations) < conf.iterations
    /\ Enter(Audio, "scope", FALSE)
    /\ tracker' = Len(guards[Audio]) + 1
    /\ start' = now
    /\ pc' = "measuring"
    /\ Begins
    /\ UNCHANGED <<conf, frame_index, now, durations, allocated, budget>>

\* Mutant of Measured: each callback's count replaces the one before.
MeasuredLast ==
    /\ pc = "measuring"
    /\ Running(Audio)
    /\ durations' = Append(durations, now - start)
    /\ allocated' = Observed(Audio, guards[Audio][tracker])
    /\ frame_index' = frame_index + 1
    /\ Drop(Audio, tracker, "return")
    /\ tracker' = 0
    /\ pc' = "measure"
    /\ budget' = NoBudget
    /\ UNCHANGED <<conf, now, start, work>>

\* The durations were reserved, so that pushing one does not allocate.
Measured ==
    /\ pc = "measuring"
    /\ Running(Audio)
    /\ durations' = Append(durations, now - start)
    /\ allocated' = allocated + Observed(Audio, guards[Audio][tracker])
    /\ frame_index' = frame_index + 1
    /\ Drop(Audio, tracker, "return")
    /\ tracker' = 0
    /\ pc' = "measure"
    /\ budget' = NoBudget
    /\ UNCHANGED <<conf, now, start, work>>

Finish ==
    /\ pc = "measure"
    /\ Running(Audio)
    /\ Len(durations) = conf.iterations
    /\ pc' = "done"
    /\ UNCHANGED <<vars, conf, frame_index, now, start, tracker, durations, allocated, closure>>

\* A panic of the callback drops the guard of the loop, if there is one, and
\* leaves run without a result.
Abandon ==
    /\ Calling
    /\ panic[Audio] # "none"
    /\ ~adding[Audio]
    /\ IF tracker = 0 THEN UNCHANGED vars ELSE Drop(Audio, tracker, "unwind")
    /\ pc' = "failed"
    /\ tracker' = 0
    /\ budget' = NoBudget
    /\ UNCHANGED <<conf, frame_index, now, start, durations, allocated, work>>

-----------------------------------------------------------------------------
(* The closure under test, its caller, and the panic machinery *)

Tick ==
    /\ Calling
    /\ Running(Audio)
    /\ now < MaxTime
    /\ now' = now + 1
    /\ work' = [work EXCEPT ![Len(work)].took = @ + 1]
    /\ UNCHANGED <<vars, loop, budget>>

\* Bounded per callback as well: without a guard an allocation is not counted.
Allocates ==
    /\ Calling
    /\ work[Len(work)].allocated < MaxAllocs
    /\ Alloc(Audio) \/ Realloc(Audio)
    /\ work' = [work EXCEPT ![Len(work)].allocated = @ + 1]
    /\ UNCHANGED <<loop, now, budget>>

CountsGlobally ==
    /\ AddGlobal(Audio)
    /\ UNCHANGED <<loop, now, closure>>

\* A guard of the caller, or one that the closure holds in its captures.
Keep ==
    /\ Calling \/ pc = "idle"
    /\ Running(Audio)
    /\ Enter(Audio, "scope", FALSE)
    /\ UNCHANGED <<loop, now, closure>>

LetGo(i) ==
    /\ Calling \/ pc = "done"
    /\ Running(Audio)
    /\ i # tracker
    /\ DropScope(Audio, i)
    /\ tracker' = IF i < tracker THEN tracker - 1 ELSE tracker
    /\ UNCHANGED <<pc, conf, frame_index, now, start, durations, allocated, closure>>

\* RealtimeBudget::new, a local of the callback.
StartBudget ==
    /\ Calling
    /\ Running(Audio)
    /\ budget = NoBudget
    /\ budget' = [start |-> now, budget |-> BlockDuration]
    /\ UNCHANGED <<vars, loop, now, work>>

\* check reads the clock again for Err(elapsed), some ticks later.
CheckBudget(later) ==
    /\ Calling
    /\ Running(Audio)
    /\ exhausted(budget, now)
    /\ now' = later
    /\ work' = [work EXCEPT ![Len(work)].took = @ + (later - now),
                            ![Len(work)].reported = elapsed(budget, later)]
    /\ UNCHANGED <<vars, loop, budget>>

\* assert_within.
AssertWithin ==
    /\ Calling
    /\ exhausted(budget, now)
    /\ UserPanic(Audio)
    /\ UNCHANGED <<loop, now, closure>>

Panics ==
    /\ Calling
    /\ UserPanic(Audio)
    /\ UNCHANGED <<loop, now, closure>>

\* Outside run the panic goes on through the remaining guards to its catcher.
Unwinds ==
    /\ \/ MachineryAllocates(Audio)
       \/ pc = "failed" /\ (Unwind(Audio) \/ Catch(Audio))
    /\ UNCHANGED <<loop, now, closure>>

BlockNext ==
    \/ RunNothing
    \/ \E warmup \in 0 .. MaxWarmup, iterations \in 1 .. MaxIterations :
          Run(warmup, iterations)
    \/ WarmUp \/ WarmedUp \/ Reserve \/ Measure \/ Measured \/ Finish \/ Abandon
    \/ StartBudget \/ AssertWithin \/ \E later \in now .. MaxTime : CheckBudget(later)
    \/ Tick \/ Allocates \/ CountsGlobally \/ Keep \/ Panics \/ Unwinds
    \/ \E i \in 1 .. MaxGuards : LetGo(i)

BlockSpec == BlockInit /\ [][BlockNext]_blockVars

-----------------------------------------------------------------------------
(* AudioBlockResult *)

\* assert_real_time_safe passes.
RealTimeSafe == allocated = 0

\* assert_within_block_budget passes.
WithinBlockBudget == max(durations) <= BlockDuration

-----------------------------------------------------------------------------
(* Properties *)

\* A result covers exactly the measured callbacks, each with the time it took
\* and what it allocated, whatever guards live around them: nothing of the
\* warm-up and nothing of the harness.  The callbacks see consecutive indices,
\* warm-up included, and the two assertions fail if and only if some measured
\* callback allocated, or overran its block.
ReportIsExact ==
    pc = "done" =>
        LET measured == SubSeq(work, conf.warmup + 1, Len(work)) IN
        /\ \A i \in DOMAIN work : work[i].index = i - 1
        /\ Len(measured) = conf.iterations
        /\ durations = [i \in DOMAIN measured |-> measured[i].took]
        /\ allocated = SumFunction([i \in DOMAIN measured |-> measured[i].allocated])
        /\ RealTimeSafe <=> \A i \in DOMAIN measured : measured[i].allocated = 0
        /\ WithinBlockBudget <=> \A i \in DOMAIN measured : measured[i].took <= BlockDuration

\* The closure's own budget and the clock of run agree: check reports a time
\* that is over the budget and within what run measures for the callback, so
\* a budget of one block that was found exhausted always shows in the result.
\* A callback that uses no more than what remaining() offers is never late.
BudgetAgrees ==
    /\ \A i \in DOMAIN work : LET t == work[i].reported IN
          /\ t # 0 => t > BlockDuration
          /\ t # 0 /\ pc = "done" /\ i > conf.warmup =>
                durations[i - conf.warmup] >= t /\ ~WithinBlockBudget
    /\ budget # NoBudget =>
          \A used \in 1 .. remaining(budget, now) : ~exhausted(budget, now + used)

\* "The returned sample is at least fraction * count samples are at or below
\* it", and no larger than it has to be, but for an integer product that f64
\* makes a little larger (IsRank); so is the rank of every fraction of up to
\* MaxSamples samples, looked at once, before anything else.  At most half of
\* the samples lie below the median, and at most half above it; mean lies
\* between the extremes.
PercentileIsRank ==
    /\ pc = "done" =>
        /\ \A f \in {<<0, 1>>, <<1, 4>>, <<3, 4>>, <<99, 100>>, <<1, 1>>} :
              IsRank(durations, f[1], f[2])
        /\ IsMiddle(durations)
        /\ mean(durations) \in min(durations) .. max(durations)
    /\ pc = "idle" /\ guards[Audio] = <<>> =>
        \A count, den \in 1 .. MaxSamples : \A num \in 0 .. den :
            IsNearestRank(num, den, count)

\* ParseRight of every text.  parse_duration keeps no state and is looked at
\* once, before anything else: #[bench_real_time] and its callers write their
\* budgets as text.
ParseIsRight ==
    pc = "idle" /\ guards[Audio] = <<>> => \A text \in Texts : ParseRight(text)

=============================================================================
