# TLA+ models of tpt-av-test

tpt-av-test is a test harness for audio and video code: mocks of the hardware
(network, MIDI, file system, audio device), gates that fail a test when
real-time code allocates, wrappers around reference tools, and helpers for
fuzzing and CRDT tests. What runs on top of it is only as trustworthy as it is,
and it is full of the things a unit test reaches badly: threads sharing a lock
through clones, panics in `Drop`, messages reordered, lost and repeated, child
processes behind full pipes, a tree kept in a flat map.

This directory models those parts in TLA+, checks them with TLC on small
instances and proves the most important results with TLAPS for every value of
the constants. `PROJECT.json` lists the runs, the source lines behind every
definition, the hazards, and for every property a *mutant*: a plausible bug of
one definition that makes TLC report the property violated. The mutated
definition stands right before the original, under a comment `Mutant of ...`;
no specification uses it.

## The system

| component | source | state | operations | hard behaviour | model |
|---|---|---|---|---|---|
| Simulated network | `mock/src/network.rs` | `LinkState` (clock, knobs, queue, stats) under one mutex; an inbox with a mutex of its own per endpoint; an atomic endpoint counter | `pair`, `set_*`, `send`, `try_recv`, `advance`, `flush`, `stats` | threads interleave between the two locks and the counter; loss, reordering, latency changed under way; overflow of `Duration` poisons the mutex | `MockNetwork` |
| Counting allocator, guards | `benchmark/src/allocation_tracker.rs` | thread-local depth and counters, process-wide counters, live guards | the `GlobalAlloc` hooks, `new`, `strict`, counts, `Drop` | nesting, drops out of order, a panicking `Drop` while unwinding | `AllocTracker` |
| Real-time gates | `benchmark/src/macros.rs`, `macros/src/lib.rs` | a guard per gate | `assert_real_time_safe!`, `#[bench_real_time]` | five ways out of a gate; panics that allocate | `AllocTracker` |
| Reference subprocess | `reference/src/subprocess.rs` | two reader threads, two pipes, a child process | `run_captured` | full pipes, children that hold them, read errors | `CapturedRun`, `Subprocess` |
| Virtual MIDI port | `mock/src/midi_port.rs` | two queues, `closed`, under one mutex shared by clones and halves | `inject*`, `try_recv`, `send`, `drain_output`, `pending_count`, `close`; constructors and queries of a message | the caller's iterator runs under the mutex; close with messages queued; arguments wider than their seven bits | `MidiPort`, `MidiMessage` |
| In-memory file system | `mock/src/filesystem.rs` | one map from cleaned paths to entries | nine calls and `normalize` | the map is a tree only as long as every call keeps it one | `TreeFs`, `VirtualFs` |
| Virtual audio device | `mock/src/audio_device.rs` | tone, phase, block size, recorded buffers and statistics | `fill`, `accept`, the setters, `clear_accepted` | phase across blocks and refusals, NaN | `AudioDevice` |
| CRDT registers and assertions | `fuzz/src/crdt.rs` | none (pure) | `apply_register`, `assert_crdt_*` | ties, repeats | `Crdt` |
| Replication scenario | `mock/tests/mock_hardware.rs`; replicas of a program under test | replicas, messages under way | mutate, send, receive | loss, reordering, repetition | `Replication`, the replicas external |
| Timing statistics and budgets | `benchmark/src/timing.rs` | collected durations; a budget's start | percentiles, mean, budgets, `parse_duration` | boundaries; a clock read twice; suffixes of suffixes | `Timing`, budgets in `AudioBlock` |
| Audio callback benchmark | `benchmark/src/audio_block.rs` | frame index, durations and allocations so far, a guard per measured callback | `run`, the result's assertions | guards of the caller and the closure around its own, panics of a callback | `AudioBlock` |
| ffmpeg, ffprobe, sox wrappers | `reference/src/ffmpeg.rs`, `libsndfile.rs` | none | decode, probe | a tool killed half way, unreadable output, order of keys in a report | `ReferenceTools` |
| PCM and image comparison | `reference/src/audio.rs`, `image.rs` | none | `assert_pcm_equal`, `assert_frame_exact`, `assert_image_similar`, SSIM windows | NaN and infinities, indices at the edges | `Comparison`, all but the value of SSIM |
| Fuzz helpers | `fuzz/src/parser.rs`, `corpus.rs`, `seed.rs` | none | `panics_on`, `corpus::run`, `Seed` | none: single expressions and 64-bit mixing | no |
| Benches, golden vectors, generator, template, CI | `benches/`, `examples/`, `vectors/`, `templates/` | none | scripts and data | none | no |

(Paths are short for `src/tpt-av-test-<crate>/...`.)

How the parts meet. A test of audio or network code holds several mocks at once,
but the mocks do not call each other: what couples components is (1) the link
and the registers, in the replication scenario, (2) the allocator, every guard
gate and benchmark loop of a thread, and the panic that unwinds through them,
and (3)
`run_captured` and its callers. In (2) gates are part of `AllocTracker`, because
a gate *is* a guard, and `AudioBlock` composes the loop with one of its threads;
(1) composes `Replication` with `Crdt`, taking of the link only what
`MockNetwork` allows; for (3), `CapturedRun` is what callers rely on, and
`Subprocess` is shown to implement it. `ReferenceTools` puts the callers and the
comparisons on top: from a child process that writes into a pipe to the verdict
on a recording.

## Modules

| module | what it is |
|---|---|
| `MockNetwork` | the link, at the granularity of its locks |
| `MCMockNetwork` | symmetry of threads for TLC |
| `MockNetworkProofs` | seven theorems: types, conservation, unique endpoints, deadlines, overtaking, the agreed order, rounds |
| `AllocTracker` | allocator hooks, guards, both gates, panics |
| `MCAllocTracker` | symmetry of threads for TLC |
| `Timing` | statistics over collected durations, `RealtimeBudget`, `parse_duration` |
| `AudioBlock`, `MCAudioBlock` | the benchmark loop on a thread of `AllocTracker`; numerals and units for TLC |
| `BenchmarkProofs` | guards, verdicts, counters and panics; percentiles, the parser, the report of the loop, budgets |
| `CapturedRun` | abstract: a run of a tool, without threads or pipes |
| `Subprocess` | `run_captured`; implements `CapturedRun` |
| `Comparison` | PCM and pixel assertions, the windows of SSIM |
| `ReferenceTools`, `MCReferenceTools` | the callers of `run_captured`; a two-byte sample format and small frames for TLC |
| `ReferenceToolsProofs` | the refinement, whole decodes, the parser of reports, both comparisons, the windows |
| `MidiMessage` | wire bytes of the constructors, and the queries |
| `MidiPort`, `MCMidiPort` | the virtual port and the threads that use it; octets for TLC |
| `MidiPortProofs` | types, losslessness, whole gestures, wire bytes |
| `Lemmas` | induction on numbers and on finite sets, what folds compute, sums and extremes of sequences, handing a message from queue to queue |
| `TreeFs` | abstract: a file system that is a tree |
| `VirtualFs` | the flat map; implements `TreeFs` |
| `VirtualFsProofs` | the tree stays one, the map implements it, queries and failures are right |
| `MCVirtualFs` | raw paths for TLC |
| `AudioDevice`, `MCAudioDevice` | source and sink; a small sine and buffers for TLC |
| `AudioDeviceProofs` | one sine, statistics of all that was accepted |
| `Crdt` | `apply_register` and what the assertions assert |
| `Replication` | replicas over an impaired link |
| `ReplicationProofs` | the registers converge |

### MockNetwork

One variable per field of `LinkState` and `LinkStats`. A payload is the serial
number of its `send`; a draw of the generator against a rate is a free choice,
but never true at rate 0.0 and always at 1.0, as `next_unit() < rate` is.
Time is a number of nanoseconds up to `DurationMax`.

A call that takes the link mutex once and touches no inbox (`SetLatency`,
`SendQueued`, `Stats`, ...) is one action. The others are cut where another
thread can come in between: `pair` (`PairFirst`, `PairSecond`, `PairRegister`:
two `fetch_add`s and a registration), `deliver_due` (`Drain`, `Drained`, `Push`,
`NextMessage`, `Unlock`: inboxes are filled one at a time while receivers poll
them without the link mutex), `flush` (`FlushRead` and `FlushStep` lock
separately). `SendOverflows` and `AdvanceOverflows` are the panics on
`Duration` overflow: they poison the mutex, after which `PanicInCall` ends
every call under way. `landed`, `received`, `joined` and `goal` are history.

* `Conservation`: every accepted message is dropped, delivered or in flight.
* `Deadlines`: nothing arrives early, and nothing overdue stays behind.
* `AtMostOneOvertake`: reordering lets a message pass at most one of those that
  were sent before it and are due no later.
* `RoundLandsAll`: a round of `flush` delivers all it saw in flight.
* `UniqueEndpoints`, `AgreedOrder`: the sender filter of `deliver_due` compares
  ids, so ids must be unique; everybody gets the one landing order, without
  his own messages, from the moment he joined.
* `CallsReturn`: nobody waits for the mutex for ever.

### AllocTracker

A thread is a stack of live guards plus, possibly, a panic on its way up.
`Alloc`, `Realloc`, `Dealloc` are the hooks, counted while `depth` is not zero;
the thread-local and the process-wide increment are two steps (`adding`).
`Enter` is `AllocationTracker::new`, alone or first thing in a gate. `DropScope`
drops any of the program's own guards above the innermost gate, in any order.
`GateReturns` is the normal end of a gate (budget, then count, then drop),
`EarlyExit` a `return` or `?` in a `#[bench_real_time]` body, `UserPanic`,
`MachineryAllocates`, `Unwind` and `Catch` a panic and what the panic machinery
does under the guards. The block gate catches a panic and re-raises the same
payload, which is `Unwind`. A destructor that runs while its thread unwinds may
use guards and gates too: a guard made there is `late`, and until it is gone
neither the unwinding nor the catcher goes on. A guard's `Drop` looks whether the
thread is unwinding before it panics; a gate's assertions do not (`macros.rs:69`),
so `GateFails` there is a second panic, which is caught in the destructor, or
aborts the process. A destructor that panics by itself would abort whatever the
guards do, and is left out. Byte counters follow the allocation counters and
are left out; so are a guard given to `mem::forget`, a guard moved to another
thread and the teardown of a thread.

* `ExactCounts`: a guard observes exactly what its own thread allocated in its
  life. `DepthIsLive`: counting is on exactly while a guard lives.
* `VerdictIsRight`: a gate that runs to its end, and a strict guard dropped while
  its thread is not unwinding, report a violation exactly if the thread allocated
  in it; an overrun budget is reported first. An early exit of a gate is not
  `Judged`: see "Disagreements".
* `NoAbort`: dropping a guard never raises a second panic; if the process aborts, it
  was a late gate that ran to its end and had something to report.
  `PanicUnchanged`: the
  panic of the code under test is not replaced by a report.
* `GlobalIsSum`: no increment of the process-wide counter is lost.

### AudioBlock and Timing

`AudioBlock` extends `AllocTracker` and makes each step of `run` a step of its
thread `Audio` (`BlockInit`, `BlockNext`, `BlockSpec`; the variables of
`AllocTracker` are its own): `Measure` enters a guard and reads the clock,
`Measured` reads both and drops the guard, `Reserve` and `Run` allocate as the
loop's own vectors do, `Abandon` is a panic of the callback on its way out. The
closure takes time (`Tick`), allocates, panics, and may keep guards from one
callback to a later one (`Keep`, `LetGo`), as its caller may around the whole
run. Gates inside the callback are left to `AllocTracker`. `work` is history:
what every callback was told, how long it took and what it allocated.

* `ReportIsExact`: the result covers exactly the measured callbacks, and its two
  assertions fail exactly if one of those allocated or overran.
* `PercentileIsRank`: `percentile` has the documented share of samples at or below
  it and is the smallest such sample, or the next one where the fraction of the
  count is an integer; median and mean are where they should be. The fraction and
  its product with the count are rounded to floats (`Nearest`), ties to even, with
  `Precision` digits: 53 in an `f64`, 11 in the run. The exact rank is not what the
  code computes: `0.07 * 100.0` is a little more than 7, and the 7th percentile of a
  hundred samples is the eighth. Of 11 digits the run meets seven such fractions
  of up to 30 samples (`IsNearestRank`, over all counts and denominators).
* `BudgetAgrees`: a closure that watches a `RealtimeBudget` of one block
  (`StartBudget`, `CheckBudget`, `AssertWithin`) and finds it exhausted shows up
  in the result as late, although `check` reads the clock a second time for the
  `elapsed` it reports; who uses no more than `remaining()` is not late.
* `ParseIsRight`: `parse_duration` accepts exactly a number and a unit, blanks
  aside, and reads them in the only way possible, whatever suffix of another
  unit a unit is; what is longer than a `Duration` is out of range. The limit
  itself is left open: see "Disagreements".
  A text is a sequence of tokens: blanks, numerals, and the pieces of the
  suffixes that are suffixes of one another; `TimingStats` and the parser are
  functions, checked on every input within the bounds. `sorted` takes any
  order of the positions that sorts the samples: ties are equal numbers.

### CapturedRun and Subprocess

`CapturedRun` has a log per stream, the streams still open, the tool's status
and the result. `Subprocess` has what the code has: the calling thread (`Spawn`,
`SpawnReader`, `Wait`, `JoinOut`, `JoinErr`, and `?` on a failed spawn or wait),
a reader per stream (`Read`, `ReadEof`, `ReadFails`), pipes of bounded capacity,
and, external, the tool: it writes to either stream, blocks in a full pipe,
closes a stream, forks a child that inherits the streams, exits or is killed.
The refinement mapping is `log <- buf \o pipe`, `open <-` the streams that have
a holder.

* `ImplementsCapturedRun`: the result is the tool's code and the whole of each
  stream, or an empty one where the stream could not be read or is not text.
* `WritesProceed`: no writer is blocked for ever: "a chatty subprocess can never
  fill a pipe and deadlock".
* `CallReturns`: once the tool and its child have ended, the call returns.

### ReferenceTools and Comparison

A caller of `run_captured` keeps no state and returns when the run does, so it
is a function of the result: `Failure` is what `?` and the check of the exit
code do, `decode_to_f32le`, `probe` and `sox_summary` what they make of the
output, `assert_bit_exact_vs_ffmpeg` adds the comparison. A sample is a group of
`SampleBytes` bytes and `FromBits` says what it stands for. A line of ffprobe's
report is a key and a value; `parse_stream_info` folds `Line` over them. In
`Comparison` a sample is an integer, an infinity or NaN with the arithmetic of
`f32` on those; a required PSNR is the mean squared error it allows.

* `DecodeIsWhole`: a decode that succeeds has every byte the tool wrote, and the
  tool ended well; never a part. The exception is unreadable output, which
  passes for an empty recording (see "Disagreements").
* `StreamInfoIsRight`: `bits_per_sample` wins over `bits_per_raw_sample` in any
  order of lines; a line that does not parse forgets no depth; a missing field is
  an error.
* `PcmVerdict`, `FrameVerdict`: the verdict does not depend on which side is the
  reference, the mismatch reported is the first and is one, tolerance zero means
  identical, an exact frame is one that is similar at any PSNR.
* `WindowReflects`: an SSIM window stays inside its image exactly if the side is
  longer than five pixels, and then mirrors it at both edges alike.

The last four speak of functions: they are conditioned on the state before the
first tool is started, so that TLC evaluates them once over all their inputs and
not again in every state.

### MidiPort and MidiMessage

Every call is one critical section, hence one action, but for `inject_all`,
which runs its caller's iterator under the mutex (`BeginGesture`, `Extend`,
`EndGesture`, and `IteratorPanics`, which poisons the mutex). A message is named
after its producer, the call, and what the iterator had left.

* `Lossless`: received then waiting is what was injected, in order; the same for
  the output. `GesturesWhole`: no message lands inside another's gesture.
* `Delivered`: at an open port that is polled nothing waits for ever.
* `WireIsSound`: whatever `u8` values go in, the channel and the kind are read
  back from the bytes of every constructor and no data byte is a status byte;
  of `pitch_bend` that is so for 14 bits. Only a note-on is taken for one, and
  every one with a velocity is; velocity zero is left open.

### TreeFs and VirtualFs

A path is the sequence of its components, a name its rank in the order of
`BTreeMap`. `Normalize` folds the components of a raw path. Each call is one
action with its checks in the order of the code, through `Call`, which refuses
paths that do not normalise. `write_file` creates ancestors until it meets a
file in the way, as the loop does; `rename` moves entries one by one in map
order (`MoveEntry` folded over `Sorted`).

* `ImplementsTreeFs`: with `tree <- entries`, every call is a call on a tree of
  directories or changes nothing.
* `FailuresChangeNothing`: a call that fails leaves the map alone.
* `WalkFindsAll`: what `paths` lists and what a walk with `list_dir` finds agree.
* `ErrnoRight`: `read_file` fails with what a component-wise walk would.

The constant `Avoided` names calls that are excluded where they are `Reckless`:
`write_file` onto a directory, `create_dir` below a file, `rename` into the
renamed directory itself or to a place without a directory above it. The
passing run excludes all three, because the code accepts them and the map is no
longer a tree then; see "Disagreements".

### AudioDevice

The phase is an integer in units of `1 / sample_rate` of a turn, so that `f` Hz
advance it by `f` a sample; `Wave` is one turn of a sine on a grid. Rounding of
`f64` is left out; NaN is a value that spreads as IEEE NaN does and that every
comparison is false of. `Take` is the common shape of `fill` and `accept`: what
`check_buffer` and the alignment test refuse changes nothing but `ret`.

* `PhaseContinuous`: the samples since the tone was set are one sine, however
  blocks and refused blocks cut it.
* `StatisticsCover`: frame count, peak and energy are those of all that was ever
  accepted, in whole frames, `clear_accepted` notwithstanding.

### Crdt and Replication

A value is its rank in the order of `Option<String>` (`None` is 0); an absent
key is the entry with timestamp -1. Timestamps increase at one replica only, so
two replicas can use the same. The replicas (`Mutate`, `Receive`, `SendAgain`) are
those of a program under test that keeps registers, as `crdt.rs` has them in mind;
the repository has no replica, and its own test of the scenario sends opaque bytes
one way. Of `MockNetwork`, whose queue reorders and drops, the module takes a set
of messages under way; a replica may send an op again, and is never bound to.
`applied` and `issued` are history.

* `StateIsWinner`: a register is the greatest write among the ops applied.
* `Convergence`: replicas that applied the same ops are in the same state.
* `NoRegress`: no step takes a register back to an older write.

That replicas become equal in the end would rest on the program under test sending
lost ops again, and is not claimed.

## Runs

| run | bounds | distinct states | shows |
|---|---|---|---|
| `net_link` | 1 thread, 2 endpoints, 3 sends, latencies 0 and 2, `DurationMax` 2 | 523 000 | conservation, deadlines, overtaking, on a link whose every knob is turned at any time |
| `net_flush` | 2 threads, 2 endpoints, 2 sends, 2 rounds, `DurationMax` 1, fair | 60 000 | rounds land all they saw; calls return |
| `net_pairs` | 2 threads, 4 endpoints, 2 sends | 459 000 | ids are unique, all receivers agree |
| `alloc` | 2 threads; in total 3 guards, 2 allocations, 1 deallocation | 705 000 | guards of one thread nested three deep, and guards of two threads that do not disturb each other |
| `audio_block` | 1 warm-up and 3 measured callbacks, 3 ticks, blocks of 1 tick, 2 guards, 2 allocations; texts of up to 4 tokens; ranks of up to 30 samples with 11 digits | 586 000 | exact results, percentiles of up to 3 samples, budgets, durations as text |
| `reference` | capacity 1, 2 bytes, 2 kinds of byte, samples of 2 bytes, tool and child, fair; reports of up to 6 lines, blocks of up to 2 samples (`MaxBlock`), frames of up to 6 pixels, sides of up to 14 | 131 000 | refinement, no deadlock, return; whole decodes, right verdicts |
| `midi_port` | 3 producers, 2 consumers, gestures of up to 2, 8 octets, fair | 202 000 | FIFO, whole gestures, delivery, wire bytes |
| `vfs_tree` | 2 names, depth 3, 9 raw paths | 16 000 | the map implements a tree |
| `vfs_write_dir` | the same, `write_file` not excluded | violation | `DirectoriesStay` fails |
| `audio_device` | 8 Hz, 2 channels, 2 frames a tone, 2 accepted | 266 000 | one sine, exact statistics |
| `audio_stereo` | the same | violation | `ChannelCarriesTone` fails |
| `replication` | 2 replicas, 2 keys, 2 values, 2 timestamps | 58 000 | equal sets of ops give equal states, in any order |

Why the bounds are enough. The link: a reordered send looks at the last two messages,
so three sends show a message reordered against one that was itself reordered; latency
2 in steps of 1 gives deadlines in the past, present and future, and `DurationMax` 2
lets both additions overflow. In `net_flush` and `net_pairs` the latency is only ever
raised (`Latencies` has one value): a lowered one lets a round of `flush` end before
messages that are still due later, which is why `flush` takes `max_rounds`. Four
endpoints are two `pair` calls, which is what can interleave. Guards: a guard
interacts with the one above and the one below it, and a thread only with one other
through the process-wide counter; the totals let one thread nest three guards or two
threads share them. The benchmark: three samples tell the median from both neighbours
and from the mean, and one kept guard lies below or above the loop's own. Pipes:
capacity 1 blocks the second write; two bytes suffice to be reordered or cut.
`MaxBytes` counts completed writes, so a process may be blocked in a third, and with
samples of two bytes a run may leave a whole sample or half of one. A report has the
usual three lines in any state of completion and up to three others at any place among
them, two of which can contest the depth. Sides of 14 pixels are longer than a window,
those from 6 to 10 let it reach over both edges at once. Texts of four tokens have a
blank on each side of a number and its unit, or a unit in two pieces. MIDI: two
messages make a gesture another producer can break into; the third producer waits
while one holds the mutex; octets on both sides of each mask. Files: three levels are
a directory, one below it and a file in it, so a rename moves a subtree into another
one. Replicas: two ops on one key with equal and different timestamps, and another key
that must not be touched.

Deadlock is checked in every run but two: in `audio_block`, `run` comes to its end,
and in `alloc` a process that was aborted has stopped. Elsewhere a thread with nothing
to do can always make another call; where the bounds stop that, the remaining queries,
the setters, or a step named `Ended` or `PanicAtCall` keep going.

### Fairness

* `net_flush`: a thread inside a call keeps running (weak fairness), and one
  waiting for the link mutex gets it if it is free again and again (strong
  fairness): what a scheduler and a mutex give. Nobody is assumed to make a call.
* `reference`: the caller and its readers keep running; a writer blocked in a
  pipe that is drained again and again gets its turn (strong). The tool is not
  assumed to end: `run_captured` has no timeout, so `CallReturns` speaks of
  what happens after the tool and its child have ended.
* `midi_port`: consumers poll again and again, competing with producers for the
  mutex (strong), and an injection that has begun goes on (weak), that is, the
  iterators passed to `inject_all` yield or end.

## Proofs

The proofs hold for any number of threads, endpoints, guards, messages, replicas,
keys and values, for pipes, paths, buffers, recordings and frames of any size, and
for any sample rate and wave, under the assumptions named in the modules, which
TLC evaluates in the runs. These are types of the constants
(`ReferenceToolsAssumption`, `AudioDeviceAssumption`, ...), a value for "no thread"
that is not a thread (`NoThreadAssumption`), a finite number of threads
(`ThreadsAssumption`: the process-wide counter is a sum over them), a pipe that
holds at least one byte, bounds of paths that raw paths keep to
(`VirtualFsAssumption`), that the benchmark's thread is one of the threads
(`BlockAssumption`), and that no numeral is a blank or a piece of a unit
(`GrammarAssumption`). For the ranks of percentiles, `PrecisionAssumption` says that
the counts of the benchmark fit in the digits of a float with one to spare: a count
times a denominator is below 2^(`Precision` - 1), which for an `f64` is 2^52. Some
theorems have hypotheses of their own: `LatencyNeverLowered`, `Careful`, and of the
same kind as `PrecisionAssumption` in `PercentileIsNearestRank`.

**Lemmas.** The library states induction with an operator as a parameter, which
the provers cannot instantiate. The same facts about sets can be cited:
`NatSetInduction` says that a set which has 0 and with every number the next has
them all, `FiniteInduction` that a set of subsets of `S` which has the empty set
and with every set that set and one more element has `S`. A property is put into
such a set, and the set hidden. From them come what a fold or a recursive
function computes step by step (`FiniteRecursion`, `IterationExists`, `SumOf`,
`MaxFold`), least and greatest numbers (`LeastNat`, `GreatestNat`), that the two
sums of the community modules agree and how a sum grows and is bounded
(`SumAgrees`, `SumAppend`, `SumBounds`), that a finite set of numbers has a least
and a greatest (`ExtremesExist`, `MaxIs`, `MinIs`), and what
moving the head of one queue to the end of the next does to their concatenation
(`HandOn`).

**AllocTracker.** `DepthIsLive` is not inductive alone: `Release` subtracts one
only above zero, and what a guard observes depends on counters that count only
while `depth` is positive. The inductive invariant is `Inv`: `TypeOK`,
`DepthIsLive` and `Balanced`, which says of every live guard that its snapshot
and the allocations since add up to the thread's counter. From `Inv`:
`TypeCorrect`, `CountingFollowsGuards`, `CountsAreExact`. `VerdictsAreRight` adds that
a verdict is recorded at the moment a guard ends (`EndJudges`, `DropJudges`), where
`Inv` makes observed equal to real. `NeverAborts` follows from the same record: the
one step that aborts is a late gate's, which leaves its verdict behind. `GlobalCounterIsSum`: a step moves the counter of
one thread by one, or pays the increment it owes, and `SumBump` carries that to
the sum over all threads. `PanicsPassUnchanged` is an action property: a thread
with the user's panic on its way takes no step that raises another, since what
would raise one looks whether it is unwinding.

**AudioBlock.** `Inv` holds of the loop's thread unchanged, because every step of the
loop is a step of the thread or leaves it alone; the loop adds `LoopInv`, whose
parts are preserved together:

* `Control` says where `run` is: `Before` the measuring nothing is recorded, `After`
  the warm-up the durations and the sum of the allocations are those of the
  callbacks made since, and `iterations` is positive once `run` has begun.
* `Watched`: while a callback is measured, `tracker` is the place of the loop's own
  guard in the stack, the clock has moved since `start` by what the callback
  took, and the guard's real count is what the callback allocated. `LetGo`
  makes this one delicate: a guard below the loop's own may be dropped, and then
  the loop's guard is one place lower.
* `Frames` and `Budgeted`: a budget began no earlier than its callback, so what
  `check` reported exceeds a block and is at most what the callback took.

`Measured` adds up what the guard *observed*; that this is what the callback really
allocated is `Balanced`, from `Inv`. The exceptions are callbacks with a panic on its
way, in which the machinery allocates too: they never reach `Measured`. At `done`,
`Control` is `ReportIsExact` but for the two assertions, of which one needs that a
sum of naturals is zero only if every term is (`ZeroSum`), the other that the
longest sample is one of them (`LongestIs`).

**Timing.** `PercentileIsNearestRank` holds for any samples and every fraction up to
one. Any samples can be sorted (`OrderExists`, by induction on the set of
positions), so that `sorted` is one such order (`SortedIs`); in it at least `k + 1`
samples are at or below the one at index `k`, and every smaller one has at most
`k` (`RankCounts`); `PercentileIndex` is an index where that meets the fraction
(`RankIs`). What `f64` does to it is bounded by one argument: rounding never takes a
quotient past an integer that has no more digits than a float (`SameSide`), so the
two roundings of the product may reach an integer from below, or leave one upwards,
but never pass one. That needs the count times the denominator to be below
2^(`Precision` - 1), a hypothesis of the theorem. Median and mean follow (`MedianIsMiddle`,
`MeanBetween`), and `PercentilesAreRanks` says so of what the loop collects.

`ParserFollowsGrammar` holds for texts of any length, any numerals and any
lengths of the units. `Trim` leaves the text between its first and its last
token that is no blank (`TrimIs`). One direction finds the grammar's reading in
what was trimmed: the unit is a suffix, and no unit tried before it is one, since
the piece before the `s` tells all five apart (`ReadingParsed`; that the order of
`Units` matters only for `s`, the suffix of the others, is here). The other
direction is that whatever the parser accepts is a reading (`ParsedReads`). So a
text has one reading or none, and `DurationsAreRead` states the run's property,
which leaves the very limit of a `Duration` open.

**MockNetwork.** `TypeCorrect` needs `LocalsInv`, what a thread's locals are at
each position. `MessagesConserved` needs to know that only the holder of the
mutex is inside `deliver_due` (`LockInv`), what its locals hold there
(`DeliverInv`), and the strengthening `ConserveInv`, which counts the messages
in hand while the mutex is held: queued, survivors, and due (or, once landing
has begun, `count`). When the mutex is free, that is `Conservation`.
`EndpointsAreUnique` rests on `BelowCounter`: ids in use, and those two threads
may hold between their `fetch_add`s, are below the counter and differ.
`DeadlinesHold` needs `DeadlineInv`: what is due when the mutex is free says
nothing about the middle of `deliver_due`, where survivors are later than the
clock and what is in hand is not, and the clock does not move as long as the
mutex is held.

`OvertakingIsBounded` puts everything the link has accepted into one line,
landed before due before survivors before queue (`Line`), in which nobody
overtakes two (`OvertakeInv`). A send inserts at the end or one before it
(`RearrangedNoTwo` handles both); taking the due messages out of the queue
rearranges the line, but only past messages with a later deadline, which is
not overtaking. `OrderIsAgreed` relates, for each endpoint, what it has received
and what waits in its inbox to the landing order since it joined (`Given`), with
the message that is being pushed counted if its slot has been passed
(`Pending`): in the middle of a round the inboxes disagree by exactly that one.
`RoundsLandAll` has the hypothesis `LatencyNeverLowered`: then whatever is in
flight is due within the latency a round reads (`FlushInv`), and what others put
in flight meanwhile has a higher number than the round's goal. The run
`net_flush` has one latency, for the same reason.

**Replication.** `AtMostOrder`: writes are totally ordered. `ApplyKeepsGreater`:
`apply_register` keeps the greater of the entry and the write. From these,
`ApplyCommutes` and `ApplyIdempotent` for every state and all ops, which is what
`assert_crdt_commutative` and `assert_crdt_idempotent` test on samples.
`StateIsWinner` is inductive with `TypeOK` (`StateIsFunctionOfOps`); a greatest
write is unique, hence `ReplicasConverge`; and `RegistersNeverRegress`.

**MidiPort.** That the mutex is held by the one thread inside `inject_all`
(`TypeCorrect`) needs `Begun`: who is inside has begun a gesture. `NothingLost`
is then inductive, with `HandOn` and `ConcatAppend`. `NobodyBreaksIn`
needs `WholeInv`: every message injected belongs to a gesture its thread has
begun (`Named`), and the messages of the gesture under way are the tail of the
queue (`OwnTail`); messages of a gesture that has ended are a run, and only what
is a tail can grow. `WireBytes` is arithmetic on remainders, for all octets.

**Subprocess and ReferenceTools.** `RunIsCapturedRun` proves the refinement that
the run checks, for any `Capacity`, any `Bytes` and any amount of output. The
mapping needs `IInv`: only live processes hold streams (`HoldersLive`), so that
the streams are closed for good when nobody is left; a reader that saw the end
has emptied its pipe and nobody can fill it again (`EofIsFinal`), so that the
buffer it hands over is the whole log; and the caller's position tells what has
been joined (`CallerKnows`). A byte that goes from pipe to buffer is a stutter by
`HandOn`. `DecodesAreWhole` adds `ResultKnown`: after the call returned, its
result is still what the buffers and the status say, because a tool that has
ended and a reader that has stopped change no more.

`StreamInfo` follows the fold over the lines of a report: after each line the
fields are what the lines so far say (`LoopIsExpected`), where `Expected` says in
one expression which line wins; `StreamInfoIsAsWritten` is the run's property.

**Comparison.** `PcmCompares` and `FramesCompare` are about two blocks and two
frames of any size, `PcmVerdictIsRight` (for any bound `MaxBlock`) and `FrameVerdictIsRight` state the run's
properties from them. A squared error is zero only if every term is
(`SquaredSumIsZero`), which makes an exact frame similar at any PSNR; the byte
of the first difference lies in the pixel that is reported, and no pixel before
it differs (`PixelOfByte`, `PixelsBefore`). `WindowsReflect` proves that SSIM
reads no pixel outside an image with sides of at least six pixels, and mirrors it
at both edges, for every size that `usize` can double; `SsimWindows` states it as
the property of the run.

**TreeFs and VirtualFs.** `TreeStaysTree`: whatever calls are made, everything but
the root is in a directory, for any names and paths of any length. `IsTree` speaks
of the next directory only; a step needs the whole way up. The inductive invariant
is therefore `DirsAbove`, everything above an entry is a directory, of which
`IsTree` is the last step. The case of `Move` is the long one: what lies above the
new place of an entry lies above the target, or has been moved along
(`AboveRebased`).

The theorems about `VirtualFs` are about callers that are `Careful`, that is, make
no call where it is `Reckless`, as in the passing run: with reckless calls they
are false, which `vfs_write_dir` shows. The invariant is `FsInv`, the map's shape
and `DirsAbove`. `CallsImplementTree` shows each call to be one of the tree's calls or to
change nothing. For `write_file` this needs that the ancestors it meets are a chain
(`AboveChain`), so that in a tree none above a file can be missing, which is
also why the parents it creates before it fails are none
(`FailedCallsChangeNothing`). For `rename` it needs that the fold over the entries in
map order moves every entry once, although names it inserts and names it
removes may be the same (`RenameFolds`): `Before` is a total order
(`BeforeIsTotal`), `Sorted` goes over all (`SortedGoesOverAll`), and an entry's copy
was taken before the loop. `WalksFindAll` is an induction along the path, and
`ErrnosAreRight` picks the first ancestor that is a file.

**AudioDevice.** `ToneIsContinuous` has the invariant `ToneInv`: besides the samples
emitted, it says that the phase is where the tone of the length emitted so far
ends, `(start + Len(emitted) * frequency) % sample_rate`. Subtracting one turn is
taking the remainder because the frequency is at most Nyquist's (`StepIsTurn`),
and `PhasesGoOn` follows the samples of a block. `StatisticsCoverAll` has `StatInv`:
energy and peak go on from where they were (`EnergyGoesOn`, `PeakGoesOn`), whatever
the block sizes, and what was heard is what `clear_accepted` forgot followed by what
is kept.

Model-checked only:

* everything under fairness (`CallsReturn`, `WritesProceed`, `CallReturns`,
  `Delivered`), since liveness and `ENABLED` are beyond the
  prover.

Every other property of a passing run, the invariants all, is also a theorem.

## Disagreements with the documentation

Two are runs that TLC must find violated:

* `vfs_write_dir`: `write_file` (`filesystem.rs:110`) inserts the file whatever is
  at the path; a directory becomes a file, in the run the root itself. The doc
  (line 87) compares the call to `open(.., "wb")`, which fails on a directory.
* `audio_stereo`: `fill` advances the phase once per interleaved sample
  (`audio_device.rs:204`), so on a device with two channels each carries twice
  the frequency. The module doc (line 13) promises a 440 Hz stereo tone.

Others were met while modelling. The models follow the code; no run is spent on
them:

* `create_dir` below a file (`filesystem.rs:154`) makes an entry that no walk
  from the root reaches, although there is an error for the case (line 40).
  `rename` into its own subtree or below a missing parent does the same.
* `remove_dir` removes an empty root (`filesystem.rs:218`); line 225 says the root
  "cannot be removed, only emptied".
* An early exit from a `#[bench_real_time]` body that has allocated panics in the
  tracker's `Drop` (`macros/src/lib.rs:96`); line 58 says early exits skip the
  assertions. The model does what the code does; `VerdictIsRight` takes no side and
  judges only gates that run to their end.
* A percentile can be one rank higher than its doc (`timing.rs:229`) leads to
  expect, when the fraction of the count is an integer that `f64` misses.
  `PercentileIsRank` allows for it.
* A message injected after `close`, or waiting then, is never delivered and nobody
  is told (`midi_port.rs:175`), against line 157's "every injected message is
  delivered exactly once". `Delivered` excepts a closed port.
* `LinkStats::in_flight` as `Debug` prints it (`network.rs:338`) is stale from a
  send to the next `stats` or `advance`; line 71 calls it "currently queued".
* The fixed block size is compared in frames (`audio_device.rs:245`), not in
  samples as line 135 has it, and a NaN frequency passes the clamp (line 114).
* `benchmark_audio_block` runs 16 warm-up callbacks (`audio_block.rs:124`), not
  `iterations` of them as line 91 has it. A callback that takes exactly one block
  passes `assert_within_block_budget` (line 258), although line 237 says that a
  `budget_usage` of 1.0 "means dropouts".
* The replication test drops ops, sends each once and compares no replicas; its
  comment (`mock_hardware.rs:54`) says they must converge. Nothing is asserted of
  that here, since who would send again is not in the repository.
* `parse_duration` panics for a duration of 2^64 seconds (`timing.rs:82`): the limit
  it compares with is `Duration::MAX` rounded up, and `from_secs_f64` refuses
  what the comparison let pass. The documented outcome (line 101) is an error.
  `ParseIsRight` leaves this one duration open.
* Output of a tool that cannot be read is an empty one, with the tool's status
  (`subprocess.rs:38`): an unreadable recording passes for an empty one.
  `ReferenceError` has `ReferenceIo` for the case, which nothing constructs.
* The doc of the decoder speaks of whole frames (`ffmpeg.rs:31`); whole samples
  are what is checked, and the number of channels is not used.
* Two infinities of one sign are a mismatch, since their difference is NaN, and a
  tolerance of NaN accepts every difference but NaN (`audio.rs`).
* `bits_per_sample=0`, which ffprobe prints for compressed audio, hides the
  depth in `bits_per_raw_sample` (`libsndfile.rs`).
* `mirror` leaves the image if a side has fewer than six pixels, and `ssim` then
  panics; an SSIM can be negative, against the range the doc gives
  (`image.rs:79`).
* `is_note_on` accepts velocity zero (`midi_port.rs:116`); line 114 says "non-zero
  velocity"; `WireIsSound` says nothing of velocity zero. `pitch_bend` of more than 14 bits makes a data byte with the top bit
  set, and `sysex` does not look for 0xF7 in its data.

## Not modelled

* The value of SSIM, luma, the gaussian weights, the rounding of phases and of
  parsed durations: floating point. (The product in `percentile` is modelled.)
* `measure_samples` and `assert_max_duration` of `timing.rs`: a loop of clock
  readings, which `AudioBlock` has with a guard around it, and one comparison.
* Bytes next to allocation counts, and deallocations in `AudioBlock`: they are
  counted by the same increments under the same condition.
* A guard given to `mem::forget` or moved to another thread, and the teardown of a
  thread: what they lead to depends on the standard library.
* An iterator that calls back into the port that `inject_all` holds: it waits for
  itself whatever the port does.
* A destructor that panics by itself while its thread unwinds, without a gate.
* Replicas that become equal in the end: what would send lost ops again is the
  program under test.
* Fuzz helpers: `panics_on` and `corpus::run` are single expressions over the
  caller's closure; the quality of `Seed` is statistical.
* Benches, golden vectors, the generator, the template and CI: measurements, data
  and scripts without a protocol.

What could still be added: gates inside the callback of `AudioBlock`. A gate there is
one more guard between the caller's and those of the closure, and its panic one
more payload that `Abandon` lets through.
