------------------------------ MODULE AudioDevice ------------------------------
(***************************************************************************)
(* MockAudioDevice (tpt-av-test-mock/src/audio_device.rs), a sine source   *)
(* and a recording sink.  A turn of the phase has sample_rate units, so    *)
(* that a tone of f Hz advances it by f units a sample; the rounding of    *)
(* f64 is left out, NaN is not.                                            *)
(***************************************************************************)
EXTENDS Integers, Sequences, SequencesExt

CONSTANTS
    sample_rate, channels,
    Wave,           \* one turn of the sine, on a grid of integers
    Frequencies,    \* frequencies the callers set, NaN perhaps among them
    Amplitudes,     \* and amplitudes
    BlockSizes,     \* and fixed block sizes
    Buffers,        \* buffers the code under test renders
    MaxFrames,      \* bound: frames generated at one setting of the tone
    MaxAccepted     \* bound: buffers accepted

NaN == -1000

ASSUME AudioDeviceAssumption ==
    /\ sample_rate \in Nat \ {0} /\ channels \in Nat \ {0}
    /\ Wave \in [0 .. sample_rate - 1 -> Int]
    /\ Frequencies \subseteq Int /\ Amplitudes \subseteq Nat
    /\ BlockSizes \subseteq Nat \ {0} /\ Buffers \subseteq Seq(Int)
    /\ MaxFrames \in Nat

VARIABLES
    frequency,          \* None, or Some of what set_frequency made of it
    amplitude, phase,
    block_size,         \* 0 without with_fixed_block_size
    frames_generated, frames_accepted, peak, squared_sum, accepted,
    ret,                \* how the last call returned
    start, emitted,     \* history: the phase and the samples since the tone was set
    heard               \* history: every sample accepted

tone   == <<frequency, amplitude, phase, start, emitted, frames_generated>>
record == <<frames_accepted, peak, squared_sum, accepted, heard>>
vars   == <<tone, record, block_size, ret>>

None    == -1
Nyquist == sample_rate \div 2
Frames(buffer) == Len(buffer) \div channels

\* NaN spreads through every operation.
Times(x, y) == IF NaN \in {x, y} THEN NaN ELSE x * y
Plus(x, y)  == IF NaN \in {x, y} THEN NaN ELSE x + y

Init ==
    /\ frequency = None
    /\ amplitude \in Amplitudes
    /\ phase = 0
    /\ block_size = 0
    /\ frames_generated = 0 /\ frames_accepted = 0
    /\ peak = 0 /\ squared_sum = 0 /\ accepted = <<>>
    /\ ret = "ok"
    /\ start = 0 /\ emitted = <<>> /\ heard = <<>>

-----------------------------------------------------------------------------
(* Configuration *)

\* f64::clamp: NaN stays NaN.
Clamp(f) == IF f = NaN THEN NaN ELSE IF f < 0 THEN 0 ELSE IF f > Nyquist THEN Nyquist ELSE f

\* set_frequency and with_frequency.
SetFrequency(f) ==
    /\ frequency' = Clamp(f)
    /\ start' = phase
    /\ emitted' = <<>>
    /\ ret' = "ok"
    /\ UNCHANGED <<amplitude, phase, frames_generated, record, block_size>>

WithAmplitude(a) ==
    /\ amplitude' = a
    /\ start' = phase
    /\ emitted' = <<>>
    /\ ret' = "ok"
    /\ UNCHANGED <<frequency, phase, frames_generated, record, block_size>>

WithFixedBlockSize(n) ==
    /\ block_size' = n
    /\ ret' = "ok"
    /\ UNCHANGED <<tone, record>>

-----------------------------------------------------------------------------
(* The source and the sink *)

CheckBuffer(n) == block_size = 0 \/ n = block_size * channels

\* What is wrong with a buffer of n samples.
Verdict(n) ==
    IF ~CheckBuffer(n) THEN "UnexpectedBlockSize"
    ELSE IF n % channels # 0 THEN "BufferNotFrameAligned"
    ELSE "ok"

PhaseStep == IF frequency = None THEN 0 ELSE frequency

NextPhase(p) ==
    LET q == Plus(p, PhaseStep)
    IN IF q # NaN /\ q >= sample_rate THEN q - sample_rate ELSE q

\* next_sample, without a step of the phase.
SampleAt(p) ==
    IF frequency = None THEN 0
    ELSE IF p = NaN THEN NaN ELSE amplitude * Wave[p % sample_rate]

\* The phase after each of n samples.
PhaseAfter(n) ==
    LET after[i \in 0 .. n] == IF i = 0 THEN phase ELSE NextPhase(after[i - 1])
    IN after

\* Mutant of Fill: every block starts the sine anew.
FillAnew(n) ==
    /\ Verdict(n) = "ok"
    /\ phase' = IF frequency = None THEN phase ELSE PhaseAfter(n)[n]
    /\ emitted' = emitted \o [i \in 1 .. n |-> SampleAt(PhaseStep * (i - 1))]
    /\ frames_generated' = frames_generated + n \div channels
    /\ UNCHANGED <<frequency, amplitude, start, record, block_size>>

Fill(n) ==
    /\ Verdict(n) = "ok"
    /\ phase' = IF frequency = None THEN phase ELSE PhaseAfter(n)[n]
    /\ emitted' = emitted \o [i \in 1 .. n |-> SampleAt(PhaseAfter(n)[i - 1])]
    /\ frames_generated' = frames_generated + n \div channels
    /\ UNCHANGED <<frequency, amplitude, start, record, block_size>>

\* magnitude > peak is false of NaN.
Louder(loudest, x) == IF x # NaN /\ Max({x, -x}) > loudest THEN Max({x, -x}) ELSE loudest
Energy(sum, x) == Plus(sum, Times(x, x))

Accept(buffer) ==
    /\ Verdict(Len(buffer)) = "ok"
    /\ peak' = FoldLeft(Louder, peak, buffer)
    /\ squared_sum' = FoldLeft(Energy, squared_sum, buffer)
    /\ frames_accepted' = frames_accepted + Frames(buffer)
    /\ accepted' = Append(accepted, buffer)
    /\ heard' = heard \o buffer
    /\ UNCHANGED <<tone, block_size>>

\* Mutant of ClearAccepted: the statistics go with the buffers.
ClearAcceptedStats ==
    /\ accepted' = <<>>
    /\ peak' = 0 /\ squared_sum' = 0
    /\ ret' = "ok"
    /\ UNCHANGED <<tone, frames_accepted, heard, block_size>>

ClearAccepted ==
    /\ accepted' = <<>>
    /\ ret' = "ok"
    /\ UNCHANGED <<tone, frames_accepted, peak, squared_sum, heard, block_size>>

\* A call that takes a buffer of n samples, or refuses it.
Take(n, Body) ==
    /\ ret' = Verdict(n)
    /\ \/ Body
       \/ Verdict(n) # "ok" /\ UNCHANGED <<tone, record, block_size>>

Next ==
    \/ \E f \in Frequencies : SetFrequency(f)
    \/ \E a \in Amplitudes : WithAmplitude(a)
    \/ \E n \in BlockSizes : WithFixedBlockSize(n)
    \/ \E n \in 0 .. channels * MaxFrames :
          /\ Len(emitted) + n <= channels * MaxFrames
          /\ frames_generated + n \div channels <= 2 * MaxFrames
          /\ Take(n, Fill(n))
    \/ \E buffer \in Buffers :
          /\ Len(heard) + Len(buffer) <= channels * MaxAccepted
          /\ Len(accepted) < MaxAccepted
          /\ Take(Len(buffer), Accept(buffer))
    \/ ClearAccepted

Spec == Init /\ [][Next]_vars

-----------------------------------------------------------------------------
(* Properties *)

\* The tone is one sine however the blocks cut it, refused blocks included:
\* "consecutive blocks are phase-continuous".  The phase stays within its
\* turn, up to the Nyquist frequency, unless NaN got into it.
PhaseContinuous ==
    /\ phase \in {NaN} \cup 0 .. sample_rate - 1
    /\ frequency \notin {None, NaN} /\ start # NaN =>
         \A i \in DOMAIN emitted :
            emitted[i] = amplitude * Wave[(start + (i - 1) * frequency) % sample_rate]

\* The statistics are those of everything ever accepted, in whole frames and
\* nothing of a refused buffer, "Forgets accepted buffers (counters and
\* peak/RMS stay)" included; NaN counts for RMS only.
StatisticsCover ==
    /\ frames_accepted * channels = Len(heard)
    /\ peak = Max({0} \cup UNION {{x, -x} : x \in Range(heard) \ {NaN}})
    /\ squared_sum = FoldLeft(Energy, 0, heard)
    /\ IsSuffix(FlattenSeq(accepted), heard)

\* "A 440 Hz stereo tone at 48 kHz": the first channel of frame n is the tone
\* after n steps.
ChannelCarriesTone ==
    frequency \notin {None, NaN} /\ start # NaN =>
        \A n \in 0 .. Len(emitted) \div channels - 1 :
            emitted[n * channels + 1] = amplitude * Wave[(start + n * frequency) % sample_rate]

=============================================================================
