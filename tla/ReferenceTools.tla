--------------------------- MODULE ReferenceTools ---------------------------
(***************************************************************************)
(* The callers of run_captured in tpt-av-test-reference: what ffmpeg.rs    *)
(* and libsndfile.rs make of the exit code and the output of a tool.  They *)
(* return as soon as run_captured does, so each is a function of its       *)
(* result.  An outcome is [is |-> "Ok", val] or an error by its name.      *)
(***************************************************************************)
EXTENDS Subprocess, Comparison, SequencesExt

CONSTANTS
    SampleBytes,    \* bytes of a sample: four
    FromBits(_),    \* the sample that a group of so many bytes stands for
    Numbers,        \* values of a line of ffprobe that parse as a number
    Samples,        \* finite sample values
    MaxBlock,       \* bound: samples in a block that is compared
    Frames,         \* frames that are compared
    MaxSide         \* bound: the longest side of an image under ssim

ASSUME ReferenceToolsAssumption ==
    /\ SampleBytes \in Nat \ {0} /\ Numbers \subseteq Nat
    /\ \A group \in [1 .. SampleBytes -> Bytes] : FromBits(group) \in Sample
    /\ Samples \subseteq Finite /\ MaxBlock \in Nat
    /\ \A frame \in Frames : IsFrame(frame)
    /\ MaxSide \in Nat /\ 2 * MaxSide < UsizeEnd

OkWith(v) == [is |-> "Ok", val |-> v]

\* Mutant of Succeeded: the output counts even if the tool failed.
SucceededAnyhow(run) == run.is = "ok"

Succeeded(run) == run.is = "ok" /\ run.code = 0

\* `?`, and the check of the exit code that every caller starts with.
Failure(run) == Err(IF run.is = "ok" THEN "ReferenceFailed" ELSE run.is)

-----------------------------------------------------------------------------
(* ffmpeg.rs *)

\* chunks_exact(4): the bytes in groups of one sample.
Chunks(raw) == [i \in 1 .. Len(raw) \div SampleBytes |->
                    SubSeq(raw, (i - 1) * SampleBytes + 1, i * SampleBytes)]

pcm_bytes_to_f32(raw) ==
    IF Len(raw) % SampleBytes # 0
    THEN Err("PcmUnaligned")
    ELSE OkWith([i \in DOMAIN Chunks(raw) |-> FromBits(Chunks(raw)[i])])

decode_to_f32le(run) ==
    IF Succeeded(run) THEN pcm_bytes_to_f32(run.out) ELSE Failure(run)

\* audio.rs: the decoder under test against the reference.
assert_bit_exact_vs_ffmpeg(run, output, tolerance) ==
    LET reference == decode_to_f32le(run)
    IN  IF reference.is = "Ok"
        THEN assert_pcm_equal(reference.val, output, tolerance)
        ELSE reference

-----------------------------------------------------------------------------
(* libsndfile.rs.  A line of the output is <<key, value>> as split_once     *)
(* leaves it, with both spellings of a key the same; a line without '=' is  *)
(* skipped, and <<>> here.  A value is Some number or None, as parse().ok() *)
(* has it; a codec name is any value.                                       *)

None == -1

Unset == [codec_name |-> None, sample_rate |-> None, channels |-> None, bit_depth |-> None]

\* The fields that have a line of their own.
Own == {"codec_name", "sample_rate", "channels"}

\* Mutant of Line: a bits_per_sample that does not parse forgets the depth.
LineForgets(info, line) ==
    IF line = <<>> THEN info
    ELSE CASE line[1] = "bits_per_sample" -> [info EXCEPT !.bit_depth = line[2]]
           [] line[1] = "bits_per_raw_sample" ->
                 IF info.bit_depth = None THEN [info EXCEPT !.bit_depth = line[2]] ELSE info
           [] line[1] \in Own -> [info EXCEPT ![line[1]] = line[2]]
           [] OTHER -> info

\* One turn of the loop of parse_stream_info.
Line(info, line) ==
    IF line = <<>> THEN info
    ELSE CASE line[1] = "bits_per_sample" ->
                 IF line[2] = None THEN info ELSE [info EXCEPT !.bit_depth = line[2]]
           [] line[1] = "bits_per_raw_sample" ->
                 IF info.bit_depth = None THEN [info EXCEPT !.bit_depth = line[2]] ELSE info
           [] line[1] \in Own -> [info EXCEPT ![line[1]] = line[2]]
           [] OTHER -> info

parse_stream_info(lines) ==
    LET info == FoldLeft(Line, Unset, lines)
    IN  IF \E key \in Own : info[key] = None
        THEN Err("InvalidReferenceOutput")
        ELSE OkWith(info)

probe(run) == IF Succeeded(run) THEN parse_stream_info(run.out) ELSE Failure(run)

\* from_utf8_lossy replaces what is not text.
sox_summary(run) ==
    IF Succeeded(run)
    THEN OkWith([i \in DOMAIN run.out |->
                IF run.out[i] = "invalid" THEN "replacement" ELSE run.out[i]])
    ELSE Failure(run)

-----------------------------------------------------------------------------
(* Properties *)

\* A decode that succeeds holds every byte the tool ever wrote, also what was
\* in the pipe when it ended, and the tool ended well; a tool that is killed
\* half way never counts as a short recording.  The one exception is output
\* that cannot be read: it passes for an empty recording.  And the assertion
\* against it passes for the samples that were written, and no others.
DecodeIsWhole ==
    main = "returned" =>
        LET decoded == decode_to_f32le(result)
            written == buf["out"] \o pipe["out"]
            unread  == reader["out"] = "failed"
        IN  /\ decoded.is = "Ok" =>
                 /\ status = "exit0"
                 /\ Len(decoded.val) * SampleBytes = IF unread THEN 0 ELSE Len(written)
            /\ decoded.is = "PcmUnaligned" =>
                 ~unread /\ Len(written) % SampleBytes # 0
            /\ decoded.is = "ReferenceBinaryNotFound" => status = "unborn"
            /\ decoded.is = "ReferenceFailed" <=> result.is = "ok" /\ status # "exit0"
            /\ sox_summary(result).is = "Ok" <=> result.is = "ok" /\ status = "exit0"
            /\ \A output \in BoundedSeq(Samples, MaxBytes) :
                  assert_bit_exact_vs_ffmpeg(result, output, 0).is = "Ok" =>
                     \/ unread /\ output = <<>>
                     \/ /\ status = "exit0"
                        /\ Len(output) * SampleBytes = Len(written)
                        /\ \A i \in DOMAIN output : output[i] = FromBits(Chunks(written)[i])

\* Output in the usual order, complete or short of a line, into which extra
\* lines go at any one place.
Usual == <<<<"codec_name", 1>>, <<"sample_rate", 1>>, <<"channels", 1>>>>
Extra == {<<>>, <<"codec_name", 2>>, <<"sample_rate", None>>, <<"channels", 2>>}
         \cup {"bits_per_sample", "bits_per_raw_sample"} \X (Numbers \cup {None})

Text(i, extra, j) == SubSeq(Usual, 1, i) \o extra \o SubSeq(Usual, j, 3)

Texts == {Text(i, extra, j) : i \in 0 .. 3, j \in 1 .. 4, extra \in BoundedSeq(Extra, 3)}

\* Whatever the order of the lines: the depth is the last bits_per_sample that
\* is a number, before or after any bits_per_raw_sample; only without one is
\* it the first bits_per_raw_sample that is.  The last line decides the other
\* fields, and when it is missing or unreadable the output is invalid.
StreamInfoRight(lines) ==
    LET At(key)      == {i \in DOMAIN lines : lines[i] # <<>> /\ lines[i][1] = key}
        Numeric(key) == {i \in At(key) : lines[i][2] # None}
        LastOf(key)  == IF At(key) = {} THEN None ELSE lines[Max(At(key))][2]
        own == Numeric("bits_per_sample")
        raw == Numeric("bits_per_raw_sample")
        info == [codec_name |-> LastOf("codec_name"),
                 sample_rate |-> LastOf("sample_rate"),
                 channels |-> LastOf("channels"),
                 bit_depth |-> IF own # {} THEN lines[Max(own)][2]
                               ELSE IF raw # {} THEN lines[Min(raw)][2] ELSE None]
        captured == [is |-> "ok", code |-> 0, out |-> lines, err |-> <<>>]
    IN  probe(captured) =
            IF \E key \in Own : info[key] = None
            THEN Err("InvalidReferenceOutput")
            ELSE OkWith(info)

(***************************************************************************)
(* Parsing and comparing keep no state: what they do on all small inputs   *)
(* is looked at once, before the first tool is started.                    *)
(***************************************************************************)

\* StreamInfoRight of every output: libsndfile.rs, parse_stream_info.
StreamInfoIsRight == main = "start" => \A lines \in Texts : StreamInfoRight(lines)

\* PcmRight of every two blocks of up to MaxBlock samples: audio.rs,
\* assert_pcm_equal.
PcmVerdict ==
    main = "start" =>
        \A a, b \in BoundedSeq(Samples \cup {Inf, -Inf, NaN}, MaxBlock), tolerance \in {0, 1, Inf, NaN} :
            PcmRight(a, b, tolerance)

\* FrameRight of every two frames: image.rs, assert_frame_exact and
\* assert_image_similar.
FrameVerdict ==
    main = "start" => \A a \in Frames, b \in Frames \cup {Undecodable} : FrameRight(a, b)

\* WindowRight for every side of an image: image.rs, mirror and ssim.
WindowReflects == main = "start" => \A len \in 1 .. MaxSide : WindowRight(len)

=============================================================================
