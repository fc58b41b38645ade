----------------------------- MODULE Comparison -----------------------------
(***************************************************************************)
(* The comparisons of tpt-av-test-reference: PCM samples (audio.rs) and    *)
(* pixels (image.rs).  A sample is an integer, an infinity or NaN.  A      *)
(* frame is its size and the bytes of its RGB pixels, row by row.          *)
(***************************************************************************)
EXTENDS Integers, Sequences, FiniteSetsExt

CONSTANT UsizeEnd   \* one more than the largest usize

ASSUME ComparisonAssumption == UsizeEnd \in Nat /\ 65536 <= UsizeEnd

Ok == [is |-> "Ok"]
Err(e) == [is |-> e]

-----------------------------------------------------------------------------
(* audio.rs *)

Inf == 1000
NaN == 2000
Finite == -100 .. 100
Sample == Finite \cup {Inf, -Inf, NaN}

Abs(x) == IF x < 0 THEN -x ELSE x

\* (x - y).abs() of f32.
Diff(x, y) ==
    IF NaN \in {x, y} \/ (x = y /\ Abs(x) = Inf) THEN NaN
    ELSE IF Inf \in {Abs(x), Abs(y)} THEN Inf
    ELSE Abs(x - y)

\* Mutant of ExceedsTolerance: a comparison with NaN is false.
ExceedsToleranceNaN(diff, tolerance) ==
    NaN \notin {diff, tolerance} /\ diff > tolerance

ExceedsTolerance(diff, tolerance) ==
    diff = NaN \/ (tolerance # NaN /\ diff > tolerance)

assert_pcm_equal(expected, actual, tolerance) ==
    LET exceeding == {i \in DOMAIN expected :
                        ExceedsTolerance(Diff(expected[i], actual[i]), tolerance)}
    IN  IF Len(expected) # Len(actual) THEN Err("SampleCountMismatch")
        ELSE IF exceeding = {} THEN Ok
        ELSE [is |-> "PcmMismatch", sample_index |-> Min(exceeding) - 1]

-----------------------------------------------------------------------------
(* image.rs: the two assertions.  The reference is a frame, or cannot be    *)
(* decoded; a required PSNR is given as the mean squared error it allows,   *)
(* or NaN, which no score is below.                                         *)

IsFrame(f) ==
    /\ f \in [width : Nat, height : Nat, raw : Seq(0 .. 255)]
    /\ Len(f.raw) = 3 * (f.width * f.height)

Undecodable == [width |-> 0, height |-> 0, raw |-> <<>>]

SquaredSum(a, b) ==
    MapThenSumSet(LAMBDA i : (a.raw[i] - b.raw[i]) * (a.raw[i] - b.raw[i]), DOMAIN a.raw)

\* psnr(a, b) < required.
Below(a, b, allowed) ==
    allowed # NaN /\ SquaredSum(a, b) > allowed * Len(a.raw)

\* image_dimensions_check.
SameDimensions(a, b) == <<a.width, a.height>> = <<b.width, b.height>>

\* image::open first, then the dimensions.
Opened(generated, reference) ==
    IF reference = Undecodable THEN Err("ImageDecode")
    ELSE IF ~SameDimensions(generated, reference) THEN Err("ImageDimensionMismatch")
    ELSE Ok

assert_image_similar(generated, reference, allowed) ==
    LET opened == Opened(generated, reference) IN
    IF opened # Ok THEN opened
    ELSE IF Below(generated, reference, allowed) THEN Err("ImagePsnr")
    ELSE Ok

\* Mutant of Position: rows and columns are taken for one another.
PositionByHeight(pixel, a) == <<pixel % a.height, pixel \div a.height>>

Position(pixel, a) == <<pixel % a.width, pixel \div a.width>>

PixelBytes(a, pixel) == SubSeq(a.raw, 3 * pixel + 1, 3 * pixel + 3)

\* The report on two frames of one size that differ.
FirstDifference(a, b) ==
    LET differing == (Min({i \in DOMAIN a.raw : a.raw[i] # b.raw[i]}) - 1) \div 3
    IN  [is |-> "FrameNotExact", pixel |-> Position(differing, a),
         generated |-> PixelBytes(a, differing), reference |-> PixelBytes(b, differing)]

assert_frame_exact(generated, reference) ==
    LET opened == Opened(generated, reference) IN
    IF opened # Ok THEN opened
    ELSE IF generated.raw = reference.raw THEN Ok
    ELSE FirstDifference(generated, reference)

-----------------------------------------------------------------------------
(* image.rs: the window of ssim *)

WINDOW == 11
half   == WINDOW \div 2

\* Mutant of mirror: the last pixel is repeated at the edge.
mirrorRepeating(idx, len) ==
    IF idx < 0 THEN (-idx) % len
    ELSE IF idx >= len THEN (2 * len - idx - 1) % UsizeEnd
    ELSE idx

\* isize as usize wraps.
mirror(idx, len) ==
    IF idx < 0 THEN (-idx) % len
    ELSE IF idx >= len THEN (2 * len - idx - 2) % UsizeEnd
    ELSE idx

\* The rows, or columns, that the window around one of len positions reads.
Window(at, len) == [w \in 0 .. WINDOW - 1 |-> mirror(at + w - half, len)]

\* No index of ssim's loops lies outside la and lb.
InBounds(len) ==
    \A at \in 0 .. len - 1 : \A w \in 0 .. WINDOW - 1 : Window(at, len)[w] < len

-----------------------------------------------------------------------------
(* What the verdicts on two inputs promise *)

\* "every sample is within tolerance of its counterpart": the verdict is the
\* same whichever side is the reference, a mismatch is at the first sample that
\* one by one does not compare equal, a wider tolerance accepts no less, and
\* tolerance zero accepts exactly identical finite samples: never a NaN, on
\* either side, and no infinity either.
PcmRight(a, b, tolerance) ==
    LET verdict == assert_pcm_equal(a, b, tolerance)
        Alone(i) == assert_pcm_equal(<<a[i]>>, <<b[i]>>, tolerance) = Ok
    IN
    /\ verdict = assert_pcm_equal(b, a, tolerance)
    /\ verdict = Ok => assert_pcm_equal(a, b, Inf) = Ok
    /\ tolerance = 0 =>
         (verdict = Ok <=> a = b /\ \A i \in DOMAIN a : a[i] \notin {Inf, -Inf, NaN})
    /\ verdict.is = "PcmMismatch" =>
         LET at == verdict.sample_index + 1
         IN  ~Alone(at) /\ \A i \in 1 .. at - 1 : Alone(i)

\* A frame is exact if and only if it is similar at an infinite PSNR, and then
\* at every PSNR.  The pixel in the report exists, differs, has the bytes the
\* report says, and every pixel above it, or left of it in its row, is equal.
FrameRight(a, b) ==
    LET exact == assert_frame_exact(a, b)
        Pixel(f, x, y) == [c \in 1 .. 3 |-> f.raw[3 * (y * f.width + x) + c]]
        x == exact.pixel[1]
        y == exact.pixel[2]
    IN
    /\ exact.is = "Ok" <=> assert_image_similar(a, b, 0).is = "Ok"
    /\ exact.is = "Ok" => \A allowed \in {0, 1, NaN} :
                              assert_image_similar(a, b, allowed).is = "Ok"
    /\ exact.is = "FrameNotExact" =>
         /\ x \in 0 .. a.width - 1 /\ y \in 0 .. a.height - 1
         /\ exact.generated = Pixel(a, x, y) /\ exact.reference = Pixel(b, x, y)
         /\ exact.generated # exact.reference
         /\ \A u \in 0 .. a.width - 1, v \in 0 .. y :
               v < y \/ u < x => Pixel(a, u, v) = Pixel(b, u, v)

\* The windows of ssim stay inside an image side of len pixels if and only if
\* it is longer than half a window; then they reflect it at its edges without
\* repeating the outermost pixel, and treat both edges alike.
WindowRight(len) ==
    /\ InBounds(len) <=> half < len
    /\ half < len =>
         \A at \in 0 .. len - 1 : \A w \in 0 .. WINDOW - 1 :
            LET idx == at + w - half
                read == Window(at, len)[w]
            IN  /\ read \in {idx, -idx, 2 * (len - 1) - idx}
                /\ idx \in 0 .. len - 1 => read = idx
                /\ Window(len - 1 - at, len)[WINDOW - 1 - w] = len - 1 - read

=============================================================================
