-------------------------------- MODULE Timing --------------------------------
(***************************************************************************)
(* tpt-av-test-benchmark/src/timing.rs without its clock: the statistics   *)
(* over collected durations, and the durations written as text.            *)
(*                                                                         *)
(* A TimingStats is the non-empty sequence of its durations in collection  *)
(* order, a duration a number of clock ticks.  The fraction handed to      *)
(* percentile is the f64 nearest to the rational num / den, and the        *)
(* product with the count is rounded to an f64 once more.  A float below   *)
(* 2^(Precision - 1) is digits / scale, with Precision binary digits and a *)
(* power of two.                                                           *)
(*                                                                         *)
(* A text is a sequence of tokens: letters, blanks, and numerals that f64  *)
(* parses whole.  A duration is the numeral times its unit; the rounding   *)
(* to nanoseconds is left out.                                             *)
(***************************************************************************)
EXTENDS Integers, SequencesExt

CONSTANTS
    Precision,      \* binary digits of a float: 53 in an f64
    MaxExponent,    \* the smallest float is 2^-MaxExponent: 1074 in an f64
    Numerals,       \* the value of each numeral, NotFinite for inf and nan
    Ticks,          \* clock ticks in a unit, by its suffix
    DurationEnd,    \* Duration::MAX.as_secs_f64(): rounded up, one tick too many
    MaxText         \* bound: tokens of a text

NotFinite == -1000

ASSUME TimingAssumption ==
    /\ Precision \in Nat \ {0} /\ MaxExponent \in Nat
    /\ \A n \in DOMAIN Numerals : Numerals[n] \in Int
    /\ \A unit \in DOMAIN Ticks : Ticks[unit] \in Nat
    /\ DurationEnd \in Nat /\ MaxText \in Nat

-----------------------------------------------------------------------------
(* f64 *)

pow2[k \in Nat] == IF k = 0 THEN 1 ELSE 2 * pow2[k - 1]

\* a / b to the nearest integer, halves to the even one.
Rounded(a, b) ==
    LET q == a \div b
        r == a % b
    IN  IF 2 * r > b \/ (2 * r = b /\ q % 2 = 1) THEN q + 1 ELSE q

\* The smallest power of two that leaves a / b all the digits.
ScaleOf(a, b) ==
    LET enough(k) == b * pow2[Precision - 1] <= a * pow2[k]
    IN  pow2[CHOOSE k \in 0 .. MaxExponent : enough(k) /\ (k > 0 => ~enough(k - 1))]

\* The float nearest to a / b, for zero and what is neither tiny nor huge.
Nearest(a, b) ==
    IF a = 0 THEN [digits |-> 0, scale |-> 1]
    ELSE [digits |-> Rounded(a * ScaleOf(a, b), b), scale |-> ScaleOf(a, b)]

-----------------------------------------------------------------------------
(* TimingStats *)

min(durations)   == Min(Range(durations))
max(durations)   == Max(Range(durations))
total(durations) == SumFunction(durations)
mean(durations)  == total(durations) \div Len(durations)

\* The f64 product of the fraction and the count.
Product(num, den, count) ==
    LET fraction == Nearest(num, den)
    IN  Nearest(fraction.digits * count, fraction.scale)

\* Mutant of PercentileIndex: the product is rounded down.
PercentileIndexDown(num, den, count) ==
    LET product == Product(num, den, count)
    IN  Min({Max({product.digits \div product.scale, 1}) - 1, count - 1})

\* The product's ceil, less one, saturating at zero and at the last sample.
PercentileIndex(num, den, count) ==
    LET product == Product(num, den, count)
        ceil == (product.digits + product.scale - 1) \div product.scale
    IN  Min({Max({ceil, 1}) - 1, count - 1})

\* The samples from the fastest to the slowest: each position once.
Sorts(order, durations) ==
    \A i, j \in DOMAIN order : i < j => durations[order[i]] <= durations[order[j]]

sorted(durations) ==
    LET positions == DOMAIN durations
        order == CHOOSE o \in Bijection(positions, positions) : Sorts(o, durations)
    IN  [i \in positions |-> durations[order[i]]]

percentile(durations, num, den) ==
    sorted(durations)[PercentileIndex(num, den, Len(durations)) + 1]

median(durations) == percentile(durations, 1, 2)

-----------------------------------------------------------------------------
(* RealtimeBudget, at the clock reading now *)

NoBudget == [start |-> 0, budget |-> -1]

elapsed(b, now) == now - b.start

\* Mutant of exhausted: a budget is gone as soon as it is used up.
exhaustedAtLimit(b, now) == b # NoBudget /\ elapsed(b, now) >= b.budget

exhausted(b, now) == b # NoBudget /\ elapsed(b, now) > b.budget

remaining(b, now) == Max({b.budget - elapsed(b, now), 0})

-----------------------------------------------------------------------------
(* parse_duration *)

Blank == " "

TrimEnd(text) ==
    SubSeq(text, 1, Max({i \in DOMAIN text : text[i] # Blank} \cup {0}))

Trim(text) == Reverse(TrimEnd(Reverse(TrimEnd(text))))

\* Mutant of Units: the shortest suffix is tried first.
UnitsShortestFirst == <<<<"s">>, <<"micro", "s">>, <<"u", "s">>, <<"n", "s">>, <<"m", "s">>>>

\* The suffixes in the order in which they are tried.
Units == <<<<"m", "s">>, <<"micro", "s">>, <<"u", "s">>, <<"n", "s">>, <<"s">>>>

Invalid(number) ==
    \/ Len(number) # 1
    \/ number[1] \notin DOMAIN Numerals
    \/ Numerals[number[1]] = NotFinite \/ Numerals[number[1]] < 0

\* from_secs_f64 panics if the duration does not fit, which the check before
\* it lets happen for the one value to which MAX is rounded.
Scaled(duration) ==
    CASE duration > DurationEnd -> [is |-> "OutOfRange"]
      [] duration = DurationEnd -> [is |-> "panic"]
      [] OTHER                  -> [is |-> "Ok", duration |-> duration]

parse_duration(text) ==
    LET trimmed == Trim(text)
        unit    == Min({u \in DOMAIN Units : IsSuffix(Units[u], trimmed)} \cup {6})
        number  == TrimEnd(SubSeq(trimmed, 1, Len(trimmed) - Len(Units[unit])))
    IN  IF trimmed = <<>> THEN [is |-> "Empty"]
        ELSE IF unit = 6 THEN [is |-> "MissingUnit"]
        ELSE IF number = <<>> THEN [is |-> "MissingNumber"]
        ELSE IF Invalid(number) THEN [is |-> "InvalidNumber"]
        ELSE Scaled(Numerals[number[1]] * Ticks[Units[unit]])

-----------------------------------------------------------------------------
(* What the statistics promise *)

AtOrBelow(durations, d) == Cardinality({i \in DOMAIN durations : durations[i] <= d})

\* "At least fraction * count samples are at or below" the percentile, and it is
\* the smallest such sample, or the one after a sample that has exactly as many:
\* an integer product may come out a little too large.
IsRank(durations, num, den) ==
    LET chosen == percentile(durations, num, den) IN
    /\ AtOrBelow(durations, chosen) * den >= num * Len(durations)
    /\ \A d \in Range(durations) :
          d < chosen => AtOrBelow(durations, d) * den <= num * Len(durations)

\* The same of the rank alone, whatever the samples.
IsNearestRank(num, den, count) ==
    LET rank == PercentileIndex(num, den, count) + 1 IN
    /\ rank \in 1 .. count
    /\ rank * den >= num * count
    /\ rank = 1 \/ (rank - 1) * den <= num * count

IsMiddle(durations) ==
    LET below == {i \in DOMAIN durations : durations[i] < median(durations)}
        above == {i \in DOMAIN durations : durations[i] > median(durations)}
    IN  2 * Cardinality(below) < Len(durations) /\ 2 * Cardinality(above) <= Len(durations)

-----------------------------------------------------------------------------
(* What the parser promises *)

Letters == {"m", "micro", "u", "n", "s"}

ASSUME GrammarAssumption ==
    /\ DOMAIN Numerals \cap ({Blank} \cup Letters) = {}
    /\ DOMAIN Ticks = Range(Units)

Tokens == {Blank} \cup Letters \cup DOMAIN Numerals

\* Two numerals in a row would be one.
Texts == {text \in BoundedSeq(Tokens, MaxText) :
            Cardinality({i \in DOMAIN text : text[i] \in DOMAIN Numerals}) <= 1}

\* The grammar of the documentation: a number, then a unit in one piece, with
\* any blanks before, between and after.
Reads(text, n, unit) ==
    \E i, j \in DOMAIN text :
        /\ i < j /\ text[i] = n
        /\ IsPrefix(unit, SubSeq(text, j, Len(text)))
        /\ \A k \in DOMAIN text : k \in {i} \cup j .. j + Len(unit) - 1 \/ text[k] = Blank

\* A text is accepted if and only if it is a finite number that is not
\* negative and a unit, blanks aside, and fits in a Duration, and then it is
\* that number times that unit and no other reading of the text exists; what
\* is longer is refused as out of range.  How the limit itself is refused is
\* left open: there the code panics, and its documentation has it out of range.
ParseRight(text) ==
    LET parsed == parse_duration(text)
        readings == {r \in (DOMAIN Numerals) \X (DOMAIN Ticks) :
                        Numerals[r[1]] >= 0 /\ Reads(text, r[1], r[2])}
        lengths == {Numerals[r[1]] * Ticks[r[2]] : r \in readings}
    IN  /\ Cardinality(readings) <= 1
        /\ parsed.is = "Ok" => lengths = {parsed.duration}
        /\ parsed.is = "Ok" <=> \E d \in lengths : d < DurationEnd
        /\ parsed.is = "OutOfRange" => \E d \in lengths : d >= DurationEnd
        /\ (\E d \in lengths : d > DurationEnd) => parsed.is = "OutOfRange"
        /\ parsed.is = "Empty" <=> text \in BoundedSeq({Blank}, MaxText)

=============================================================================
