----------------------------- MODULE MCAudioBlock -----------------------------
EXTENDS AudioBlock

\* Numerals on both sides of each test, and a grid of units on which two of
\* them reach the limit exactly.
MCNumerals == "0" :> 0 @@ "2" :> 2 @@ "9" :> 9 @@ "-1" :> -1 @@ "inf" :> NotFinite
MCTicks == <<"n", "s">> :> 1 @@ <<"u", "s">> :> 5 @@ <<"micro", "s">> :> 5
           @@ <<"m", "s">> :> 10 @@ <<"s">> :> 100
=============================================================================
