---------------------------- MODULE MCAudioDevice ----------------------------
EXTENDS AudioDevice

\* Ten times the sine of every eighth of a turn.
MCWave == <<7, 10, 7, 0, -7, -10, -7>> @@ (0 :> 0)
MCBuffers == UNION {[1 .. n -> {2, -3}] : n \in 0 .. 3} \cup {<<NaN, 2>>}
MCFrequencies == {-5, 3, 9, NaN}
=============================================================================
