-------------------------- MODULE MCReferenceTools --------------------------
EXTENDS ReferenceTools

\* A sample of two bytes; an invalid byte alone in it makes the sample a NaN.
MCFromBits(group) == CASE group = <<"text", "text">> -> 0
                       [] group = <<"text", "invalid">> -> 1
                       [] OTHER -> NaN

\* Frames of four shapes, black but for one channel of one pixel at most.
MCFrame(width, height, lit) ==
    [width |-> width, height |-> height,
     raw |-> [i \in 1 .. 3 * width * height |-> IF i = lit THEN 1 ELSE 0]]

MCFrames == UNION {{MCFrame(size[1], size[2], lit) : lit \in 0 .. 3 * size[1] * size[2]} :
                      size \in {<<2, 1>>, <<1, 2>>, <<2, 3>>, <<3, 2>>}}
=============================================================================
