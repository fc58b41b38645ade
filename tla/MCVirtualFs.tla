----------------------------- MODULE MCVirtualFs -----------------------------
EXTENDS VirtualFs

\* Two branches, one of them three levels deep, and raw paths that take each
\* way through normalize.
MCRaws == {<<Dot>>, <<1>>, <<2>>, <<1, 1>>, <<1, 1, 1>>, <<1, Dot, 2>>,
           <<>>, <<1, Up, Up>>, <<1, Up, 2>>}
=============================================================================
