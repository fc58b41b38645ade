--------------------------- MODULE MCAllocTracker ---------------------------
EXTENDS AllocTracker, TLC

CONSTANTS t1, t2

Symmetry == Permutations(Threads)
=============================================================================
