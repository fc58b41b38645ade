---------------------------- MODULE MCMockNetwork ----------------------------
(* Model-checking instance of MockNetwork. *)
EXTENDS MockNetwork, TLC

\* Threads are interchangeable: no action or invariant tells them apart.
Symmetry == Permutations(Threads)

=============================================================================
