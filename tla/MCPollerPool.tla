---------------------------- MODULE MCPollerPool ----------------------------
(* Two pollers and the threads that ask the pool for one. *)
EXTENDS PollerPool, TLC

CONSTANTS p1, p2, c1, c2

MCPollers == {p1, p2}
MCCallers == {c1, c2}
Symmetry == Permutations(MCPollers) \cup Permutations(MCCallers)
=============================================================================
