----------------------------- MODULE MCSockUtil -----------------------------
(* Two threads, two descriptors and a name that moves. *)
EXTENDS SockUtil, TLC

CONSTANTS c1, c2, f1, f2, none, name, literal

MCCallers == {c1, c2}
MCFds == {f1, f2}
MCAnswers == <<<<6, 4>>, <<6>>>>
Symmetry == Permutations(MCCallers) \cup Permutations(MCFds)
=============================================================================
