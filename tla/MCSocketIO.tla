----------------------------- MODULE MCSocketIO -----------------------------
(* Two UDP sockets of a poller, to which users send. *)
EXTENDS SocketIO, TLC

CONSTANTS s1, s2, none

MCSockets == {s1, s2}
MCSizes == {1, 3}
Symmetry == Permutations(MCSockets)
=============================================================================
