----------------------------- MODULE MCFdEvents -----------------------------
(* Two or three sockets that share two numbers of descriptors. *)
EXTENDS FdEvents

CONSTANTS s1, s2, s3, c1, c2, poller, none

MCSockets == {s1, s2, s3}
TwoSockets == {s1, s2}
MCFds == {1, 2}
MCClients == {c1, c2}
OneClient == {c1}
MCMasks == {{"write", "error"}}
NoMasks == {}
=============================================================================
