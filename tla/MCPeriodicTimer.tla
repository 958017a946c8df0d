-------------------------- MODULE MCPeriodicTimer --------------------------
(* A Timer object, and other users of its poller. *)
EXTENDS PeriodicTimer

CONSTANTS t1, t2, o1, none

MCTimers == {t1, t2}
MCDelays == {1}
MCNested == {0, 1}
MCPeriods == {0, 2, 9}
=============================================================================
