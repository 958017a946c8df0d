------------------------------ MODULE MCLogger ------------------------------
(* Two threads that log three entries, one of a low level, to two channels, of  *)
(* which one filters.                                                           *)
EXTENDS Logger

CONSTANTS c1, c2, e1, e2, e3, all, some, writer, none, blank

MCClients == {c1, c2}
MCEntries == {e1, e2, e3}
MCChannels == {all, some}
MCLevel == [e \in MCEntries |-> IF e = e1 THEN 0 ELSE 2]
MCMinLevel == [ch \in MCChannels |-> IF ch = some THEN 1 ELSE 0]
=============================================================================
