--------------------------- MODULE MCEventPoller ---------------------------
(* Instances of EventPoller: an owner and other clients, a few jobs, one of *)
(* which may post another from its body.                                    *)
EXTENDS EventPoller, TLC

CONSTANTS owner, other, j1, j2, j3, jExit, none

MCClients == {owner, other}
MCTasks == {j1, j2, j3}
\* The body of j1 posts j3 to the poller that runs it.
OneNested == (j1 :> j3) @@ (j2 :> none) @@ (j3 :> none)
=============================================================================
