---------------------------- MODULE MCThreadPool ----------------------------
(* Instances of ThreadPool: two workers, two clients, three jobs, one of *)
(* which posts another.                                                  *)
EXTENDS ThreadPool, TLC

CONSTANTS w1, w2, c1, c2, j1, j2, j3, none

MCWorkers == {w1, w2}
MCClients == {c1, c2}
MCTasks == {j1, j2, j3}
OneNested == (j1 :> j3) @@ (j2 :> none) @@ (j3 :> none)
=============================================================================
