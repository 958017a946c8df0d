----------------------------- MODULE MCSyncCall -----------------------------
(* A pool of two threads, whose jobs call a poller, and two clients of both. *)
EXTENDS SyncCall, TLC

CONSTANTS c1, c2, w1, w2, p1, pool, poller

MCClients == {c1, c2}
MCWorkers == {w1, w2, p1}
MCExecutors == {pool, poller}
MCExecutorOf == (w1 :> pool) @@ (w2 :> pool) @@ (p1 :> poller)
\* EventPoller::onPipeEvent catches, ThreadPool::run does not.
MCCatches == {poller}
MCMayCall == {<<pool, poller>>}
=============================================================================
