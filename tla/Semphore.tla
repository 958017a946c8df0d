------------------------------ MODULE Semphore ------------------------------
(***************************************************************************)
(* avc::util::Semphore (util/Semphore.h): a counter under a mutex and a    *)
(* condition variable.  The mutex is held from the lock to the unlock or   *)
(* to the cond_.wait that releases it, so each such section is one action. *)
(* A thread in the wait loop is either asleep in the wait set of cond_     *)
(* ("blocked") or notified and about to lock the mutex again ("woken").    *)
(***************************************************************************)
EXTENDS Integers, FiniteSets

CONSTANTS Threads,      \* threads that call wait
          PostSizes,    \* the amounts post is called with
          MaxPermits    \* bound of the model on nn_

ASSUME ThreadsAssumption == IsFiniteSet(Threads)
ASSUME PostAssumption == PostSizes \subseteq Nat /\ MaxPermits \in Nat

VARIABLES nn,           \* nn_
          st            \* where each thread is: outside, asleep, notified

semVars == <<nn, st>>

Blocked == {t \in Threads : st[t] = "blocked"}
Woken   == {t \in Threads : st[t] = "woken"}

SemInit == nn = 0 /\ st = [t \in Threads |-> "running"]

\* wait: lock, test nn_, take a permit or sleep.
Wait(t) ==
    /\ st[t] = "running"
    /\ \/ nn = 0 /\ st' = [st EXCEPT ![t] = "blocked"] /\ UNCHANGED nn
       \/ nn > 0 /\ nn' = nn - 1 /\ UNCHANGED st

\* Mutant: the loop around cond_.wait is an if.
RecheckOnce(t) ==
    /\ st[t] = "woken"
    /\ nn' = (IF nn > 0 THEN nn - 1 ELSE 0)
    /\ st' = [st EXCEPT ![t] = "running"]

\* A notified thread locks the mutex again and goes round the while loop.
Recheck(t) ==
    /\ st[t] = "woken"
    /\ \/ nn = 0 /\ st' = [st EXCEPT ![t] = "blocked"] /\ UNCHANGED nn
       \/ nn > 0 /\ nn' = nn - 1 /\ st' = [st EXCEPT ![t] = "running"]

\* cond_.wait may return without a notification.
SpuriousWakeup(t) ==
    /\ st[t] = "blocked"
    /\ st' = [st EXCEPT ![t] = "woken"]
    /\ UNCHANGED nn

NotifyOne ==
    IF Blocked = {} THEN UNCHANGED st
    ELSE \E t \in Blocked : st' = [st EXCEPT ![t] = "woken"]

NotifyAll == st' = [t \in Threads |-> IF t \in Blocked THEN "woken" ELSE st[t]]

\* Mutant: one notification whatever the amount.
PostOne(n) == nn + n <= MaxPermits /\ nn' = nn + n /\ NotifyOne

\* post(n): one sleeper is notified for n = 1, all of them otherwise.
Post(n) ==
    /\ nn + n <= MaxPermits
    /\ nn' = nn + n
    /\ IF n = 1 THEN NotifyOne ELSE NotifyAll

SemNext == \/ \E t \in Threads : Wait(t) \/ Recheck(t) \/ SpuriousWakeup(t)
           \/ \E n \in PostSizes : Post(n)

\* The mutex is handed to some notified thread in the end.
SemSpec == SemInit /\ [][SemNext]_semVars /\ WF_semVars(\E t \in Threads : Recheck(t))

-----------------------------------------------------------------------------
SemTypeOK == nn \in Nat /\ st \in [Threads -> {"running", "blocked", "woken"}]

\* No permit is left beside a sleeping thread unless a thread that is already
\* awake will come for it: the choice between notify_one and notify_all in post
\* (Semphore.h:50-60) never strands a permit, whatever the order of posts,
\* spurious wakeups and threads that overtake the notified one.
NoStrandedPermit == Blocked # {} => nn <= Cardinality(Woken)

Abstract == INSTANCE CountingSemaphore
              WITH permits <- nn, waiters <- Blocked \cup Woken

\* Semphore is a counting semaphore: wait returns only with a permit of its
\* own, and permits and waiters do not stay together for ever.
IsCountingSemaphore == Abstract!Spec
=============================================================================
