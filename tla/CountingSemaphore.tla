------------------------- MODULE CountingSemaphore -------------------------
(***************************************************************************)
(* What a counting semaphore promises, without a mutex or a condition      *)
(* variable: a number of permits, a set of threads that asked for one and  *)
(* did not get it yet.  Semphore.tla is shown to implement it.             *)
(***************************************************************************)
EXTENDS Naturals

CONSTANTS Threads,      \* threads that call wait
          PostSizes     \* the amounts post is called with

VARIABLES permits,      \* permits nobody has taken
          waiters       \* threads inside wait

vars == <<permits, waiters>>

Init == permits = 0 /\ waiters = {}

\* A thread that finds no permit waits for one.
Arrive(t) == /\ permits = 0
             /\ t \notin waiters
             /\ waiters' = waiters \cup {t}
             /\ UNCHANGED permits

\* A thread takes a permit, after waiting for it or at once.
Pass(t) == /\ permits > 0
           /\ permits' = permits - 1
           /\ waiters' = waiters \ {t}

Release(n) == permits' = permits + n /\ UNCHANGED waiters

Next == \/ \E t \in Threads : Arrive(t) \/ Pass(t)
        \/ \E n \in PostSizes : Release(n)

\* A permit and a waiter do not stay together for ever.
Handover == \E t \in waiters : Pass(t)

Spec == Init /\ [][Next]_vars /\ WF_vars(Handover)
=============================================================================
