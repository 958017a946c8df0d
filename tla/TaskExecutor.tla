---------------------------- MODULE TaskExecutor ----------------------------
(***************************************************************************)
(* What TaskExecutorInterface (thread/TaskExecutor.h) and the job class    *)
(* TaskCancelable promise to a caller, whoever executes the jobs: a queue  *)
(* with two ends, jobs that have been taken from its head, and jobs whose  *)
(* body has been entered.  EventPoller.tla and ThreadPool.tla are shown to *)
(* implement it.                                                           *)
(***************************************************************************)
EXTENDS Naturals, Sequences

CONSTANT Tasks

VARIABLES queue,        \* posted jobs nobody has taken yet
          claimed,      \* jobs the executor took and has not settled
          begun,        \* jobs whose body was entered
          cancelled,    \* jobs somebody cancelled
          issued        \* jobs somebody passed to async or async_first

vars == <<queue, claimed, begun, cancelled, issued>>

Init == queue = <<>> /\ claimed = {} /\ begun = {} /\ cancelled = {} /\ issued = {}

\* async (back) or async_first (front) from a thread of somebody else, or with
\* may_sync = false.
Post(t, first) ==
    /\ t \notin issued
    /\ issued' = issued \cup {t}
    /\ queue' = IF first THEN <<t>> \o queue ELSE Append(queue, t)
    /\ UNCHANGED <<claimed, begun, cancelled>>

\* async or async_first from the executor's own thread: the body runs at once.
RunInline(t) ==
    /\ t \notin issued
    /\ issued' = issued \cup {t} /\ begun' = begun \cup {t}
    /\ UNCHANGED <<queue, claimed, cancelled>>

\* The executor takes one or more jobs from the head of the queue.
Claim(n) ==
    /\ claimed' = claimed \cup {queue[i] : i \in 1..n}
    /\ queue' = SubSeq(queue, n + 1, Len(queue))
    /\ UNCHANGED <<begun, cancelled, issued>>

\* It enters the body of a job it has, unless the job was cancelled.
Begin(t) ==
    /\ t \in claimed \ cancelled
    /\ claimed' = claimed \ {t} /\ begun' = begun \cup {t}
    /\ UNCHANGED <<queue, cancelled, issued>>

Skip(t) ==
    /\ t \in claimed \cap cancelled
    /\ claimed' = claimed \ {t}
    /\ UNCHANGED <<queue, begun, cancelled, issued>>

Cancel(t) ==
    /\ t \in issued
    /\ cancelled' = cancelled \cup {t}
    /\ UNCHANGED <<queue, claimed, begun, issued>>

Settle == \E t \in Tasks : Begin(t) \/ Skip(t)

Next == \/ \E t \in Tasks : \/ RunInline(t) \/ Cancel(t)
                            \/ \E first \in BOOLEAN : Post(t, first)
        \/ \E n \in 1..Len(queue) : Claim(n)
        \/ Settle

\* A job that was taken is run or skipped in the end.
Spec == Init /\ [][Next]_vars /\ WF_vars(Settle)
=============================================================================
