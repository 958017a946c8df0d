------------------------------ MODULE DelayTask ------------------------------
(***************************************************************************)
(* The timers of avc::util::EventPoller: addDelayTask, scheduleDelayTask   *)
(* and the time-out runLoop gives to epoll_wait (poller/EventPoller.cc).   *)
(*                                                                         *)
(* delay_tasks_ is a multimap from deadlines to jobs; here it is a set of  *)
(* timers with deadlines, of which a pass takes one of the earliest (the   *)
(* order of equal deadlines is left open).  That a posted job wakes the    *)
(* loop is what EventPoller.tla shows.                                     *)
(***************************************************************************)
EXTENDS Integers, FiniteSets

CONSTANTS Timers,       \* jobs with a delay: each is added again only when it is over
          Delays,       \* delays given to addDelayTask by other threads
          NestedDelays, \* delays given to it by a callback of a timer
          Periods,      \* what a callback returns: 0, or the next delay
          IntSize,      \* the values of an int: 2^w
          MaxNow        \* bound of the model on the clock

ASSUME DelaysAssumption == /\ Delays \subseteq Nat /\ NestedDelays \subseteq Nat
                           /\ Periods \subseteq Nat
ASSUME BoundAssumption == /\ MaxNow \in Nat
                          /\ IntSize \in Nat /\ IntSize > 1 /\ IntSize % 2 = 0

VARIABLES
    now,                \* getCurrentMillisecond()
    ppc,                \* where the poller thread is
    added,              \* timers in jobs that addDelayTask posted
    delay_tasks,        \* delay_tasks_
    copy,               \* delay_tasks_copy in scheduleDelayTask
    calling,            \* timers whose callback is running: none or one
    cur,                \* currentMillisecond in scheduleDelayTask
    timeout,            \* the time-out given to epoll_wait
    entered,            \* when epoll_wait was called
    cancelled,          \* timers somebody cancelled
    armed               \* history: timers that were added and are not over

vars == <<now, ppc, added, delay_tasks, copy, calling, cur, timeout, entered,
          cancelled, armed>>

Timer(t, deadline) == [timer |-> t, deadline |-> deadline]
Earliest(S) == {e \in S : \A f \in S : e.deadline <= f.deadline}
Known == added \cup delay_tasks \cup copy \cup calling
Fresh == Timers \ ({e.timer : e \in Known} \cup cancelled)

\* A value of type int64_t passed as an int.
AsInt(n) == LET m == n % IntSize IN IF m < IntSize \div 2 THEN m ELSE m - IntSize

Init ==
    /\ now = 0 /\ ppc = "top"
    /\ added = {} /\ delay_tasks = {} /\ copy = {} /\ calling = {}
    /\ cur = 0 /\ timeout = -1 /\ entered = 0
    /\ cancelled = {} /\ armed = {}

Tick ==
    /\ now < MaxNow
    /\ now' = now + 1
    /\ UNCHANGED <<ppc, added, delay_tasks, copy, calling, cur, timeout, entered, cancelled, armed>>

\* addDelayTask from another thread: the deadline is fixed, the insertion posted.
AddDelayTask(t, d) ==
    /\ t \in Fresh
    /\ added' = added \cup {Timer(t, now + d)}
    /\ armed' = armed \cup {t}
    /\ UNCHANGED <<now, ppc, delay_tasks, copy, calling, cur, timeout, entered, cancelled>>

\* Mutant: a timer that a callback adds joins the pass.
AddToPass(t, d) ==
    /\ ppc = "call" /\ t \in Fresh
    /\ copy' = copy \cup {Timer(t, now + d)}
    /\ armed' = armed \cup {t}
    /\ UNCHANGED <<now, ppc, added, delay_tasks, calling, cur, timeout, entered, cancelled>>

\* addDelayTask from a callback: currentThread(), so the insertion is made at once.
AddNested(t, d) ==
    /\ ppc = "call" /\ t \in Fresh
    /\ delay_tasks' = delay_tasks \cup {Timer(t, now + d)}
    /\ armed' = armed \cup {t}
    /\ UNCHANGED <<now, ppc, added, copy, calling, cur, timeout, entered, cancelled>>

Cancel(t) ==
    /\ t \in armed \ cancelled
    /\ cancelled' = cancelled \cup {t}
    /\ UNCHANGED <<now, ppc, added, delay_tasks, copy, calling, cur, timeout, entered, armed>>

-----------------------------------------------------------------------------
(* scheduleDelayTask *)

\* Nothing to wait for, or the timers are moved to the copy.
Schedule ==
    /\ ppc = "top"
    /\ cur' = now
    /\ IF delay_tasks = {}
       THEN ppc' = "enter" /\ timeout' = -1 /\ UNCHANGED <<delay_tasks, copy>>
       ELSE /\ ppc' = "run" /\ UNCHANGED timeout
            /\ copy' = delay_tasks /\ delay_tasks' = {}
    /\ UNCHANGED <<now, added, calling, entered, cancelled, armed>>

Due == {e \in Earliest(copy) : e.deadline <= cur}

\* The earliest timer is due: its callback is entered, or it was cancelled and is
\* dropped.
CallDue ==
    /\ ppc = "run"
    /\ \E e \in Due :
         /\ copy' = copy \ {e}
         /\ IF e.timer \in cancelled
            THEN armed' = armed \ {e.timer} /\ UNCHANGED <<ppc, calling>>
            ELSE calling' = {e} /\ ppc' = "call" /\ UNCHANGED armed
    /\ UNCHANGED <<now, added, delay_tasks, cur, timeout, entered, cancelled>>

\* Mutant: a callback that returns a delay is not put back.
ReturnOnce(r) ==
    /\ ppc = "call" /\ ppc' = "run"
    /\ calling' = {}
    /\ armed' = IF r > 0 THEN armed ELSE armed \ {e.timer : e \in calling}
    /\ UNCHANGED <<now, added, copy, cur, timeout, entered, cancelled, delay_tasks>>

\* Mutant: the next delay is counted from the deadline.
ReturnFromDeadline(r) ==
    /\ ppc = "call" /\ ppc' = "run"
    /\ calling' = {}
    /\ IF r > 0
       THEN /\ delay_tasks' = delay_tasks \cup {Timer(e.timer, e.deadline + r) : e \in calling}
            /\ UNCHANGED armed
       ELSE /\ armed' = armed \ {e.timer : e \in calling}
            /\ UNCHANGED delay_tasks
    /\ UNCHANGED <<now, added, copy, cur, timeout, entered, cancelled>>

\* The callback returns; a positive value is its next delay, counted from the
\* beginning of the pass.
Return(r) ==
    /\ ppc = "call" /\ ppc' = "run"
    /\ calling' = {}
    /\ IF r > 0
       THEN /\ delay_tasks' = delay_tasks \cup {Timer(e.timer, cur + r) : e \in calling}
            /\ UNCHANGED armed
       ELSE /\ armed' = armed \ {e.timer : e \in calling}
            /\ UNCHANGED delay_tasks
    /\ UNCHANGED <<now, added, copy, cur, timeout, entered, cancelled>>

\* The time until the first deadline, as the result of scheduleDelayTask (0 if
\* there is none) and as the time-out of epoll_wait: next > 0 ? next : -1.
Next0(S) == IF S = {} THEN 0 ELSE (CHOOSE e \in Earliest(S) : TRUE).deadline - cur
TimeoutFor(S) == AsInt(IF Next0(S) > 0 THEN Next0(S) ELSE -1)

\* Mutant: the timers that are not due yet do not count for the time-out.
MergeAfterTimeout ==
    /\ ppc = "run" /\ Due = {}
    /\ delay_tasks' = delay_tasks \cup copy /\ copy' = {}
    /\ timeout' = TimeoutFor(delay_tasks)
    /\ ppc' = "enter"
    /\ UNCHANGED <<now, added, calling, cur, entered, cancelled, armed>>

\* No timer of the copy is due any more: the rest goes back.
Merge ==
    /\ ppc = "run" /\ Due = {}
    /\ delay_tasks' = delay_tasks \cup copy /\ copy' = {}
    /\ timeout' = TimeoutFor(delay_tasks \cup copy)
    /\ ppc' = "enter"
    /\ UNCHANGED <<now, added, calling, cur, entered, cancelled, armed>>

-----------------------------------------------------------------------------
(* The rest of runLoop. *)

EnterWait ==
    /\ ppc = "enter"
    /\ ppc' = "asleep" /\ entered' = now
    /\ UNCHANGED <<now, added, delay_tasks, copy, calling, cur, timeout, cancelled, armed>>

\* epoll_wait times out; a negative time-out never does.
TimedOut ==
    /\ ppc = "asleep" /\ timeout >= 0 /\ now >= entered + timeout
    /\ ppc' = "top"
    /\ UNCHANGED <<now, added, delay_tasks, copy, calling, cur, timeout, entered, cancelled, armed>>

\* The pipe wakes the loop and the posted insertions are made; other events wake
\* it without any.
HandleEvents ==
    /\ ppc = "asleep"
    /\ delay_tasks' = delay_tasks \cup added /\ added' = {}
    /\ ppc' = "top"
    /\ UNCHANGED <<now, copy, calling, cur, timeout, entered, cancelled, armed>>

InPass == Schedule \/ CallDue \/ (\E r \in Periods : Return(r)) \/ Merge \/ EnterWait

Next ==
    \/ Tick
    \/ \E t \in Timers : \/ Cancel(t)
                         \/ \E d \in Delays : AddDelayTask(t, d)
                         \/ \E d \in NestedDelays : AddNested(t, d)
    \/ InPass \/ TimedOut \/ HandleEvents

\* The poller thread is run, and callbacks return.
Spec == Init /\ [][Next]_vars /\ WF_vars(InPass)

-----------------------------------------------------------------------------
TimerSet == [timer : Timers, deadline : Nat]

TypeOK ==
    /\ now \in Nat /\ cur \in Nat /\ entered \in Nat
    /\ cur <= now /\ entered <= now
    /\ ppc \in {"top", "run", "call", "enter", "asleep"}
    /\ added \subseteq TimerSet /\ delay_tasks \subseteq TimerSet
    /\ copy \subseteq TimerSet /\ calling \subseteq TimerSet
    /\ timeout \in (-IntSize)..IntSize
    /\ cancelled \subseteq Timers /\ armed \subseteq Timers

\* No timer is lost or doubled while timers move between the posted insertions,
\* the multimap, its copy and the callback that may put its own back
\* (EventPoller.cc:305-307, 367-383).
TimersKept ==
    /\ armed = {e.timer : e \in Known}
    /\ \A e, f \in Known : e.timer = f.timer => e = f
    /\ ppc # "asleep" \/ (copy = {} /\ calling = {})

\* While epoll_wait waits and there are timers, it has a time-out, no later than
\* the first deadline but for the time that passed between the pass and the call.
InTime == \A e \in delay_tasks : timeout >= 0 /\ cur + timeout <= e.deadline

\* So it is for every first deadline that is neither the time of the pass, which
\* gives the 0 that stands for no timer, nor further away than an int can say;
\* callbacks that run long, put themselves back or add timers do not disturb it
\* (EventPoller.cc:361-389, 44).
WakesInTime ==
    ppc = "asleep" /\ Next0(delay_tasks) \in 1..(IntSize \div 2 - 1) => InTime

\* Callbacks run in the order of their deadlines, over all the timers the poller
\* has, also those that callbacks of the same pass add or put back: both count
\* from the pass or later, so they cannot come before what is left of the copy
\* (EventPoller.cc:364-383).
DeadlineOrder ==
    \A e \in calling : \A f \in delay_tasks \cup copy : e.deadline <= f.deadline
=============================================================================
