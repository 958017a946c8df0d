--------------------------- MODULE PeriodicTimer ---------------------------
(***************************************************************************)
(* avc::util::Timer (timer/Timer.cc) on top of the delay tasks of its      *)
(* poller: start adds a job whose callback locks the Timer and returns the *)
(* period, stop cancels the job, the destructor stops.  Jobs of other      *)
(* users of the poller go on as DelayTask.tla says.                        *)
(*                                                                         *)
(* start and stop are called by the thread that owns the Timer and by      *)
(* on_timer_ on the poller thread.  delay_task_ has no lock: each of its   *)
(* tests, uses and assignments is a step, and the other side may fall      *)
(* between any two.  A test that meets an assignment finds the old or the  *)
(* new pointer; two sides that both go on with the member may also end the *)
(* process.                                                                *)
(***************************************************************************)
EXTENDS DelayTask

CONSTANTS Objects,      \* Timer objects
          None

ASSUME ObjectAssumption == None \notin Objects \cup Timers

VARIABLES
    held,               \* Timers their owners hold a shared_ptr to
    locked,             \* timer in the callback: the Timer it has locked
    phase,              \* where the callback of a Timer is
    task,               \* delay_task_ of each Timer
    use,                \* where the owner and on_timer_ are in start or stop of a Timer
    made,               \* the job that addDelayTask has returned to such a start
    maker,              \* the Timer whose start added the job, for each job
    period,             \* milliseconds in its callback
    fired,              \* history: the pass in which on_timer_ was last called, its period
    quiet,              \* history: Timers that were stopped, or destroyed, and not started since
    clashed,            \* history: Timers that both sides went on with at once
    crashed             \* the process has ended

uses == <<task, use, made, quiet, clashed, crashed>>
calls == <<held, locked, phase, fired>>
timerVars == <<calls, uses, maker, period>>
allVars == <<vars, timerVars>>

Sides == {"owner", "poller"}
Other(s) == CHOOSE r \in Sides : r # s

TInit ==
    /\ Init
    /\ held = Objects /\ locked = None /\ phase = "none"
    /\ task = [o \in Objects |-> None]
    /\ use = [s \in Sides |-> [o \in Objects |-> "idle"]]
    /\ made = [s \in Sides |-> [o \in Objects |-> None]]
    /\ maker = [t \in Timers |-> None] /\ period = [t \in Timers |-> 0]
    /\ fired = [o \in Objects |-> [at |-> -1, period |-> 0]]
    /\ quiet = Objects /\ clashed = {} /\ crashed = FALSE

Alive(o) == o \in held \/ o = locked

-----------------------------------------------------------------------------
(* start and stop *)

CanUse(s, o) == IF s = "owner" THEN o \in held ELSE phase = "body" /\ o = locked
Busy(s, o) == use[s][o] # "idle"

\* What delay_task_ may be for s: the value, or the one that the other side is writing.
Seen(s, o) ==
    {task[o]} \cup (CASE use[Other(s)][o] = "assign" -> {made[Other(s)][o]}
                      [] use[Other(s)][o] = "null" -> {None}
                      [] OTHER -> {})

\* The test has told s to go on.
GoOn(s, o, step) ==
    /\ CanUse(s, o) /\ ~Busy(s, o)
    /\ use' = [use EXCEPT ![s][o] = step]
    /\ clashed' = IF Busy(Other(s), o) THEN clashed \cup {o} ELSE clashed

\* A job that no Timer refers to any more.
Unused == Fresh \ UNION {{task[o]} \cup {made[s][o] : s \in Sides} : o \in Objects}

\* Mutant: a Timer is started that has a job.
StartUntested(s, o) ==
    /\ GoOn(s, o, "post") /\ quiet' = quiet \ {o}
    /\ \E t \in Unused : made' = [made EXCEPT ![s][o] = t]
    /\ UNCHANGED <<vars, calls, task, maker, period, crashed>>

\* start goes on only if there is no delay_task_.  The bound on jobs is here: one of
\* those that are left is set aside for addDelayTask to make.
StartTest(s, o) ==
    /\ None \in Seen(s, o) /\ GoOn(s, o, "post") /\ quiet' = quiet \ {o}
    /\ \E t \in Unused : made' = [made EXCEPT ![s][o] = t]
    /\ UNCHANGED <<vars, calls, task, maker, period, crashed>>

\* addDelayTask posts the job of an owner, and adds that of a callback at once.
StartPost(s, o, d) ==
    /\ use[s][o] = "post" /\ use' = [use EXCEPT ![s][o] = "assign"]
    /\ LET t == made[s][o] IN
         /\ IF s = "owner" THEN AddDelayTask(t, d) ELSE AddNested(t, d)
         /\ maker' = [maker EXCEPT ![t] = o] /\ period' = [period EXCEPT ![t] = d]
    /\ UNCHANGED <<calls, task, made, quiet, clashed, crashed>>

StartAssign(s, o) ==
    /\ use[s][o] = "assign" /\ use' = [use EXCEPT ![s][o] = "idle"]
    /\ task' = [task EXCEPT ![o] = made[s][o]]
    /\ made' = [made EXCEPT ![s][o] = None]
    /\ UNCHANGED <<vars, calls, maker, period, quiet, clashed, crashed>>

\* Mutant: stop does not look whether there is a job.
StopUntested(s, o) ==
    /\ GoOn(s, o, "cancel") /\ UNCHANGED quiet
    /\ UNCHANGED <<vars, calls, task, made, maker, period, crashed>>

\* stop goes on if there is a delay_task_; one that finds none while the other side is
\* not about to make one leaves the Timer stopped as well.
StopTest(s, o) ==
    /\ \/ Seen(s, o) # {None} /\ GoOn(s, o, "cancel") /\ UNCHANGED quiet
       \/ /\ CanUse(s, o) /\ ~Busy(s, o) /\ task[o] = None /\ ~Busy(Other(s), o)
          /\ quiet' = quiet \cup {o} /\ UNCHANGED <<use, clashed>>
    /\ UNCHANGED <<vars, calls, task, made, maker, period, crashed>>

\* cancel of a job; one that is over is not disturbed.
CancelJob(t) == IF t \in armed \ cancelled THEN Cancel(t) ELSE UNCHANGED vars

\* Mutant: stop forgets the job and does not cancel it.
StopForgets(s, o) ==
    /\ use[s][o] = "cancel" /\ use' = [use EXCEPT ![s][o] = "null"]
    /\ UNCHANGED <<vars, calls, task, made, maker, period, quiet, clashed, crashed>>

\* The pointer is read again: cancel is called on a job, or on nothing.
StopCancel(s, o) ==
    /\ use[s][o] = "cancel"
    /\ \E t \in Seen(s, o) :
          IF t = None THEN crashed' = TRUE /\ UNCHANGED <<vars, use>>
          ELSE /\ CancelJob(t) /\ use' = [use EXCEPT ![s][o] = "null"]
               /\ UNCHANGED crashed
    /\ UNCHANGED <<calls, task, made, maker, period, quiet, clashed>>

StopNull(s, o) ==
    /\ use[s][o] = "null" /\ use' = [use EXCEPT ![s][o] = "idle"]
    /\ task' = [task EXCEPT ![o] = None]
    /\ quiet' = quiet \cup {o}
    /\ UNCHANGED <<vars, calls, made, maker, period, clashed, crashed>>

\* Two sides write the same shared_ptr, or one writes it while the other uses it.
Torn(o) ==
    /\ \E s \in Sides : /\ use[s][o] \in {"assign", "null"}
                        /\ use[Other(s)][o] \in {"assign", "cancel", "null"}
    /\ crashed' = TRUE
    /\ UNCHANGED <<vars, calls, task, use, made, maker, period, quiet, clashed>>

\* The destructor stops.  Nobody else can reach the Timer, so that it is one step.
Destroy(o) ==
    /\ task' = [task EXCEPT ![o] = None] /\ quiet' = quiet \cup {o}
    /\ IF task[o] = None THEN UNCHANGED vars ELSE CancelJob(task[o])

\* The owner drops its reference, between two calls; it is the last one unless the
\* callback has locked the Timer.
Drop(o) ==
    /\ o \in held /\ ~Busy("owner", o) /\ held' = held \ {o}
    /\ IF o = locked THEN UNCHANGED <<vars, task, quiet>> ELSE Destroy(o)
    /\ UNCHANGED <<locked, phase, use, made, maker, period, fired, clashed, crashed>>

-----------------------------------------------------------------------------
(* The callback of a Timer's job. *)

Job == CHOOSE e \in calling : TRUE

Enter ==
    /\ CallDue
    /\ phase' = IF calling' # {} /\ maker[(CHOOSE e \in calling' : TRUE).timer] # None
                THEN "lock" ELSE "none"
    /\ UNCHANGED <<held, locked, uses, maker, period, fired>>

\* The weak_ptr is locked, and onTime calls on_timer_; or the Timer is gone and the
\* job ends.
Lock ==
    /\ phase = "lock"
    /\ LET t == Job.timer o == maker[t] IN
       IF Alive(o)
       THEN /\ locked' = o /\ phase' = "body"
            /\ fired' = [fired EXCEPT ![o] = [at |-> cur, period |-> period[t]]]
            /\ UNCHANGED vars
       ELSE /\ phase' = "none" /\ Return(0)
            /\ UNCHANGED <<locked, fired>>
    /\ UNCHANGED <<held, uses, maker, period>>

\* on_timer_ returns or throws.  The reference goes before the callback returns the
\* period, and may be the last: then the destructor stops on the poller thread.
BodyEnds ==
    /\ ~crashed /\ phase = "body" /\ phase' = "return" /\ locked' = None /\ ~Busy("poller", locked)
    /\ IF locked \in held THEN UNCHANGED <<vars, task, quiet>> ELSE Destroy(locked)
    /\ UNCHANGED <<held, use, made, maker, period, fired, clashed, crashed>>

OnTimeReturns ==
    /\ phase = "return" /\ phase' = "none"
    /\ Return(period[Job.timer])
    /\ UNCHANGED <<held, locked, uses, maker, period, fired>>

-----------------------------------------------------------------------------
\* Jobs of other users of the poller.
OtherJobs ==
    /\ \/ \E t \in Unused : /\ maker[t] = None
                            /\ \/ \E d \in Delays : AddDelayTask(t, d)
                               \/ \E d \in NestedDelays : phase = "none" /\ AddNested(t, d)
       \/ \E t \in Timers : maker[t] = None /\ Cancel(t)
       \/ phase = "none" /\ \E r \in Periods : Return(r)
    /\ UNCHANGED timerVars

\* What DelayTask does by itself.
Loop == /\ Tick \/ Schedule \/ Merge \/ EnterWait \/ TimedOut \/ HandleEvents
        /\ UNCHANGED timerVars

\* A start or stop goes on after its test.
Starting(s, o) ==
    \E d \in (IF s = "owner" THEN Delays ELSE NestedDelays) : StartPost(s, o, d)
GoesOn(s, o) == Starting(s, o) \/ StartAssign(s, o) \/ StopCancel(s, o) \/ StopNull(s, o)

Callback == Enter \/ Lock \/ BodyEnds \/ OnTimeReturns \/ \E o \in Objects : GoesOn("poller", o)

Running ==
    \/ Loop \/ OtherJobs \/ Callback
    \/ \E o \in Objects : \/ GoesOn("owner", o) \/ Drop(o) \/ Torn(o)
                          \/ \E s \in Sides : StartTest(s, o) \/ StopTest(s, o)

Ended == crashed /\ UNCHANGED allVars

TNext == (~crashed /\ Running) \/ Ended

\* The poller thread is run.
Pass == ~crashed /\
    \/ Callback
    \/ (Schedule \/ Merge \/ EnterWait \/ (phase = "none" /\ \E r \in Periods : Return(r)))
       /\ UNCHANGED timerVars

\* An on_timer_ that calls start and stop again and again returns all the same.
TSpec == TInit /\ [][TNext]_allVars /\ WF_allVars(Pass) /\ SF_allVars(BodyEnds)
-----------------------------------------------------------------------------
\* Jobs that will call their Timer.
Live(o) == {t \in armed \ cancelled : maker[t] = o}

\* A Timer has one job at most that will call it again, and a stop can reach it as
\* soon as no start is on its way, wherever calls, late calls and destructions on
\* either thread fall between the steps of start and stop.  That needs the two sides
\* not to go on with delay_task_ at once: a stop that finds no job yet because the
\* start that makes it has not assigned it is no such clash (Timer.cc:8-32).
OneLiveJob ==
    \A o \in Objects \ clashed : \A t \in Live(o) :
        /\ Live(o) = {t} /\ Alive(o)
        /\ task[o] = t \/ \E s \in Sides : use[s][o] = "assign" /\ made[s][o] = t

\* After a stop, or a destruction, no job will call the Timer before it is started
\* again, but for the one whose callback had begun: unless the sides have clashed,
\* or the stop fell into a start and found nothing to cancel (Timer.cc:12-32).
StopHolds == \A o \in quiet \ clashed : Live(o) = {}

\* stop never calls cancel on nothing, and no two threads write delay_task_ at once,
\* as long as the sides of a Timer have not clashed (Timer.cc:13-16, 28-30).
NoCrash == crashed => clashed # {}

\* Calls of on_timer_ are a period apart at least, counted in the time of the passes,
\* over restarts and late calls of a job that was stopped meanwhile: a late pass is
\* not made up for.  After a clash two jobs may call one Timer (Timer.cc:16-23,
\* EventPoller.cc:361, 374-378).
PeriodApart ==
    [][\A o \in Objects \ clashed : locked # o /\ locked' = o /\ fired[o].at >= 0
          => fired'[o].at - fired[o].at >= fired'[o].period]_allVars

\* A pass over the timers ends and the loop gets to its descriptors, whatever
\* delays the callbacks ask for, because new timers are kept out of the copy; only
\* the end of the process stops it (EventPoller.cc:367-383).
PassEnds == ppc = "run" ~> (ppc = "asleep" \/ crashed)
=============================================================================
