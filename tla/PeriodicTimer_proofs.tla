------------------------ MODULE PeriodicTimer_proofs ------------------------
(***************************************************************************)
(* Theorems about the timers of a poller (DelayTask.tla) and the Timer     *)
(* objects on top of them (PeriodicTimer.tla), for every set of timers,    *)
(* delays and periods and every even size of an int.                       *)
(*                                                                         *)
(* What DelayTask.tla promises is proved of its actions with callbacks     *)
(* that may return any delay; the actions of PeriodicTimer.tla are such    *)
(* steps, so Timer objects keep the promises.                              *)
(***************************************************************************)
EXTENDS PeriodicTimer, WellFoundedInduction, TLAPS

\* A step of the poller's timers, whatever delay a callback asks for.
Turn == Next \/ \E r \in Nat : Return(r)
DelaySafety == Init /\ [][Turn]_vars

-----------------------------------------------------------------------------
(* The inductive invariant of DelayTask. *)

\* The copy and the callback belong to a pass; what is added or put back during a
\* pass is not due before it, the timer that is called is.
Passing ==
    /\ ppc \notin {"run", "call"} => copy = {}
    /\ ppc # "call" => calling = {}
    /\ ppc = "call" => \E e \in calling : calling = {e} /\ e.deadline <= cur
    /\ ppc \in {"run", "call"} => \A f \in delay_tasks : cur <= f.deadline

\* A timer is in one place.
OnePlace ==
    /\ added \cap (delay_tasks \cup copy \cup calling) = {}
    /\ delay_tasks \cap (copy \cup calling) = {}
    /\ copy \cap calling = {}

\* The time-out was computed for the timers that are there.
Waiting == ppc \in {"enter", "asleep"} /\ delay_tasks # {} => timeout = TimeoutFor(delay_tasks)

DelayInv == TypeOK /\ Passing /\ OnePlace /\ TimersKept /\ DeadlineOrder /\ Waiting

-----------------------------------------------------------------------------
(* The inductive invariant of the Timer objects. *)

TType ==
    /\ held \subseteq Objects /\ locked \in Objects \cup {None}
    /\ phase \in {"none", "lock", "body", "return"}
    /\ task \in [Objects -> Timers \cup {None}]
    /\ use \in [Sides -> [Objects -> {"idle", "post", "assign", "cancel", "null"}]]
    /\ made \in [Sides -> [Objects -> Timers \cup {None}]]
    /\ maker \in [Timers -> Objects \cup {None}] /\ period \in [Timers -> Nat]
    /\ fired \in [Objects -> [at : Int, period : Nat]]
    /\ quiet \subseteq Objects /\ clashed \subseteq Objects /\ crashed \in BOOLEAN

\* The callback of a Timer's job has phases, that of another job has none; the Timer
\* is locked while its on_timer_ runs.
Phases ==
    /\ phase # "none" => ppc = "call"
    /\ \A e \in calling : phase = "none" <=> maker[e.timer] = None
    /\ \A e \in calling : phase = "body" => locked = maker[e.timer]
    /\ phase # "body" => locked = None

\* Who is in start or stop of a Timer keeps it alive.
InHand == \A o \in Objects : /\ Busy("owner", o) => o \in held
                             /\ Busy("poller", o) => phase = "body" /\ locked = o

\* Of a Timer that one side uses at a time: where that side is in start or stop says
\* which job may be live.
Orderly(o) ==
    /\ ~Busy("owner", o) \/ ~Busy("poller", o)
    /\ \A s \in Sides :
         /\ use[s][o] \in {"post", "null"} => Live(o) = {}
         /\ use[s][o] = "assign" => Live(o) \subseteq {made[s][o]}
         /\ use[s][o] = "cancel" => task[o] # None
         /\ use[s][o] = "post" => o \notin quiet
    /\ (\A s \in Sides : use[s][o] \in {"idle", "cancel"}) => Live(o) \subseteq {task[o]}
    /\ o \in quiet => Live(o) = {}
    /\ Live(o) # {} => Alive(o)

Uses == InHand /\ (\A o \in Objects \ clashed : Orderly(o)) /\ NoCrash

\* A job that may still call its Timer: one that waits and was not cancelled, or the
\* one whose callback has not locked the Timer yet.
MayFire(e) == /\ maker[e.timer] # None /\ maker[e.timer] \notin clashed
              /\ IF e \in calling THEN phase = "lock" ELSE e.timer \notin cancelled

\* Such a job is due a period after the last call at the earliest; one that was
\* added while an old job is about to call its Timer, a period after that call.
Rhythm ==
    /\ \A o \in Objects : fired[o].at <= cur
    /\ \A e \in Known : MayFire(e) =>
         fired[maker[e.timer]].at + period[e.timer] <= e.deadline
    /\ \A c \in calling, e \in Known \ calling :
         /\ phase = "lock" /\ MayFire(e) /\ maker[e.timer] = maker[c.timer]
         => cur + period[e.timer] <= e.deadline

TimerInv == TType /\ Phases /\ Uses /\ Rhythm

-----------------------------------------------------------------------------
(* The first deadline, and numbers as an int. *)

\* A set of numbers that is not empty has a least one.
LEMMA LeastNat ==
    ASSUME NEW T \in SUBSET Nat, T # {}
    PROVE  \E x \in T : \A y \in T : x <= y
<1>1. PICK x \in T : \A y \in T : ~(<<y, x>> \in OpToRel(<, Nat))
  BY NatLessThanWellFounded, WFMin
<1>2. \A y \in T : ~(y < x)
  BY <1>1 DEF OpToRel
<1> QED  BY <1>2

\* The first timer that the map gives exists, and is among the earliest.
LEMMA FirstTimer ==
    ASSUME NEW S \in SUBSET TimerSet, S # {}
    PROVE  (CHOOSE e \in Earliest(S) : TRUE) \in Earliest(S)
<1> DEFINE D == {e.deadline : e \in S}
<1>1. D \in SUBSET Nat /\ D # {}
  BY DEF TimerSet
<1>2. PICK x \in D : \A y \in D : x <= y
  BY <1>1, LeastNat
<1>3. PICK e \in S : e.deadline = x
  BY <1>2
<1>4. e \in Earliest(S)
  BY <1>2, <1>3 DEF Earliest
<1> QED  BY <1>4

\* What a conversion to int gives.
LEMMA AsIntRange ==
    ASSUME NEW n \in Int PROVE AsInt(n) \in (-IntSize)..IntSize
<1>1. n % IntSize \in 0..(IntSize - 1)
  BY BoundAssumption
<1> QED  BY <1>1, BoundAssumption DEF AsInt

\* A number that an int can say is said as it is.
LEMMA AsIntKeeps ==
    ASSUME NEW n \in Nat, n < IntSize \div 2 PROVE AsInt(n) = n
<1>1. IntSize \in Nat /\ IntSize \div 2 < IntSize
  BY BoundAssumption
<1>2. n % IntSize = n
  BY <1>1
<1> QED  BY <1>1, <1>2 DEF AsInt
\* The time-out is an int, for every set of timers.
LEMMA TimeoutRange ==
    ASSUME TypeOK, NEW S \in SUBSET TimerSet
    PROVE  TimeoutFor(S) \in (-IntSize)..IntSize
<1>1. Next0(S) \in Int
  <2>1. CASE S = {}
    BY <2>1 DEF Next0
  <2>2. CASE S # {}
    <3>1. (CHOOSE e \in Earliest(S) : TRUE) \in TimerSet
      BY <2>2, FirstTimer DEF Earliest
    <3>2. (CHOOSE e \in Earliest(S) : TRUE).deadline \in Nat
      BY <3>1 DEF TimerSet
    <3> QED  BY <2>2, <3>2 DEF Next0, TypeOK
  <2> QED  BY <2>1, <2>2
<1>2. (IF Next0(S) > 0 THEN Next0(S) ELSE -1) \in Int
  BY <1>1
<1> QED  BY <1>2, AsIntRange DEF TimeoutFor

-----------------------------------------------------------------------------
(* The poller's timers: one step per action. *)

\* What the actions do to the time and the program counter.
LEMMA DelayTypes == TypeOK /\ Passing /\ [Turn]_vars => TypeOK'
<1> SUFFICES ASSUME TypeOK, Passing, [Turn]_vars PROVE TypeOK'
  OBVIOUS
<1>s. \A t \in Timers, n \in Nat : Timer(t, n) \in TimerSet
  BY DEF Timer, TimerSet
<1>t. \A e \in TimerSet : e.timer \in Timers
  BY DEF TimerSet
<1>1. CASE Tick
  BY <1>1 DEF Tick, TypeOK
<1>2. ASSUME NEW t \in Timers, Cancel(t) PROVE TypeOK'
  BY <1>2 DEF Cancel, TypeOK
<1>3. ASSUME NEW t \in Timers, NEW d \in Delays, AddDelayTask(t, d) PROVE TypeOK'
  <2>1. Timer(t, now + d) \in TimerSet
    BY <1>s, DelaysAssumption DEF TypeOK
  <2> QED  BY <1>3, <2>1 DEF AddDelayTask, TypeOK
<1>4. ASSUME NEW t \in Timers, NEW d \in NestedDelays, AddNested(t, d) PROVE TypeOK'
  <2>1. Timer(t, now + d) \in TimerSet
    BY <1>s, DelaysAssumption DEF TypeOK
  <2> QED  BY <1>4, <2>1 DEF AddNested, TypeOK
<1>5. CASE Schedule
  <2>1. timeout' \in (-IntSize)..IntSize
    BY <1>5, BoundAssumption DEF Schedule, TypeOK
  <2> QED  BY <1>5, <2>1 DEF Schedule, TypeOK
<1>6. CASE CallDue
  BY <1>6 DEF CallDue, Due, Earliest, TypeOK
<1>7. ASSUME NEW r \in Nat, Return(r) PROVE TypeOK'
  <2>1. PICK e \in calling : calling = {e}
    BY <1>7 DEF Return, Passing
  <2>2. Timer(e.timer, cur + r) \in TimerSet
    BY <1>s, <1>t, <2>1 DEF TypeOK
  <2>3. delay_tasks' \subseteq TimerSet
    BY <1>7, <2>1, <2>2 DEF Return, TypeOK
  <2> QED  BY <1>7, <2>3 DEF Return, TypeOK
<1>8. CASE Merge
  <2>1. timeout' \in (-IntSize)..IntSize
    BY <1>8, TimeoutRange DEF Merge, TypeOK
  <2> QED  BY <1>8, <2>1 DEF Merge, TypeOK
<1>9. CASE EnterWait
  BY <1>9 DEF EnterWait, TypeOK
<1>10. CASE TimedOut
  BY <1>10 DEF TimedOut, TypeOK
<1>11. CASE HandleEvents
  BY <1>11 DEF HandleEvents, TypeOK
<1>12. CASE UNCHANGED vars
  BY <1>12 DEF vars, TypeOK
<1> QED
  BY <1>1, <1>2, <1>3, <1>4, <1>5, <1>6, <1>7, <1>8, <1>9, <1>10, <1>11, <1>12,
     DelaysAssumption DEF Turn, Next, InPass

\* Each step keeps what is known of a pass.
LEMMA DelayPasses ==
    TypeOK /\ Passing /\ OnePlace /\ TimersKept /\ [Turn]_vars => Passing' /\ OnePlace'
<1> SUFFICES ASSUME TypeOK, Passing, OnePlace, TimersKept, [Turn]_vars
             PROVE  Passing' /\ OnePlace'
  OBVIOUS
<1>f. \A t \in Timers, n \in Nat : t \in Fresh => Timer(t, n) \notin Known
  BY DEF Timer, Fresh
<1>d. \A t \in Timers, n \in Nat : Timer(t, n).deadline = n
  BY DEF Timer
<1>1. CASE Tick
  BY <1>1 DEF Tick, Passing, OnePlace
<1>2. ASSUME NEW t \in Timers, Cancel(t) PROVE Passing' /\ OnePlace'
  BY <1>2 DEF Cancel, Passing, OnePlace
<1>3. ASSUME NEW t \in Timers, NEW d \in Delays, AddDelayTask(t, d) PROVE Passing' /\ OnePlace'
  <2>1. Timer(t, now + d) \notin Known
    BY <1>3, <1>f, DelaysAssumption DEF TypeOK, AddDelayTask
  <2>2. Passing'
    BY <1>3 DEF AddDelayTask, Passing
  <2> QED  BY <1>3, <2>1, <2>2 DEF AddDelayTask, OnePlace, Known
<1>4. ASSUME NEW t \in Timers, NEW d \in NestedDelays, AddNested(t, d) PROVE Passing' /\ OnePlace'
  <2>1. Timer(t, now + d) \notin Known /\ cur <= Timer(t, now + d).deadline
    BY <1>4, <1>f, <1>d, DelaysAssumption DEF TypeOK, AddNested
  <2>2. Passing'
    BY <1>4, <2>1 DEF AddNested, Passing
  <2> QED  BY <1>4, <2>1, <2>2 DEF AddNested, OnePlace, Known
<1>5. CASE Schedule
  BY <1>5 DEF Schedule, Passing, OnePlace
<1>6. CASE CallDue
  <2>1. PICK e \in Due : /\ copy' = copy \ {e}
                              /\ \/ calling' = calling /\ ppc' = ppc
                                 \/ calling' = {e} /\ ppc' = "call"
    BY <1>6 DEF CallDue
  <2>2. e \in copy /\ e.deadline <= cur
    BY DEF Due, Earliest
  <2>3. Passing'
    BY <1>6, <2>1, <2>2 DEF CallDue, Passing
  <2> QED  BY <1>6, <2>1, <2>2, <2>3 DEF CallDue, OnePlace, Passing
<1>7. ASSUME NEW r \in Nat, Return(r) PROVE Passing' /\ OnePlace'
  <2>1. PICK e \in calling : calling = {e}
    BY <1>7 DEF Return, Passing
  <2>2. Timer(e.timer, cur + r).deadline = cur + r /\ Timer(e.timer, cur + r).timer = e.timer
    BY DEF Timer
  <2>3. Passing'
    BY <1>7, <2>1, <2>2 DEF Return, Passing, TypeOK
  <2>4. delay_tasks' = delay_tasks \/ delay_tasks' = delay_tasks \cup {Timer(e.timer, cur + r)}
    BY <1>7, <2>1 DEF Return
  <2>5. Timer(e.timer, cur + r) \notin added \cup delay_tasks \cup copy
    BY <2>1, <2>2 DEF TimersKept, Known, OnePlace
  <2> QED  BY <1>7, <2>1, <2>3, <2>4, <2>5 DEF Return, OnePlace
<1>8. CASE Merge
  BY <1>8 DEF Merge, Passing, OnePlace
<1>9. CASE EnterWait
  BY <1>9 DEF EnterWait, Passing, OnePlace
<1>10. CASE TimedOut
  BY <1>10 DEF TimedOut, Passing, OnePlace
<1>11. CASE HandleEvents
  BY <1>11 DEF HandleEvents, Passing, OnePlace
<1>12. CASE UNCHANGED vars
  BY <1>12 DEF vars, Passing, OnePlace
<1> QED
  BY <1>1, <1>2, <1>3, <1>4, <1>5, <1>6, <1>7, <1>8, <1>9, <1>10, <1>11, <1>12,
     DelaysAssumption DEF Turn, Next, InPass
\* TimersKept, of the timers K that are somewhere and those of the history.
Kept(K, a) == a = {e.timer : e \in K} /\ \A e, f \in K : e.timer = f.timer => e = f

\* Adding or taking a timer on both sides keeps the two sides together.
LEMMA KeptTogether ==
    ASSUME NEW K, NEW a, Kept(K, a), NEW x
    PROVE  /\ x.timer \notin a => Kept(K \cup {x}, a \cup {x.timer})
           /\ \A e \in K : Kept(K \ {e}, a \ {e.timer})
           /\ \A e \in K : x.timer = e.timer => Kept((K \ {e}) \cup {x}, a)
<1>1. x.timer \notin a => Kept(K \cup {x}, a \cup {x.timer})
  BY DEF Kept
<1>2. ASSUME NEW e \in K PROVE Kept(K \ {e}, a \ {e.timer})
  BY DEF Kept
<1>3. ASSUME NEW e \in K, x.timer = e.timer PROVE Kept((K \ {e}) \cup {x}, a)
  BY <1>3 DEF Kept
<1> QED  BY <1>1, <1>2, <1>3

\* Each step keeps every timer that was not cancelled.
LEMMA DelayKeeps ==
    TypeOK /\ Passing /\ OnePlace /\ TimersKept /\ [Turn]_vars => TimersKept'
<1> SUFFICES ASSUME TypeOK, Passing, OnePlace, TimersKept, [Turn]_vars
             PROVE  TimersKept'
  OBVIOUS
<1>k. Kept(Known, armed)
  BY DEF TimersKept, Kept
<1>p. ASSUME Kept(Known', armed') PROVE TimersKept'
  <2>1. Passing'
    BY DelayPasses
  <2> QED  BY <1>p, <2>1 DEF Kept, TimersKept, Passing
<1>t. \A t \in Timers, n \in Nat : Timer(t, n).timer = t
  BY DEF Timer
<1>1. ASSUME Known' = Known, armed' = armed PROVE TimersKept'
  BY <1>1, <1>k, <1>p
<1>2. ASSUME NEW t \in Timers, NEW n \in Nat, t \in Fresh,
             Known' = Known \cup {Timer(t, n)}, armed' = armed \cup {t}
      PROVE  TimersKept'
  <2>1. t \notin armed
    BY <1>2, <1>k DEF Fresh, Kept
  <2> QED  BY <1>2, <1>k, <1>p, <1>t, <2>1, KeptTogether
<1>3. CASE Tick
  BY <1>3, <1>1 DEF Tick, Known
<1>4. ASSUME NEW t \in Timers, Cancel(t) PROVE TimersKept'
  BY <1>4, <1>1 DEF Cancel, Known
<1>5. ASSUME NEW t \in Timers, NEW d \in Delays, AddDelayTask(t, d) PROVE TimersKept'
  <2>1. Known' = Known \cup {Timer(t, now + d)} /\ now + d \in Nat
    BY <1>5, DelaysAssumption DEF AddDelayTask, Known, TypeOK
  <2> QED  BY <1>2, <1>5, <2>1 DEF AddDelayTask
<1>6. ASSUME NEW t \in Timers, NEW d \in NestedDelays, AddNested(t, d) PROVE TimersKept'
  <2>1. Known' = Known \cup {Timer(t, now + d)} /\ now + d \in Nat
    BY <1>6, DelaysAssumption DEF AddNested, Known, TypeOK
  <2> QED  BY <1>2, <1>6, <2>1 DEF AddNested
<1>7. CASE Schedule
  <2>1. Known' = Known
    BY <1>7 DEF Schedule, Known, Passing
  <2> QED  BY <1>1, <1>7, <2>1 DEF Schedule
<1>8. CASE CallDue
  <2>1. PICK e \in Due : /\ copy' = copy \ {e}
                         /\ \/ calling' = calling /\ armed' = armed \ {e.timer}
                            \/ calling' = {e} /\ armed' = armed
    BY <1>8 DEF CallDue
  <2>2. e \in copy /\ calling = {}
    BY <1>8 DEF Due, Earliest, CallDue, Passing
  <2>3. CASE calling' = calling /\ armed' = armed \ {e.timer}
    <3>1. Known' = Known \ {e}
      BY <1>8, <2>1, <2>2, <2>3 DEF CallDue, Known, OnePlace
    <3>2. e \in Known
      BY <2>2 DEF Known
    <3> QED  BY <1>k, <1>p, <2>3, <3>1, <3>2, KeptTogether
  <2>4. CASE calling' = {e} /\ armed' = armed
    <3>1. Known' = Known
      BY <1>8, <2>1, <2>2, <2>4 DEF CallDue, Known
    <3> QED  BY <1>1, <2>4, <3>1
  <2> QED  BY <2>1, <2>3, <2>4
<1>9. ASSUME NEW r \in Nat, Return(r) PROVE TimersKept'
  <2>1. PICK e \in calling : calling = {e}
    BY <1>9 DEF Return, Passing
  <2>2. e \in Known /\ Timer(e.timer, cur + r).timer = e.timer
    BY DEF Known, Timer
  <2>3. CASE delay_tasks' = delay_tasks \cup {Timer(e.timer, cur + r)} /\ armed' = armed
    <3>1. Known' = (Known \ {e}) \cup {Timer(e.timer, cur + r)}
      BY <1>9, <2>1, <2>3 DEF Return, Known, OnePlace
    <3> QED  BY <1>k, <1>p, <2>2, <2>3, <3>1, KeptTogether
  <2>4. CASE delay_tasks' = delay_tasks /\ armed' = armed \ {e.timer}
    <3>1. Known' = Known \ {e}
      BY <1>9, <2>1, <2>4 DEF Return, Known, OnePlace
    <3> QED  BY <1>k, <1>p, <2>2, <2>4, <3>1, KeptTogether
  <2> QED  BY <1>9, <2>1, <2>3, <2>4 DEF Return
<1>10. CASE Merge
  <2>1. Known' = Known
    BY <1>10 DEF Merge, Known
  <2> QED  BY <1>1, <1>10, <2>1 DEF Merge
<1>11. CASE EnterWait
  BY <1>11, <1>1 DEF EnterWait, Known
<1>12. CASE TimedOut
  BY <1>12, <1>1 DEF TimedOut, Known
<1>13. CASE HandleEvents
  <2>1. Known' = Known
    BY <1>13 DEF HandleEvents, Known
  <2> QED  BY <1>1, <1>13, <2>1 DEF HandleEvents
<1>14. CASE UNCHANGED vars
  BY <1>14, <1>1 DEF vars, Known
<1> QED
  BY <1>3, <1>4, <1>5, <1>6, <1>7, <1>8, <1>9, <1>10, <1>11, <1>12, <1>13, <1>14,
     DelaysAssumption DEF Turn, Next, InPass

\* Each step keeps the order of the deadlines.
LEMMA DelayOrders ==
    TypeOK /\ Passing /\ DeadlineOrder /\ Waiting /\ [Turn]_vars => DeadlineOrder' /\ Waiting'
<1> SUFFICES ASSUME TypeOK, Passing, DeadlineOrder, Waiting, [Turn]_vars
             PROVE  DeadlineOrder' /\ Waiting'
  OBVIOUS
<1>1. ASSUME calling' \subseteq calling, (delay_tasks \cup copy)' \subseteq delay_tasks \cup copy
      PROVE  DeadlineOrder'
  BY <1>1 DEF DeadlineOrder
<1>2. ASSUME calling' = {} PROVE DeadlineOrder'
  BY <1>2 DEF DeadlineOrder
<1>3. ASSUME ppc' \notin {"enter", "asleep"} PROVE Waiting'
  BY <1>3 DEF Waiting
<1>4. ASSUME ppc \in {"enter", "asleep"}, UNCHANGED <<delay_tasks, cur, timeout>> PROVE Waiting'
  BY <1>4 DEF Waiting, TimeoutFor, Next0, Earliest
<1>5. CASE UNCHANGED <<ppc, delay_tasks, copy, calling, cur, timeout>>
  BY <1>1, <1>3, <1>4, <1>5
<1>6. CASE Tick
  BY <1>5, <1>6 DEF Tick
<1>7. ASSUME NEW t \in Timers, Cancel(t) PROVE DeadlineOrder' /\ Waiting'
  BY <1>5, <1>7 DEF Cancel
<1>8. ASSUME NEW t \in Timers, NEW d \in Delays, AddDelayTask(t, d)
      PROVE  DeadlineOrder' /\ Waiting'
  BY <1>5, <1>8 DEF AddDelayTask
<1>9. ASSUME NEW t \in Timers, NEW d \in NestedDelays, AddNested(t, d)
      PROVE  DeadlineOrder' /\ Waiting'
  <2>1. Timer(t, now + d).deadline = now + d /\ cur <= now + d
    BY DelaysAssumption DEF Timer, TypeOK
  <2>2. PICK e \in calling : calling = {e} /\ e.deadline <= cur
    BY <1>9 DEF AddNested, Passing
  <2>3. e.deadline \in Nat /\ cur \in Nat /\ now + d \in Nat
    BY DelaysAssumption DEF TypeOK, TimerSet
  <2>4. e.deadline <= Timer(t, now + d).deadline
    BY <2>1, <2>2, <2>3
  <2>5. DeadlineOrder'
    BY <1>9, <2>2, <2>4 DEF AddNested, DeadlineOrder
  <2> QED  BY <1>3, <1>9, <2>5 DEF AddNested
<1>10. CASE Schedule
  <2>1. DeadlineOrder'
    BY <1>10, <1>2 DEF Schedule, Passing
  <2>2. Waiting'
    BY <1>10 DEF Schedule, Waiting
  <2> QED  BY <2>1, <2>2
<1>11. CASE CallDue
  <2>1. PICK e \in Due : copy' = copy \ {e} /\ (calling' = calling \/ calling' = {e})
    BY <1>11 DEF CallDue
  <2>2. /\ e \in copy /\ e.deadline <= cur /\ \A f \in copy : e.deadline <= f.deadline
        /\ calling = {} /\ \A f \in delay_tasks : cur <= f.deadline
    BY <1>11 DEF Due, Earliest, CallDue, Passing
  <2>3. \A f \in delay_tasks : e.deadline \in Nat /\ f.deadline \in Nat /\ cur \in Nat
    BY <2>2 DEF TypeOK, TimerSet
  <2>4. \A f \in delay_tasks \cup copy : e.deadline <= f.deadline
    BY <2>2, <2>3
  <2>5. DeadlineOrder'
    BY <1>11, <2>1, <2>2, <2>4 DEF CallDue, DeadlineOrder
  <2> QED  BY <1>3, <1>11, <2>5 DEF CallDue
<1>12. ASSUME NEW r \in Nat, Return(r) PROVE DeadlineOrder' /\ Waiting'
  BY <1>2, <1>3, <1>12 DEF Return
<1>13. CASE Merge
  <2>1. Waiting'
    BY <1>13 DEF Merge, Waiting, TimeoutFor, Next0, Earliest
  <2> QED  BY <1>2, <1>13, <2>1 DEF Merge, Passing
<1>14. CASE EnterWait
  BY <1>1, <1>4, <1>14 DEF EnterWait
<1>15. CASE TimedOut
  BY <1>1, <1>3, <1>15 DEF TimedOut
<1>16. CASE HandleEvents
  <2>1. DeadlineOrder'
    BY <1>2, <1>16 DEF HandleEvents, Passing
  <2> QED  BY <1>3, <1>16, <2>1 DEF HandleEvents
<1>17. CASE UNCHANGED vars
  BY <1>5, <1>17 DEF vars
<1> QED
  BY <1>6, <1>7, <1>8, <1>9, <1>10, <1>11, <1>12, <1>13, <1>14, <1>15, <1>16, <1>17,
     DelaysAssumption DEF Turn, Next, InPass
\* The invariant of the delay tasks holds at first.
LEMMA DelayInit == Init => DelayInv
<1> SUFFICES ASSUME Init PROVE DelayInv
  OBVIOUS
<1>1. TypeOK
  BY BoundAssumption DEF Init, TypeOK
<1>2. Passing /\ OnePlace /\ TimersKept
  BY DEF Init, Passing, OnePlace, TimersKept, Known
<1>3. DeadlineOrder /\ Waiting
  BY DEF Init, DeadlineOrder, Waiting
<1> QED  BY <1>1, <1>2, <1>3 DEF DelayInv

\* Each step keeps it.
LEMMA DelayStep == DelayInv /\ [Turn]_vars => DelayInv'
  BY DelayTypes, DelayPasses, DelayKeeps, DelayOrders DEF DelayInv

\* The time-out of a wait is that of the first deadline, if an int can say it.
LEMMA WaitingWakes == DelayInv => WakesInTime
<1> SUFFICES ASSUME DelayInv, ppc = "asleep", Next0(delay_tasks) \in 1..(IntSize \div 2 - 1)
             PROVE  InTime
  BY DEF WakesInTime
<1>1. delay_tasks \in SUBSET TimerSet /\ delay_tasks # {} /\ cur \in Nat
  BY DEF DelayInv, TypeOK, Next0
<1> DEFINE first == CHOOSE e \in Earliest(delay_tasks) : TRUE
<1>2. first \in Earliest(delay_tasks)
  BY <1>1, FirstTimer
<1>3. Next0(delay_tasks) = first.deadline - cur
  BY <1>1 DEF Next0
<1> HIDE DEF first
<1>4. /\ Next0(delay_tasks) \in Nat /\ Next0(delay_tasks) > 0
      /\ Next0(delay_tasks) < IntSize \div 2
  BY BoundAssumption
<1>5. timeout = Next0(delay_tasks)
  BY <1>1, <1>4, AsIntKeeps DEF DelayInv, Waiting, TimeoutFor
<1>6. first.deadline \in Nat /\ \A e \in delay_tasks : e.deadline \in Nat
  BY <1>1, <1>2 DEF Earliest, TimerSet
<1>7. cur + timeout = first.deadline
  BY <1>1, <1>3, <1>5, <1>6
<1> QED  BY <1>2, <1>4, <1>5, <1>7 DEF InTime, Earliest

\* It always holds.
LEMMA DelayKept == DelaySafety => []DelayInv
<1>1. Init => DelayInv
  BY DelayInit
<1>2. DelayInv /\ [Turn]_vars => DelayInv'
  BY DelayStep
<1> QED  BY <1>1, <1>2, PTL DEF DelaySafety
-----------------------------------------------------------------------------
(* What a poller promises about its timers. *)

\* With any callbacks: the time-out is an int and no deadline is negative, no timer is
\* lost or doubled, the wait ends for the first deadline, and callbacks run in the
\* order of their deadlines (EventPoller.cc:302-390).
THEOREM PollerKeeps == Spec => [](TypeOK /\ TimersKept /\ WakesInTime /\ DeadlineOrder)
<1>1. Spec => DelaySafety
  <2>1. [Next]_vars => [Turn]_vars
    BY DEF Turn
  <2> QED  BY <2>1, PTL DEF Spec, DelaySafety
<1>2. DelayInv => TypeOK /\ TimersKept /\ WakesInTime /\ DeadlineOrder
  BY WaitingWakes DEF DelayInv
<1> QED  BY <1>1, <1>2, DelayKept, PTL

-----------------------------------------------------------------------------
(* The actions of PeriodicTimer.tla, and what they leave alone. *)

\* The job that is called is the one that was taken from the copy, and it is due.
LEMMA JobIsCalled ==
    ASSUME Passing, ppc = "call"
    PROVE  Job \in calling /\ calling = {Job} /\ Job.deadline <= cur
<1>1. PICK e \in calling : calling = {e} /\ e.deadline <= cur
  BY DEF Passing
<1>2. Job = e
  BY <1>1 DEF Job
<1> QED  BY <1>1, <1>2

\* The Timer that the callback has locked is an object, and made the job.
LEMMA LockedMadeIt ==
    ASSUME TypeOK, Passing, TType, Phases, phase # "none"
    PROVE  /\ Job \in calling /\ calling = {Job} /\ Job.timer \in Timers /\ ppc = "call"
           /\ maker[Job.timer] \in Objects
           /\ phase = "body" => locked = maker[Job.timer]
<1>1. ppc = "call"
  BY DEF Phases
<1>2. Job \in calling /\ calling = {Job} /\ Job.timer \in Timers
  BY <1>1, JobIsCalled DEF TypeOK, TimerSet
<1> QED  BY <1>1, <1>2 DEF Phases, TType

\* A Timer has two sides.
LEMMA TwoSides ==
    /\ \A s : s \in Sides <=> s = "owner" \/ s = "poller"
    /\ Other("owner") = "poller" /\ Other("poller") = "owner"
  BY DEF Sides, Other

\* A step of one side of one Timer.
LEMMA OneUse ==
    ASSUME TType, NEW s \in Sides, NEW o \in Objects, NEW step,
           use' = [use EXCEPT ![s][o] = step]
    PROVE  /\ use'[s][o] = step
           /\ \A r \in Sides, p \in Objects : r # s \/ p # o => use'[r][p] = use[r][p]
  BY DEF TType

\* What cancel leaves alone.
LEMMA CancelKeeps ==
    ASSUME NEW t, CancelJob(t)
    PROVE  /\ UNCHANGED <<now, ppc, added, delay_tasks, copy, calling, cur, armed>>
           /\ cancelled' = cancelled \/ cancelled' = cancelled \cup {t}
           /\ t \in armed => t \in cancelled'
  BY DEF CancelJob, Cancel, vars

\* What a destructor leaves alone.
LEMMA DestroyKeeps ==
    ASSUME TypeOK, NEW o, Destroy(o)
    PROVE  /\ UNCHANGED <<now, ppc, added, delay_tasks, copy, calling, cur, armed>>
           /\ cancelled' = cancelled \/ cancelled' = cancelled \cup {task[o]}
           /\ task[o] \in armed => task[o] \in cancelled'
           /\ task' = [task EXCEPT ![o] = None] /\ quiet' = quiet \cup {o}
<1>1. CASE task[o] = None
  <2>1. None \notin armed
    BY ObjectAssumption DEF TypeOK
  <2> QED  BY <1>1, <2>1 DEF Destroy, vars
<1>2. CASE task[o] # None
  BY <1>2, CancelKeeps DEF Destroy
<1> QED  BY <1>1, <1>2

\* A step within start or stop that adds and cancels nothing.
Marks == UNCHANGED <<vars, calls, maker, period>> /\ clashed \subseteq clashed'

\* start adds a job.
Starts(s, o, d) == /\ StartPost(s, o, d) /\ made[s][o] \in Fresh
                   /\ Known' = Known \cup {Timer(made[s][o], now + d)}
                   /\ armed' = armed \cup {made[s][o]}
                   /\ UNCHANGED <<ppc, calling, cur, cancelled>>

\* The kinds of steps.
LEMMA Kinds ==
    ASSUME TypeOK, TNext
    PROVE  \/ Loop \/ OtherJobs \/ Enter \/ Lock \/ BodyEnds \/ OnTimeReturns \/ Marks
           \/ \E o \in Objects : \/ Drop(o)
                                 \/ \E s \in Sides : \/ StopCancel(s, o)
                                                     \/ \E d \in Nat : Starts(s, o, d)
<1>1. ASSUME NEW s \in Sides, NEW o \in Objects, Starting(s, o)
      PROVE  \E d \in Nat : Starts(s, o, d)
  <2>1. PICK d \in Nat : StartPost(s, o, d)
    BY <1>1, DelaysAssumption DEF Starting
  <2>2. AddDelayTask(made[s][o], d) \/ AddNested(made[s][o], d)
    BY <2>1 DEF StartPost
  <2>3. Starts(s, o, d)
    BY <2>1, <2>2 DEF Starts, AddDelayTask, AddNested, Known
  <2> QED  BY <2>3
<1>2. ASSUME NEW s \in Sides, NEW o \in Objects, GoesOn(s, o)
      PROVE  Marks \/ StopCancel(s, o) \/ \E d \in Nat : Starts(s, o, d)
  BY <1>1, <1>2 DEF GoesOn, StartAssign, StopNull, Marks
<1>3. ASSUME NEW s \in Sides, NEW o \in Objects, StartTest(s, o) \/ StopTest(s, o)
      PROVE  Marks
  BY <1>3 DEF StartTest, StopTest, GoOn, Marks
<1>4. ASSUME NEW o \in Objects, Torn(o) PROVE Marks
  BY <1>4 DEF Torn, Marks
<1>5. CASE Ended
  BY <1>5 DEF Ended, Marks, allVars, timerVars, uses
<1>6. "owner" \in Sides /\ "poller" \in Sides
  BY TwoSides
<1> QED  BY <1>2, <1>3, <1>4, <1>5, <1>6 DEF TNext, Running, Callback

\* Each step with Timer objects is one of the delay tasks with some delay returned, or
\* leaves them alone.
LEMMA TimerTurns ==
    TypeOK /\ Passing /\ TType /\ [TNext]_allVars => [Turn]_vars
<1> SUFFICES ASSUME TypeOK, Passing, TType, TNext PROVE [Turn]_vars
  BY DEF allVars
<1>c. ASSUME NEW t, CancelJob(t) PROVE [Turn]_vars
  BY <1>c DEF CancelJob, Turn, Next, TypeOK
<1>d. ASSUME NEW o, Destroy(o) PROVE [Turn]_vars
  BY <1>c, <1>d DEF Destroy
<1>1. CASE Loop
  BY <1>1 DEF Loop, Turn, Next, InPass
<1>2. CASE OtherJobs
  <2>1. ASSUME NEW t \in Timers, NEW d \in Delays, AddDelayTask(t, d) PROVE Next
    BY <2>1 DEF Next
  <2>2. ASSUME NEW t \in Timers, NEW d \in NestedDelays, AddNested(t, d) PROVE Next
    BY <2>2 DEF Next
  <2>3. ASSUME NEW t \in Timers, Cancel(t) PROVE Next
    BY <2>3 DEF Next
  <2>4. ASSUME NEW r \in Periods, Return(r) PROVE Turn
    BY <2>4, DelaysAssumption DEF Turn
  <2>5. Unused \subseteq Timers
    BY DEF Unused, Fresh
  <2> QED  BY <1>2, <2>1, <2>2, <2>3, <2>4, <2>5 DEF OtherJobs, Turn
<1>3. CASE Enter
  BY <1>3 DEF Enter, Turn, Next, InPass
<1>4. CASE Lock
  <2>1. UNCHANGED vars \/ Return(0)
    BY <1>4 DEF Lock
  <2> QED  BY <2>1 DEF Turn
<1>5. CASE BodyEnds
  BY <1>5, <1>d DEF BodyEnds
<1>6. CASE OnTimeReturns
  <2>1. ppc = "call"
    BY <1>6 DEF OnTimeReturns, Return
  <2>2. Job.timer \in Timers
    BY <2>1, JobIsCalled DEF TypeOK, TimerSet
  <2>3. PICK r \in Nat : Return(r)
    BY <1>6, <2>2 DEF OnTimeReturns, TType
  <2> QED  BY <2>3 DEF Turn
<1>7. ASSUME NEW o \in Objects, Drop(o) PROVE [Turn]_vars
  BY <1>7, <1>d DEF Drop
<1>8. ASSUME NEW s \in Sides, NEW o \in Objects, StopCancel(s, o) PROVE [Turn]_vars
  BY <1>8, <1>c DEF StopCancel
<1>9. ASSUME NEW s \in Sides, NEW o \in Objects, Starting(s, o) PROVE Turn
  <2>1. PICK d : /\ d \in (IF s = "owner" THEN Delays ELSE NestedDelays)
                 /\ StartPost(s, o, d)
    BY <1>9 DEF Starting
  <2>2. made[s][o] \in Timers
    BY <2>1 DEF StartPost, AddDelayTask, AddNested, Fresh
  <2>3. CASE s = "owner"
    BY <2>1, <2>2, <2>3 DEF StartPost, Turn, Next
  <2>4. CASE s # "owner"
    BY <2>1, <2>2, <2>4 DEF StartPost, Turn, Next
  <2> QED  BY <2>3, <2>4
<1>10. ASSUME NEW s \in Sides, NEW o \in Objects, GoesOn(s, o) PROVE [Turn]_vars
  BY <1>8, <1>9, <1>10 DEF GoesOn, StartAssign, StopNull
<1>11. ASSUME NEW s \in Sides, NEW o \in Objects, StartTest(s, o) \/ StopTest(s, o) \/ Torn(o)
       PROVE  UNCHANGED vars
  BY <1>11 DEF StartTest, StopTest, Torn
<1>12. CASE Ended
  BY <1>12 DEF Ended, allVars
<1>13. "owner" \in Sides /\ "poller" \in Sides
  BY TwoSides
<1> QED
  BY <1>1, <1>2, <1>3, <1>4, <1>5, <1>6, <1>7, <1>10, <1>11, <1>12, <1>13
  DEF TNext, Running, Callback
-----------------------------------------------------------------------------
(* Timer objects: types, phases of a callback, and the job that is left. *)

\* Each step keeps the types.
LEMMA TimerTypes == TypeOK /\ Passing /\ Phases /\ TType /\ [TNext]_allVars => TType'
<1> SUFFICES ASSUME TypeOK, Passing, Phases, TType, [TNext]_allVars PROVE TType'
  OBVIOUS
<1>1. ASSUME UNCHANGED timerVars PROVE TType'
  BY <1>1 DEF TType, timerVars, uses, calls
<1>2. ASSUME NEW o \in Objects, Destroy(o)
      PROVE  task' \in [Objects -> Timers \cup {None}] /\ quiet' \subseteq Objects
  BY <1>2, DestroyKeeps DEF TType
<1>s. ASSUME NEW s \in Sides, NEW o \in Objects,
             NEW step \in {"idle", "post", "assign", "cancel", "null"},
             use' = [use EXCEPT ![s][o] = step]
      PROVE  use' \in [Sides -> [Objects -> {"idle", "post", "assign", "cancel", "null"}]]
  BY <1>s DEF TType
<1>m. ASSUME NEW s \in Sides, NEW o \in Objects, NEW t \in Timers \cup {None},
             made' = [made EXCEPT ![s][o] = t]
      PROVE  made' \in [Sides -> [Objects -> Timers \cup {None}]]
  BY <1>m DEF TType
<1>4. CASE Enter
  BY <1>4 DEF Enter, TType, uses
<1>5. CASE Lock
  <2>1. Job.timer \in Timers /\ maker[Job.timer] \in Objects
    BY <1>5, LockedMadeIt DEF Lock
  <2>2. [at |-> cur, period |-> period[Job.timer]] \in [at : Int, period : Nat]
    BY <2>1 DEF TType, TypeOK
  <2>3. fired' \in [Objects -> [at : Int, period : Nat]]
    BY <1>5, <2>1, <2>2 DEF Lock, TType
  <2> QED  BY <1>5, <2>1, <2>3 DEF Lock, TType, uses
<1>6. CASE BodyEnds
  <2>1. locked \in Objects
    BY <1>6, LockedMadeIt DEF BodyEnds
  <2>2. task' \in [Objects -> Timers \cup {None}] /\ quiet' \subseteq Objects
    BY <1>2, <1>6, <2>1 DEF BodyEnds, TType
  <2> QED  BY <1>6, <2>2 DEF BodyEnds, TType
<1>7. CASE OnTimeReturns
  BY <1>7 DEF OnTimeReturns, TType, uses
<1>8. ASSUME NEW o \in Objects, Drop(o) PROVE TType'
  <2>1. task' \in [Objects -> Timers \cup {None}] /\ quiet' \subseteq Objects
    BY <1>2, <1>8 DEF Drop, TType
  <2> QED  BY <1>8, <2>1 DEF Drop, TType
<1>9. ASSUME NEW s \in Sides, NEW o \in Objects, StartTest(s, o) PROVE TType'
  <2>1. PICK t \in Unused : made' = [made EXCEPT ![s][o] = t]
    BY <1>9 DEF StartTest
  <2>2. t \in Timers
    BY DEF Unused, Fresh
  <2>3. use' = [use EXCEPT ![s][o] = "post"]
    BY <1>9 DEF StartTest, GoOn
  <2> QED  BY <1>9, <1>s, <1>m, <2>1, <2>2, <2>3 DEF StartTest, GoOn, TType, calls
<1>10. ASSUME NEW s \in Sides, NEW o \in Objects, Starting(s, o) PROVE TType'
  <2>1. PICK d \in Nat : StartPost(s, o, d)
    BY <1>10, DelaysAssumption DEF Starting
  <2>2. made[s][o] \in Timers
    BY <2>1 DEF StartPost, AddDelayTask, AddNested, Fresh
  <2>3. maker' \in [Timers -> Objects \cup {None}] /\ period' \in [Timers -> Nat]
    BY <2>1, <2>2 DEF StartPost, TType
  <2> QED  BY <1>s, <2>1, <2>3 DEF StartPost, TType, calls
<1>11. ASSUME NEW s \in Sides, NEW o \in Objects, StartAssign(s, o) PROVE TType'
  <2>1. task' \in [Objects -> Timers \cup {None}]
    BY <1>11 DEF StartAssign, TType
  <2> QED  BY <1>s, <1>m, <1>11, <2>1 DEF StartAssign, TType, calls
<1>12. ASSUME NEW s \in Sides, NEW o \in Objects, StopTest(s, o) PROVE TType'
  BY <1>12, <1>s DEF StopTest, GoOn, TType, calls
<1>13. ASSUME NEW s \in Sides, NEW o \in Objects, StopCancel(s, o) PROVE TType'
  BY <1>13, <1>s DEF StopCancel, TType, calls
<1>14. ASSUME NEW s \in Sides, NEW o \in Objects, StopNull(s, o) PROVE TType'
  BY <1>14, <1>s DEF StopNull, TType, calls
<1>15. ASSUME NEW o \in Objects, Torn(o) PROVE TType'
  BY <1>15 DEF Torn, TType, calls
<1>16. ASSUME NEW s \in Sides, NEW o \in Objects, GoesOn(s, o) PROVE TType'
  BY <1>10, <1>11, <1>13, <1>14, <1>16 DEF GoesOn
<1>17. "owner" \in Sides /\ "poller" \in Sides
  BY TwoSides
<1>18. CASE Loop \/ OtherJobs \/ Ended \/ UNCHANGED allVars
  BY <1>1, <1>18 DEF Loop, OtherJobs, Ended, allVars
<1> QED
  BY <1>4, <1>5, <1>6, <1>7, <1>8, <1>9, <1>12, <1>15, <1>16, <1>17, <1>18
  DEF TNext, Running, Callback

\* Each step keeps where the poller and the users are.
LEMMA TimerPhases ==
    TypeOK /\ Passing /\ TimersKept /\ TType /\ Phases /\ [TNext]_allVars => Phases'
<1> SUFFICES ASSUME TypeOK, Passing, TimersKept, TType, Phases, [TNext]_allVars PROVE Phases'
  OBVIOUS
<1>1. ASSUME UNCHANGED <<ppc, calling, phase, locked, maker>> PROVE Phases'
  BY <1>1 DEF Phases
<1>2. ASSUME NEW r \in Nat, Return(r), phase' = "none", phase # "body", UNCHANGED <<locked, maker>>
      PROVE  Phases'
  BY <1>2 DEF Return, Phases
<1>3. ASSUME NEW s \in Sides, NEW o \in Objects, NEW d \in Nat, Starts(s, o, d) PROVE Phases'
  <2>0. PICK t : t = made[s][o]
    OBVIOUS
  <2>1. \A e \in calling : e.timer # t /\ e.timer \in Timers
    BY <1>3, <2>0 DEF Starts, Fresh, Known, TypeOK, TimerSet
  <2>2. maker' = [maker EXCEPT ![t] = o] /\ UNCHANGED <<phase, locked, ppc, calling>>
    BY <1>3, <2>0 DEF Starts, StartPost, calls
  <2>3. \A e \in calling : maker'[e.timer] = maker[e.timer]
    BY <2>1, <2>2 DEF TType
  <2> QED  BY <2>2, <2>3 DEF Phases
<1>4. CASE Loop
  <2>1. CASE Schedule
    BY <2>1, <1>4 DEF Loop, Schedule, timerVars, calls, Phases, Passing
  <2>2. CASE Merge
    BY <2>2, <1>4 DEF Loop, Merge, timerVars, calls, Phases, Passing
  <2>3. CASE EnterWait
    BY <2>3, <1>4 DEF Loop, EnterWait, timerVars, calls, Phases, Passing
  <2>4. CASE TimedOut
    BY <2>4, <1>4 DEF Loop, TimedOut, timerVars, calls, Phases, Passing
  <2>5. CASE HandleEvents
    BY <2>5, <1>4 DEF Loop, HandleEvents, timerVars, calls, Phases, Passing
  <2>6. CASE Tick
    BY <2>6, <1>4, <1>1 DEF Loop, Tick, timerVars, calls
  <2> QED  BY <1>4, <2>1, <2>2, <2>3, <2>4, <2>5, <2>6 DEF Loop
<1>5. CASE OtherJobs
  <2>1. ASSUME NEW r \in Periods, Return(r), phase = "none" PROVE Phases'
    BY <1>2, <1>5, <2>1, DelaysAssumption DEF OtherJobs, timerVars, calls
  <2> QED  BY <1>1, <1>5, <2>1 DEF OtherJobs, timerVars, calls, AddDelayTask, AddNested, Cancel
<1>6. CASE Enter
  <2>1. /\ ppc = "run" /\ calling = {} /\ phase = "none" /\ locked = None
        /\ UNCHANGED <<locked, maker>>
    BY <1>6 DEF Enter, CallDue, Phases, Passing
  <2>2. \/ calling' = {}
        \/ \E e \in copy : calling' = {e} /\ ppc' = "call"
    BY <1>6, <2>1 DEF Enter, CallDue, Due, Earliest
  <2>3. CASE calling' = {}
    BY <1>6, <2>1, <2>3 DEF Enter, Phases
  <2>4. ASSUME NEW e \in copy, calling' = {e}, ppc' = "call" PROVE Phases'
    <3>1. (CHOOSE x \in calling' : TRUE) = e /\ calling' # {}
      BY <2>4
    <3>2. phase' = IF maker[e.timer] # None THEN "lock" ELSE "none"
      BY <1>6, <3>1 DEF Enter
    <3> QED  BY <2>1, <2>4, <3>2 DEF Phases
  <2> QED  BY <2>2, <2>3, <2>4
<1>7. CASE Lock
  <2>1. phase = "lock" /\ maker' = maker
    BY <1>7 DEF Lock
  <2>2. CASE Alive(maker[Job.timer])
    <3>1. locked' = maker[Job.timer] /\ phase' = "body" /\ UNCHANGED <<ppc, calling>>
      BY <1>7, <2>2 DEF Lock, vars
    <3> QED  BY <2>1, <3>1, LockedMadeIt DEF Phases
  <2>3. CASE ~Alive(maker[Job.timer])
    BY <1>2, <1>7, <2>1, <2>3 DEF Lock
  <2> QED  BY <2>2, <2>3
<1>8. CASE BodyEnds
  <2>1. phase = "body" /\ locked \in Objects
    BY <1>8, LockedMadeIt DEF BodyEnds
  <2>2. UNCHANGED <<ppc, calling>>
    BY <1>8, <2>1, DestroyKeeps DEF BodyEnds, vars
  <2> QED  BY <1>8, <2>1, <2>2 DEF BodyEnds, Phases
<1>9. CASE OnTimeReturns
  <2>1. period[Job.timer] \in Nat
    BY <1>9, LockedMadeIt DEF OnTimeReturns, TType
  <2> QED  BY <1>2, <1>9, <2>1 DEF OnTimeReturns
<1>10. CASE Marks
  BY <1>1, <1>10 DEF Marks, vars, calls
<1>11. ASSUME NEW s \in Sides, NEW o \in Objects, StopCancel(s, o) PROVE Phases'
  <2>1. UNCHANGED <<ppc, calling>>
    BY <1>11, CancelKeeps DEF StopCancel, vars
  <2> QED  BY <1>1, <1>11, <2>1 DEF StopCancel, calls
<1>12. ASSUME NEW o \in Objects, Drop(o) PROVE Phases'
  <2>1. UNCHANGED <<ppc, calling>>
    BY <1>12, DestroyKeeps DEF Drop, vars
  <2> QED  BY <1>1, <1>12, <2>1 DEF Drop
<1>13. CASE UNCHANGED allVars
  BY <1>1, <1>13 DEF allVars, vars, timerVars, calls
<1> QED
  BY <1>3, <1>4, <1>5, <1>6, <1>7, <1>8, <1>9, <1>10, <1>11, <1>12, <1>13, Kinds

\* A Timer that a step does not touch, or one of whose jobs only ends.
LEMMA OrderlyKept ==
    ASSUME NEW o \in Objects, Orderly(o), \A s \in Sides : use'[s][o] = use[s][o],
           \A s \in Sides : made'[s][o] = made[s][o], task'[o] = task[o],
           Live(o)' \subseteq Live(o), o \in quiet' => o \in quiet, Alive(o) => Alive(o)'
    PROVE  Orderly(o)'
<1>1. "owner" \in Sides /\ "poller" \in Sides
  BY TwoSides
<1>2. PICK L : L = Live(o)
  OBVIOUS
<1>3. PICK M : M = Live(o)'
  OBVIOUS
<1>4. M \subseteq L
  BY <1>2, <1>3
<1> QED  BY <1>1, <1>2, <1>3, <1>4 DEF Orderly, Busy

\* The Timers that a step of one side of another leaves alone.
LEMMA OthersOrderly ==
    ASSUME TType, Uses, NEW s \in Sides, NEW o \in Objects, NEW step,
           use' = [use EXCEPT ![s][o] = step], clashed \subseteq clashed',
           UNCHANGED <<held, locked>>,
           \A p \in Objects \ {o} : /\ task'[p] = task[p] /\ Live(p)' \subseteq Live(p)
                                    /\ \A r \in Sides : made'[r][p] = made[r][p]
                                    /\ p \in quiet' => p \in quiet
    PROVE  \A p \in Objects \ clashed' : p # o => Orderly(p)'
<1> SUFFICES ASSUME NEW p \in Objects \ clashed', p # o PROVE Orderly(p)'
  OBVIOUS
<1>1. Orderly(p)
  BY DEF Uses
<1>2. \A r \in Sides : use'[r][p] = use[r][p]
  BY OneUse
<1>3. Alive(p) => Alive(p)'
  BY DEF Alive
<1> QED  BY <1>1, <1>2, <1>3, OrderlyKept

\* Both sides are over with a Timer that is orderly and that one side goes on with.
LEMMA GoesAlone ==
    ASSUME TType, Uses, NEW s \in Sides, NEW o \in Objects, NEW step, GoOn(s, o, step)
    PROVE  /\ use' = [use EXCEPT ![s][o] = step] /\ clashed \subseteq clashed'
           /\ o \notin clashed' =>
                /\ \A r \in Sides : use[r][o] = "idle"
                /\ Orderly(o) /\ Live(o) \subseteq {task[o]} /\ Seen(s, o) = {task[o]}
<1>1. use' = [use EXCEPT ![s][o] = step] /\ clashed \subseteq clashed'
  BY DEF GoOn
<1>2. ASSUME o \notin clashed'
      PROVE  /\ \A r \in Sides : use[r][o] = "idle"
             /\ Orderly(o) /\ Live(o) \subseteq {task[o]} /\ Seen(s, o) = {task[o]}
  <2>1. use[s][o] = "idle" /\ use[Other(s)][o] = "idle" /\ o \notin clashed
    BY <1>1, <1>2 DEF GoOn, Busy
  <2>2. \A r \in Sides : use[r][o] = "idle"
    BY <2>1, TwoSides
  <2>3. Orderly(o)
    BY <2>1 DEF Uses
  <2>4. Live(o) \subseteq {task[o]}
    BY <2>2, <2>3 DEF Orderly
  <2>5. Seen(s, o) = {task[o]}
    BY <2>1 DEF Seen
  <2> QED  BY <2>2, <2>3, <2>4, <2>5
<1> QED  BY <1>1, <1>2

\* The owner and the callback hold what they use.
LEMMA HandsKept ==
    ASSUME TType, Uses, NEW s \in Sides, NEW o \in Objects, NEW step,
           use' = [use EXCEPT ![s][o] = step], UNCHANGED calls,
           step = "idle" \/ Busy(s, o) \/ CanUse(s, o)
    PROVE  InHand'
<1>1. /\ use'[s][o] = step
      /\ \A r \in Sides, p \in Objects : r # s \/ p # o => use'[r][p] = use[r][p]
  BY DEF TType
<1>2. UNCHANGED <<held, locked, phase>>
  BY DEF calls
<1>3. ASSUME NEW p \in Objects, Busy("owner", p)' PROVE p \in held'
  <2>1. CASE s = "owner" /\ p = o
    <3>1. Busy("owner", o) \/ CanUse("owner", o)
      BY <1>1, <1>3, <2>1 DEF Busy
    <3> QED  BY <1>2, <2>1, <3>1 DEF CanUse, Uses, InHand
  <2>2. CASE ~(s = "owner" /\ p = o)
    <3>1. Busy("owner", p)
      BY <1>1, <1>3, <2>2, TwoSides DEF Busy
    <3> QED  BY <1>2, <3>1 DEF Uses, InHand
  <2> QED  BY <2>1, <2>2
<1>4. ASSUME NEW p \in Objects, Busy("poller", p)' PROVE phase' = "body" /\ locked' = p
  <2>1. CASE s = "poller" /\ p = o
    <3>1. Busy("poller", o) \/ CanUse("poller", o)
      BY <1>1, <1>4, <2>1 DEF Busy
    <3> QED  BY <1>2, <2>1, <3>1 DEF CanUse, Uses, InHand
  <2>2. CASE ~(s = "poller" /\ p = o)
    <3>1. Busy("poller", p)
      BY <1>1, <1>4, <2>2, TwoSides DEF Busy
    <3> QED  BY <1>2, <3>1 DEF Uses, InHand
  <2> QED  BY <2>1, <2>2
<1> QED  BY <1>3, <1>4 DEF InHand

\* The steps of start and stop keep it known which job of a Timer may be live.
LEMMA CallsOrderly ==
    ASSUME TypeOK, TimersKept, TType, Phases, Uses, NEW s \in Sides, NEW o \in Objects,
           StartTest(s, o) \/ StopTest(s, o) \/ GoesOn(s, o)
    PROVE  Uses'
<1>n. None \notin Timers /\ \A p : Live(p) \subseteq Timers
  BY ObjectAssumption DEF Live, TypeOK
<1>t. use[s][o] \in {"idle", "post", "assign", "cancel", "null"}
  BY DEF TType
<1>h. \A r \in Sides : Busy(r, o) => Alive(o)
  BY TwoSides DEF Uses, InHand, Alive
<1>0. ASSUME UNCHANGED <<vars, maker>> PROVE \A p : Live(p)' = Live(p)
  BY <1>0 DEF Live, vars
\* What is left to show of a step that does not clash.
<1>1. ASSUME NEW step, use' = [use EXCEPT ![s][o] = step],
             clashed \subseteq clashed', UNCHANGED calls, crashed' = crashed,
             step = "idle" \/ Busy(s, o) \/ CanUse(s, o),
             \A p \in Objects \ {o} : /\ task'[p] = task[p] /\ Live(p)' \subseteq Live(p)
                                      /\ \A r \in Sides : made'[r][p] = made[r][p]
                                      /\ p \in quiet' => p \in quiet,
             o \notin clashed' => Orderly(o)'
      PROVE  Uses'
  <2>1. InHand'
    BY <1>1, HandsKept
  <2>2. \A p \in Objects \ clashed' : p # o => Orderly(p)'
    BY <1>1, OthersOrderly DEF calls
  <2>3. NoCrash'
    BY <1>1 DEF Uses, NoCrash
  <2> QED  BY <1>1, <2>1, <2>2, <2>3 DEF Uses
\* The other side is over with the Timer, when the two have not clashed.
<1>2. ASSUME Busy(s, o), o \notin clashed
      PROVE  Orderly(o) /\ use[Other(s)][o] = "idle" /\ Seen(s, o) = {task[o]}
  <2>1. Orderly(o) /\ use[Other(s)][o] = "idle"
    BY <1>2, TwoSides DEF Uses, Orderly, Busy
  <2> QED  BY <2>1 DEF Seen
\* The Timer itself, from where its sides are, its job, and the jobs that are live.
<1>3. ASSUME NEW step \in {"idle", "post", "assign", "cancel", "null"},
             use' = [use EXCEPT ![s][o] = step], use[Other(s)][o] = "idle",
             step \in {"post", "null"} => Live(o)' = {},
             step = "assign" => Live(o)' \subseteq {made'[s][o]},
             step = "cancel" => task'[o] # None,
             step = "post" => o \notin quiet',
             step \in {"idle", "cancel"} => Live(o)' \subseteq {task'[o]},
             o \in quiet' => Live(o)' = {},
             Live(o)' # {} => Alive(o)'
      PROVE  Orderly(o)'
  <2>1. use'[s][o] = step /\ use'[Other(s)][o] = "idle"
    BY <1>3, TwoSides DEF TType
  <2>2. \A r \in Sides : r = s \/ use'[r][o] = "idle"
    BY <2>1, TwoSides
  <2> QED  BY <1>3, <2>1, <2>2, TwoSides DEF Orderly, Busy
<1>4. CASE StartTest(s, o)
  <2>1. /\ use' = [use EXCEPT ![s][o] = "post"] /\ clashed \subseteq clashed'
        /\ UNCHANGED <<vars, calls, task, maker, crashed>> /\ quiet' = quiet \ {o}
        /\ None \in Seen(s, o) /\ CanUse(s, o)
    BY <1>4, GoesAlone DEF StartTest, GoOn
  <2>2. PICK t : made' = [made EXCEPT ![s][o] = t]
    BY <1>4 DEF StartTest
  <2>3. ASSUME o \notin clashed' PROVE Orderly(o)'
    <3>1. /\ \A r \in Sides : use[r][o] = "idle"
          /\ Live(o) \subseteq {task[o]} /\ Seen(s, o) = {task[o]}
      BY <1>4, <2>3, GoesAlone DEF StartTest
    <3>2. Live(o)' = {}
      BY <1>0, <1>n, <2>1, <3>1
    <3>3. use[Other(s)][o] = "idle"
      BY <3>1, TwoSides
    <3> QED  BY <1>3, <2>1, <3>2, <3>3
  <2>4. \A p \in Objects \ {o} : \A r \in Sides : made'[r][p] = made[r][p]
    BY <2>2 DEF TType
  <2> QED  BY <1>0, <1>1, <2>1, <2>3, <2>4
<1>5. CASE StopTest(s, o)
  <2>1. CASE Seen(s, o) # {None} /\ GoOn(s, o, "cancel") /\ UNCHANGED quiet
    <3>1. /\ use' = [use EXCEPT ![s][o] = "cancel"] /\ clashed \subseteq clashed'
          /\ UNCHANGED <<vars, calls, task, made, maker, crashed>> /\ CanUse(s, o)
      BY <1>5, <2>1, GoesAlone DEF StopTest, GoOn
    <3>2. ASSUME o \notin clashed' PROVE Orderly(o)'
      <4>1. /\ \A r \in Sides : use[r][o] = "idle" /\ Orderly(o)
            /\ Live(o) \subseteq {task[o]} /\ Seen(s, o) = {task[o]}
        BY <2>1, <3>2, GoesAlone
      <4>2. /\ Live(o)' \subseteq {task'[o]} /\ task'[o] # None
            /\ o \in quiet' => Live(o)' = {}
            /\ Live(o)' # {} => Alive(o)'
        BY <1>0, <2>1, <3>1, <4>1 DEF Orderly, Alive, calls
      <4>3. use[Other(s)][o] = "idle"
        BY <4>1, TwoSides
      <4> QED  BY <1>3, <3>1, <4>2, <4>3
    <3> QED  BY <1>0, <1>1, <2>1, <3>1, <3>2
  <2>2. CASE ~Busy(s, o) /\ task[o] = None /\ ~Busy(Other(s), o)
             /\ quiet' = quiet \cup {o} /\ UNCHANGED <<use, clashed>>
    <3>1. /\ UNCHANGED <<vars, calls, task, made, maker, crashed, use, clashed>>
          /\ UNCHANGED <<held, phase, locked>>
      BY <1>5, <2>2 DEF StopTest, calls
    <3>2. ASSUME NEW p \in Objects \ clashed', p # o PROVE Orderly(p)'
      <4>1. Orderly(p) /\ Live(p)' = Live(p) /\ (p \in quiet' => p \in quiet)
        BY <1>0, <2>2, <3>1, <3>2 DEF Uses
      <4> QED  BY <3>1, <4>1, OrderlyKept DEF Alive
    <3>3. ASSUME o \notin clashed' PROVE Orderly(o)'
      <4>1. /\ \A r \in Sides : use[r][o] = "idle"
            /\ Orderly(o)
        BY <2>2, <3>1, <3>3, TwoSides DEF Busy, Uses
      <4>2. Live(o) = {}
        BY <1>n, <2>2, <4>1 DEF Orderly
      <4>3. Live(o)' = {}
        BY <1>0, <3>1, <4>2
      <4> QED  BY <3>1, <4>1, <4>3, TwoSides DEF Orderly, Busy
    <3>4. InHand' /\ NoCrash'
      BY <3>1 DEF Uses, InHand, NoCrash, Busy
    <3> QED  BY <3>2, <3>3, <3>4 DEF Uses
  <2> QED  BY <1>5, <2>1, <2>2 DEF StopTest
<1>6. ASSUME Starting(s, o) PROVE Uses'
  <2>1. PICK d \in Nat : StartPost(s, o, d)
    BY <1>6, DelaysAssumption DEF Starting
  <2>2. PICK t : t = made[s][o]
    OBVIOUS
  <2>3. /\ t \in Fresh /\ armed' = armed \cup {t} /\ cancelled' = cancelled
        /\ maker' = [maker EXCEPT ![t] = o]
    BY <2>1, <2>2 DEF StartPost, AddDelayTask, AddNested
  <2>4. t \in Timers /\ t \notin armed
    BY <2>3 DEF Fresh, TimersKept
  <2>5. /\ Live(o)' \subseteq Live(o) \cup {t}
        /\ \A p \in Objects \ {o} : Live(p)' \subseteq Live(p)
    BY <2>3, <2>4 DEF Live, TType, TypeOK
  <2>6. /\ use' = [use EXCEPT ![s][o] = "assign"] /\ use[s][o] = "post" /\ Busy(s, o)
        /\ UNCHANGED <<calls, task, made, quiet, clashed, crashed>>
    BY <2>1 DEF StartPost, Busy
  <2>7. ASSUME o \notin clashed' PROVE Orderly(o)'
    <3>1. Orderly(o) /\ use[Other(s)][o] = "idle"
      BY <1>2, <2>6, <2>7
    <3>2. Live(o) = {} /\ o \notin quiet
      BY <2>6, <3>1 DEF Orderly
    <3>3. Alive(o)'
      BY <1>h, <2>6 DEF Alive, calls
    <3>4. Live(o)' \subseteq {made'[s][o]} /\ o \notin quiet'
      BY <2>2, <2>5, <2>6, <3>2
    <3> QED  BY <1>3, <2>6, <3>1, <3>3, <3>4
  <2> QED  BY <1>1, <2>5, <2>6, <2>7
<1>7. CASE StartAssign(s, o)
  <2>1. /\ use' = [use EXCEPT ![s][o] = "idle"] /\ use[s][o] = "assign" /\ Busy(s, o)
        /\ UNCHANGED <<vars, calls, maker, quiet, clashed, crashed>>
        /\ task' = [task EXCEPT ![o] = made[s][o]] /\ made' = [made EXCEPT ![s][o] = None]
    BY <1>7 DEF StartAssign, Busy
  <2>2. ASSUME o \notin clashed' PROVE Orderly(o)'
    <3>1. Orderly(o) /\ use[Other(s)][o] = "idle"
      BY <1>2, <2>1, <2>2
    <3>2. Live(o) \subseteq {made[s][o]} /\ task'[o] = made[s][o] /\ (o \in quiet => Live(o) = {})
      BY <2>1, <3>1 DEF Orderly, TType
    <3>3. Alive(o)'
      BY <1>h, <2>1 DEF Alive, calls
    <3> QED  BY <1>0, <1>3, <2>1, <3>1, <3>2, <3>3
  <2>3. \A p \in Objects \ {o} : /\ task'[p] = task[p]
                                 /\ \A r \in Sides : made'[r][p] = made[r][p]
    BY <2>1 DEF TType
  <2> QED  BY <1>0, <1>1, <2>1, <2>2, <2>3
<1>8. CASE StopCancel(s, o)
  <2>1. PICK t \in Seen(s, o) :
          IF t = None THEN crashed' = TRUE /\ UNCHANGED <<vars, use>>
          ELSE /\ CancelJob(t) /\ use' = [use EXCEPT ![s][o] = "null"] /\ UNCHANGED crashed
    BY <1>8 DEF StopCancel
  <2>2. /\ use[s][o] = "cancel" /\ Busy(s, o)
        /\ UNCHANGED <<calls, task, made, maker, quiet, clashed>>
    BY <1>8 DEF StopCancel, Busy
  <2>3. CASE t = None
    <3>1. o \in clashed
      <4> SUFFICES ASSUME o \notin clashed PROVE FALSE
        OBVIOUS
      <4> QED  BY <1>2, <2>1, <2>2, <2>3 DEF Orderly
    <3>2. UNCHANGED <<vars, use, task, made, maker, quiet, clashed, held, phase, locked>>
      BY <2>1, <2>2, <2>3 DEF calls
    <3>3. ASSUME NEW p \in Objects \ clashed' PROVE Orderly(p)'
      <4>1. Orderly(p)
        BY <3>2, <3>3 DEF Uses
      <4> QED  BY <1>0, <3>2, <4>1, OrderlyKept DEF Alive
    <3>4. InHand' /\ NoCrash'
      BY <3>1, <3>2 DEF Uses, InHand, NoCrash, Busy
    <3> QED  BY <3>3, <3>4 DEF Uses
  <2>4. CASE t # None
    <3>1. /\ use' = [use EXCEPT ![s][o] = "null"] /\ crashed' = crashed
          /\ armed' = armed /\ (cancelled' = cancelled \/ cancelled' = cancelled \cup {t})
          /\ t \in armed => t \in cancelled'
      BY <2>1, <2>4, CancelKeeps
    <3>2. \A p : Live(p)' \subseteq Live(p) /\ t \notin Live(p)'
      BY <2>2, <3>1 DEF Live
    <3>3. ASSUME o \notin clashed' PROVE Orderly(o)'
      <4>1. Orderly(o) /\ use[Other(s)][o] = "idle" /\ t = task[o]
        BY <1>2, <2>1, <2>2, <3>3
      <4>2. \A r \in Sides : use[r][o] \in {"idle", "cancel"}
        BY <2>2, <4>1, TwoSides
      <4>3. Live(o) \subseteq {task[o]}
        BY <4>1, <4>2 DEF Orderly
      <4>4. Live(o)' = {}
        BY <3>2, <4>1, <4>3
      <4> QED  BY <1>3, <3>1, <4>1, <4>4
    <3> QED  BY <1>1, <2>2, <3>1, <3>2, <3>3
  <2> QED  BY <2>3, <2>4
<1>9. CASE StopNull(s, o)
  <2>1. /\ use' = [use EXCEPT ![s][o] = "idle"] /\ use[s][o] = "null" /\ Busy(s, o)
        /\ UNCHANGED <<vars, calls, made, maker, clashed, crashed>>
        /\ task' = [task EXCEPT ![o] = None] /\ quiet' = quiet \cup {o}
    BY <1>9 DEF StopNull, Busy
  <2>2. ASSUME o \notin clashed' PROVE Orderly(o)'
    <3>1. Orderly(o) /\ use[Other(s)][o] = "idle"
      BY <1>2, <2>1, <2>2
    <3>2. Live(o) = {}
      BY <2>1, <3>1 DEF Orderly
    <3>3. Live(o)' = {}
      BY <1>0, <2>1, <3>2
    <3> QED  BY <1>3, <2>1, <3>1, <3>3
  <2>3. \A p \in Objects \ {o} : task'[p] = task[p] /\ (p \in quiet' => p \in quiet)
    BY <2>1 DEF TType
  <2> QED  BY <1>0, <1>1, <2>1, <2>2, <2>3
<1> QED  BY <1>4, <1>5, <1>6, <1>7, <1>8, <1>9 DEF GoesOn

\* A destructor leaves no job behind.
LEMMA DestroyOrderly ==
    ASSUME TypeOK, TType, Uses, NEW o \in Objects, Destroy(o),
           \A s \in Sides : ~Busy(s, o), UNCHANGED <<use, made, maker, clashed>>,
           \A p \in Objects \ {o} : Alive(p) => Alive(p)'
    PROVE  \A p \in Objects \ clashed' : Orderly(p)'
<1>n. None \notin Timers /\ \A p : Live(p) \subseteq Timers
  BY ObjectAssumption DEF Live, TypeOK
<1>1. /\ armed' = armed /\ (cancelled' = cancelled \/ cancelled' = cancelled \cup {task[o]})
      /\ task[o] \in armed => task[o] \in cancelled'
      /\ task' = [task EXCEPT ![o] = None] /\ quiet' = quiet \cup {o}
  BY DestroyKeeps
<1>2. \A p : Live(p)' \subseteq Live(p) /\ task[o] \notin Live(p)'
  BY <1>1 DEF Live
<1>3. ASSUME NEW p \in Objects \ clashed', p # o PROVE Orderly(p)'
  <2>1. Orderly(p) /\ task'[p] = task[p] /\ (p \in quiet' => p \in quiet)
    BY <1>1, <1>3 DEF Uses, TType
  <2> QED  BY <1>2, <1>3, <2>1, OrderlyKept
<1>4. ASSUME o \notin clashed' PROVE Orderly(o)'
  <2>1. Orderly(o) /\ \A r \in Sides : use[r][o] = "idle" /\ use'[r][o] = "idle"
    BY <1>4 DEF Uses, Busy
  <2>2. Live(o) \subseteq {task[o]}
    BY <2>1 DEF Orderly
  <2>3. Live(o)' = {}
    BY <1>2, <2>2
  <2> QED  BY <2>1, <2>3, TwoSides DEF Orderly, Busy
<1> QED  BY <1>3, <1>4

\* Each step keeps it known which job of a Timer may be live.
LEMMA TimerUses ==
    /\ TypeOK /\ Passing /\ TimersKept /\ TType /\ Phases /\ Uses
    /\ [TNext]_allVars
    => Uses'
<1> SUFFICES ASSUME TypeOK, Passing, TimersKept, TType, Phases, Uses, [TNext]_allVars
             PROVE  Uses'
  OBVIOUS
<1>1. ASSUME UNCHANGED <<uses, held>>, \A o \in Objects : Live(o)' \subseteq Live(o),
             phase = "body" => UNCHANGED <<phase, locked>>,
             \A o \in Objects : Alive(o) => Alive(o)'
      PROVE  Uses'
  <2>1. ASSUME NEW o \in Objects \ clashed' PROVE Orderly(o)'
    <3>1. Orderly(o)
      BY <1>1, <2>1 DEF uses, Uses
    <3> QED  BY <1>1, <2>1, <3>1, OrderlyKept DEF uses
  <2>2. InHand' /\ NoCrash'
    BY <1>1 DEF uses, Uses, InHand, NoCrash, Busy
  <2> QED  BY <2>1, <2>2 DEF Uses
<1>2. ASSUME armed' \ cancelled' \subseteq armed \ cancelled, UNCHANGED maker
      PROVE  \A o : Live(o)' \subseteq Live(o)
  BY <1>2 DEF Live
<1>3. CASE Loop
  <2>1. armed' = armed /\ cancelled' = cancelled
    BY <1>3 DEF Loop, Tick, Schedule, Merge, EnterWait, TimedOut, HandleEvents
  <2> QED  BY <1>1, <1>2, <1>3, <2>1 DEF Loop, timerVars, calls, Alive
<1>4. CASE OtherJobs
  <2>1. UNCHANGED <<uses, held, maker, phase, locked>> /\ \A o \in Objects : Alive(o) => Alive(o)'
    BY <1>4 DEF OtherJobs, timerVars, calls, Alive
  <2>2. ASSUME NEW t \in Timers, maker[t] = None, armed' = armed \cup {t}, cancelled' = cancelled
        PROVE  \A o \in Objects : Live(o)' \subseteq Live(o)
    BY <2>1, <2>2, ObjectAssumption DEF Live
  <2>3. ASSUME NEW t \in Timers, Cancel(t) PROVE \A o \in Objects : Live(o)' \subseteq Live(o)
    BY <1>2, <2>1, <2>3 DEF Cancel
  <2>4. ASSUME NEW r, Return(r) PROVE \A o \in Objects : Live(o)' \subseteq Live(o)
    BY <1>2, <2>1, <2>4 DEF Return
  <2>5. Unused \subseteq Timers
    BY DEF Unused, Fresh
  <2>6. \A o \in Objects : Live(o)' \subseteq Live(o)
    BY <1>4, <2>2, <2>3, <2>4, <2>5 DEF OtherJobs, AddDelayTask, AddNested
  <2> QED  BY <1>1, <2>1, <2>6
<1>5. CASE Enter
  <2>1. phase # "body"
    BY <1>5 DEF Enter, CallDue, Phases
  <2>2. armed' \ cancelled' \subseteq armed \ cancelled
    BY <1>5 DEF Enter, CallDue
  <2> QED  BY <1>1, <1>2, <1>5, <2>1, <2>2 DEF Enter, Alive
<1>6. CASE Lock
  <2>1. armed' \subseteq armed /\ cancelled' = cancelled
    BY <1>6 DEF Lock, vars, Return
  <2>2. locked = None /\ phase # "body" /\ UNCHANGED <<held, uses, maker>>
    BY <1>6 DEF Lock, Phases
  <2>3. \A o \in Objects : Alive(o) => Alive(o)'
    BY <2>2, ObjectAssumption DEF Alive
  <2> QED  BY <1>1, <1>2, <2>1, <2>2, <2>3
<1>7. CASE BodyEnds
  <2>1. /\ locked \in Objects /\ locked' = None /\ ~Busy("poller", locked)
        /\ UNCHANGED <<held, use, made, maker, clashed, crashed>>
    BY <1>7, LockedMadeIt DEF BodyEnds
  <2>2. InHand' /\ NoCrash'
    BY <2>1 DEF Uses, InHand, NoCrash, Busy
  <2>3. CASE locked \in held
    <3>1. UNCHANGED <<uses, vars>>
      BY <1>7, <2>1, <2>3 DEF BodyEnds, uses
    <3>2. ASSUME NEW o \in Objects \ clashed' PROVE Orderly(o)'
      <4>1. Orderly(o) /\ Live(o)' = Live(o) /\ (Alive(o) => Alive(o)')
        BY <2>1, <2>3, <3>1, <3>2 DEF Uses, Alive, Live, vars
      <4> QED  BY <3>1, <3>2, <4>1, OrderlyKept DEF uses
    <3> QED  BY <2>2, <3>2 DEF Uses
  <2>4. CASE locked \notin held
    <3>1. \A s \in Sides : ~Busy(s, locked)
      BY <2>1, <2>4, TwoSides DEF Uses, InHand
    <3>2. Destroy(locked)
      BY <1>7, <2>4 DEF BodyEnds
    <3>3. \A p \in Objects \ {locked} : Alive(p) => Alive(p)'
      BY <2>1 DEF Alive
    <3> QED  BY <2>1, <2>2, <3>1, <3>2, <3>3, DestroyOrderly DEF Uses
  <2> QED  BY <2>3, <2>4
<1>8. CASE OnTimeReturns
  <2>1. armed' \subseteq armed /\ cancelled' = cancelled /\ phase # "body"
    BY <1>8 DEF OnTimeReturns, Return
  <2> QED  BY <1>1, <1>2, <1>8, <2>1 DEF OnTimeReturns, Alive
<1>9. ASSUME NEW o \in Objects, Drop(o) PROVE Uses'
  <2>1. /\ held' = held \ {o} /\ ~Busy("owner", o)
        /\ UNCHANGED <<locked, phase, use, made, maker, clashed, crashed>>
    BY <1>9 DEF Drop
  <2>2. InHand' /\ NoCrash'
    BY <2>1 DEF Uses, InHand, NoCrash, Busy
  <2>3. CASE o = locked
    <3>1. UNCHANGED <<uses, vars>>
      BY <1>9, <2>1, <2>3 DEF Drop, uses
    <3>2. ASSUME NEW p \in Objects \ clashed' PROVE Orderly(p)'
      <4>1. Orderly(p) /\ Live(p)' = Live(p) /\ (Alive(p) => Alive(p)')
        BY <2>1, <2>3, <3>1, <3>2 DEF Uses, Alive, Live, vars
      <4> QED  BY <3>1, <3>2, <4>1, OrderlyKept DEF uses
    <3> QED  BY <2>2, <3>2 DEF Uses
  <2>4. CASE o # locked
    <3>1. \A s \in Sides : ~Busy(s, o)
      BY <2>1, <2>4, TwoSides DEF Uses, InHand
    <3>2. Destroy(o)
      BY <1>9, <2>4 DEF Drop
    <3>3. \A p \in Objects \ {o} : Alive(p) => Alive(p)'
      BY <2>1 DEF Alive
    <3> QED  BY <2>1, <2>2, <3>1, <3>2, <3>3, DestroyOrderly DEF Uses
  <2> QED  BY <2>3, <2>4
<1>10. ASSUME NEW o \in Objects, Torn(o) PROVE Uses'
  <2>1. /\ crashed' /\ UNCHANGED <<vars, task, use, made, maker, quiet, clashed>>
        /\ UNCHANGED <<held, locked, phase>>
    BY <1>10 DEF Torn, calls
  <2>2. Busy("owner", o) /\ Busy("poller", o)
    BY <1>10, TwoSides DEF Torn, Busy
  <2>3. o \in clashed
    BY <2>2 DEF Uses, Orderly
  <2>4. ASSUME NEW p \in Objects \ clashed' PROVE Orderly(p)'
    <3>1. Orderly(p) /\ Live(p)' = Live(p) /\ (Alive(p) => Alive(p)')
      BY <2>1, <2>4 DEF Uses, Alive, Live, vars
    <3> QED  BY <2>1, <2>4, <3>1, OrderlyKept
  <2>5. InHand' /\ NoCrash'
    BY <2>1, <2>3 DEF Uses, InHand, NoCrash, Busy
  <2> QED  BY <2>4, <2>5 DEF Uses
<1>11. CASE Ended \/ UNCHANGED allVars
  <2>1. UNCHANGED <<uses, held, locked, phase, maker, armed, cancelled>>
    BY <1>11 DEF Ended, allVars, timerVars, calls, vars
  <2> QED  BY <1>1, <1>2, <2>1 DEF Alive
<1>12. "owner" \in Sides /\ "poller" \in Sides
  BY TwoSides
<1> QED
  BY <1>3, <1>4, <1>5, <1>6, <1>7, <1>8, <1>9, <1>10, <1>11, <1>12, CallsOrderly
  DEF TNext, Running, Callback

\* So a job that is live is the only one of its Timer.
LEMMA LiveOnce ==
    TypeOK /\ TType /\ Uses => OneLiveJob /\ StopHolds /\ NoCrash
<1> SUFFICES ASSUME TypeOK, TType, Uses PROVE OneLiveJob /\ StopHolds /\ NoCrash
  OBVIOUS
<1>1. ASSUME NEW o \in Objects \ clashed, NEW t \in Live(o)
      PROVE  /\ Live(o) = {t} /\ Alive(o)
             /\ task[o] = t \/ \E s \in Sides : use[s][o] = "assign" /\ made[s][o] = t
  <2>1. Orderly(o)
    BY DEF Uses
  <2>2. Alive(o) /\ \A s \in Sides : use[s][o] \notin {"post", "null"}
    BY <2>1 DEF Orderly
  <2>3. CASE \E s \in Sides : use[s][o] = "assign"
    <3>1. PICK s \in Sides : use[s][o] = "assign"
      BY <2>3
    <3>2. Live(o) \subseteq {made[s][o]}
      BY <2>1, <3>1 DEF Orderly
    <3> QED  BY <2>2, <3>1, <3>2
  <2>4. CASE \A s \in Sides : use[s][o] # "assign"
    <3>1. \A s \in Sides : use[s][o] \in {"idle", "cancel"}
      BY <2>2, <2>4 DEF TType
    <3>2. Live(o) \subseteq {task[o]}
      BY <2>1, <3>1 DEF Orderly
    <3> QED  BY <2>2, <3>2
  <2> QED  BY <2>3, <2>4
<1>2. OneLiveJob
  BY <1>1 DEF OneLiveJob
<1>3. StopHolds
  <2>1. ASSUME NEW o \in quiet \ clashed PROVE Live(o) = {}
    <3>1. Orderly(o)
      BY DEF Uses, TType
    <3> QED  BY <3>1 DEF Orderly
  <2> QED  BY <2>1 DEF StopHolds
<1> QED  BY <1>2, <1>3 DEF Uses
-----------------------------------------------------------------------------
(* Timer objects: the rhythm of the calls. *)

\* Each step keeps a period between the calls.
LEMMA TimerRhythm ==
    /\ DelayInv /\ TType /\ Phases /\ Uses /\ Rhythm
    /\ [TNext]_allVars
    => Rhythm'
<1> SUFFICES ASSUME DelayInv, TType, Phases, Uses, Rhythm, [TNext]_allVars
             PROVE  Rhythm'
  OBVIOUS
<1>i. TypeOK /\ Passing /\ OnePlace /\ TimersKept
  BY DEF DelayInv
<1>k. \A e \in Known : e \in TimerSet /\ e.timer \in Timers /\ e.deadline \in Nat
  BY <1>i DEF Known, TypeOK, TimerSet
<1>m. \A e \in Known : MayFire(e) =>
        /\ maker[e.timer] \in Objects /\ period[e.timer] \in Nat
        /\ fired[maker[e.timer]].at \in Int
  BY <1>k DEF MayFire, TType
<1>f. \A o \in Objects : fired[o].at \in Int /\ fired[o].at <= cur
  BY DEF TType, Rhythm
<1>c. cur \in Nat /\ now \in Nat /\ cur <= now
  BY <1>i DEF TypeOK
\* Nothing is added, and no phase begins.
<1>1. ASSUME UNCHANGED <<calling, fired, maker, period, cur>>, Known' \subseteq Known,
             cancelled \subseteq cancelled', phase' = "lock" => phase = "lock",
             clashed \subseteq clashed'
      PROVE  Rhythm'
  <2>1. \A e \in Known' : MayFire(e)' => MayFire(e) /\ e \in Known
    BY <1>1 DEF MayFire
  <2> QED  BY <1>1, <2>1 DEF Rhythm
\* A job is added.
<1>2. ASSUME NEW s \in Sides, NEW o \in Objects, NEW d \in Nat, Starts(s, o, d)
      PROVE  Rhythm'
  <2>t. PICK t : t = made[s][o]
    OBVIOUS
  <2>x. PICK x : x = Timer(t, now + d)
    OBVIOUS
  <2>1. t \in Fresh /\ t \in Timers /\ x.timer = t /\ x.deadline = now + d
    BY <1>2, <2>t, <2>x DEF Starts, Fresh, Timer
  <2>s. /\ UNCHANGED <<fired, phase, clashed, calling, cur, cancelled>>
        /\ Known' = Known \cup {x}
        /\ maker' = [maker EXCEPT ![t] = o] /\ period' = [period EXCEPT ![t] = d]
    BY <1>2, <2>t, <2>x DEF Starts, StartPost, calls
  <2>2. maker'[t] = o /\ period'[t] = d
    BY <2>1, <2>s DEF TType
  <2>3. \A e \in Known : maker'[e.timer] = maker[e.timer] /\ period'[e.timer] = period[e.timer]
    BY <1>k, <2>1, <2>s DEF Fresh, TType
  <2>4. \A e \in Known : MayFire(e)' => MayFire(e)
    BY <2>s, <2>3 DEF MayFire
  <2>5. fired[o].at + d <= x.deadline /\ cur + d <= x.deadline
    BY <1>c, <1>f, <2>1
  <2>6. Known' = Known \cup {x}
    BY <2>s
  <2>7. \A p \in Objects : fired'[p].at <= cur'
    BY <1>f, <2>s
  <2>8. \A e \in Known' : MayFire(e)' => fired'[maker'[e.timer]].at + period'[e.timer] <= e.deadline
    BY <2>1, <2>2, <2>3, <2>4, <2>5, <2>s DEF Rhythm
  <2>9. ASSUME NEW c \in calling', NEW e \in Known' \ calling',
               phase' = "lock", MayFire(e)', maker'[e.timer] = maker'[c.timer]
        PROVE  cur' + period'[e.timer] <= e.deadline
    <3>1. c \in Known /\ c \in calling /\ phase = "lock"
      BY <2>s, <2>9 DEF Known
    <3>2. CASE e = x
      BY <2>s, <2>1, <2>2, <2>5, <3>2
    <3>3. CASE e \in Known
      BY <2>s, <2>3, <2>4, <2>9, <3>1, <3>3 DEF Rhythm
    <3> QED  BY <2>6, <2>9, <3>2, <3>3
  <2> QED  BY <2>7, <2>8, <2>9 DEF Rhythm
\* A callback returns the period, or no Timer made its job.
<1>3. ASSUME NEW r \in Nat, Return(r), phase' = "none",
             UNCHANGED <<fired, maker, period, clashed>>,
             r = 0 \/ maker[Job.timer] = None \/ r = period[Job.timer]
      PROVE  Rhythm'
  <2>x. PICK x : x = Timer(Job.timer, cur + r)
    OBVIOUS
  <2>1. calling = {Job} /\ Job \in Known
    BY <1>3, <1>i, JobIsCalled DEF Return, Known
  <2>2. x.timer = Job.timer /\ x.deadline = cur + r
    BY <2>x DEF Timer
  <2>3. /\ Known' \subseteq (Known \ calling) \cup (IF r > 0 THEN {x} ELSE {})
        /\ UNCHANGED <<cur, cancelled>> /\ calling' = {}
    BY <1>3, <1>i, <2>1, <2>x DEF Return, Known, OnePlace
  <2>4. \A e \in Known' \cap Known : e \notin calling => (MayFire(e)' => MayFire(e))
    BY <1>3, <2>3 DEF MayFire
  <2>5. r > 0 /\ MayFire(x)' => fired[maker[x.timer]].at + period[x.timer] <= x.deadline
    <3>1. SUFFICES ASSUME r > 0, maker[x.timer] # None
                   PROVE  fired[maker[x.timer]].at + period[x.timer] <= x.deadline
      BY <1>3 DEF MayFire
    <3>2. x.timer \in Timers /\ maker[x.timer] \in Objects /\ period[x.timer] = r
      BY <1>3, <1>k, <2>1, <2>2, <3>1 DEF TType
    <3> QED  BY <1>c, <1>f, <2>2, <3>2
  <2>6. ASSUME NEW e \in Known', MayFire(e)'
        PROVE  fired[maker[e.timer]].at + period[e.timer] <= e.deadline
    <3>1. CASE e \in Known \ calling
      BY <2>4, <2>6, <3>1 DEF Rhythm
    <3>2. CASE r > 0 /\ e = x
      BY <2>5, <2>6, <3>2
    <3> QED  BY <2>3, <3>1, <3>2
  <2> QED  BY <1>3, <1>f, <2>3, <2>6 DEF Rhythm
<1>4. CASE Loop
  <2>1. CASE Schedule
    <3>1. /\ calling = {} /\ calling' = {} /\ Known' = Known /\ cancelled' = cancelled
          /\ cur' = now /\ UNCHANGED <<fired, maker, period, phase, clashed>>
      BY <1>4, <1>i, <2>1 DEF Loop, Schedule, timerVars, calls, uses, Passing, Known
    <3>2. \A e \in Known' : MayFire(e)' => MayFire(e) /\ e \in Known
      BY <3>1 DEF MayFire
    <3>3. \A o \in Objects : fired'[o].at <= cur'
      BY <1>c, <1>f, <3>1
    <3> QED  BY <3>1, <3>2, <3>3 DEF Rhythm
  <2>2. CASE Tick \/ Merge \/ EnterWait \/ TimedOut \/ HandleEvents
    <3>1. UNCHANGED <<calling, cur, cancelled>>
      BY <2>2 DEF Tick, Merge, EnterWait, TimedOut, HandleEvents
    <3>2. Known' = Known
      BY <2>2 DEF Known, Tick, Merge, EnterWait, TimedOut, HandleEvents
    <3> QED  BY <1>1, <1>4, <3>1, <3>2 DEF Loop, timerVars, calls, uses
  <2> QED  BY <1>4, <2>1, <2>2 DEF Loop
<1>5. CASE OtherJobs
  <2>u. UNCHANGED <<held, locked, phase, fired, maker, period, clashed>>
    BY <1>5 DEF OtherJobs, timerVars, calls, uses
  <2>t. Unused \subseteq Timers
    BY DEF Unused, Fresh
  <2>1. ASSUME NEW t \in Timers, NEW n, maker[t] = None, Known' = Known \cup {Timer(t, n)},
               UNCHANGED <<calling, cur, cancelled>>
        PROVE  Rhythm'
    <3>1. Timer(t, n).timer = t
      BY DEF Timer
    <3>2. \A e \in Known' : MayFire(e)' => e \in Known /\ MayFire(e)
      BY <2>1, <2>u, <3>1 DEF MayFire
    <3>3. calling' \subseteq Known
      BY <2>1 DEF Known
    <3> QED  BY <2>1, <2>u, <3>2, <3>3 DEF Rhythm
  <2>2. ASSUME NEW t \in Timers, Cancel(t) PROVE Rhythm'
    BY <1>1, <2>2, <2>u DEF Cancel, Known
  <2>3. ASSUME NEW r \in Periods, Return(r), phase = "none" PROVE Rhythm'
    <3>1. Job \in calling
      BY <1>i, <2>3, JobIsCalled DEF Return
    <3>2. maker[Job.timer] = None
      BY <2>3, <3>1 DEF Phases
    <3> QED  BY <1>3, <2>3, <2>u, <3>2, DelaysAssumption
  <2>4. ASSUME NEW t \in Timers, NEW d \in Delays, maker[t] = None, AddDelayTask(t, d)
        PROVE  Rhythm'
    BY <2>1, <2>4 DEF AddDelayTask, Known
  <2>5. ASSUME NEW t \in Timers, NEW d \in NestedDelays, maker[t] = None, AddNested(t, d)
        PROVE  Rhythm'
    BY <2>1, <2>5 DEF AddNested, Known
  <2> QED  BY <1>5, <2>t, <2>2, <2>3, <2>4, <2>5 DEF OtherJobs
<1>6. CASE Enter
  <2>1. /\ calling = {} /\ phase = "none"
        /\ UNCHANGED <<fired, maker, period, cur, cancelled, added, delay_tasks, clashed>>
    BY <1>6, <1>i DEF Enter, CallDue, Passing, Phases, uses
  <2>2. PICK e \in copy : /\ copy' = copy \ {e}
                          /\ \/ calling' = {}
                             \/ e.timer \notin cancelled /\ calling' = {e}
    BY <1>6, <2>1 DEF Enter, CallDue, Due, Earliest
  <2>3. CASE calling' = {}
    <3>1. Known' \subseteq Known /\ phase' = "none"
      BY <1>6, <2>1, <2>2, <2>3 DEF Known, Enter
    <3> QED  BY <1>1, <2>1, <2>3, <3>1
  <2>4. CASE e.timer \notin cancelled /\ calling' = {e}
    <3>1. Known' = Known /\ e \in Known
      BY <2>1, <2>2, <2>4 DEF Known
    <3>2. \A f \in Known : MayFire(f)' => MayFire(f) /\ f.timer \notin cancelled
      BY <2>1, <2>4 DEF MayFire
    <3>3. ASSUME NEW f \in Known, f # e, MayFire(f)', maker[f.timer] = maker[e.timer]
          PROVE  FALSE
      <4>1. f.timer \in armed \ cancelled /\ e.timer \in armed \ cancelled
        BY <1>i, <2>4, <3>1, <3>2, <3>3 DEF TimersKept
      <4>2. PICK o \in Objects \ clashed : maker[f.timer] = o
        BY <1>m, <3>2, <3>3 DEF MayFire
      <4>3. f.timer \in Live(o) /\ e.timer \in Live(o)
        BY <3>3, <4>1, <4>2 DEF Live
      <4>4. f.timer = e.timer
        BY <1>i, <4>3, LiveOnce DEF OneLiveJob
      <4> QED  BY <1>i, <3>1, <3>3, <4>4 DEF TimersKept
    <3> QED  BY <2>1, <2>4, <3>1, <3>2, <3>3 DEF Rhythm
  <2> QED  BY <2>2, <2>3, <2>4
<1>7. CASE Lock
  <2>1. /\ phase = "lock" /\ calling = {Job} /\ Job \in calling /\ Job.timer \in Timers
        /\ maker[Job.timer] \in Objects /\ UNCHANGED <<maker, period, clashed>>
    BY <1>7, <1>i, LockedMadeIt DEF Lock, uses
  <2>2. CASE Alive(maker[Job.timer])
    <3> DEFINE o == maker[Job.timer]
    <3>1. /\ UNCHANGED vars /\ phase' = "body"
          /\ fired' = [fired EXCEPT ![o] = [at |-> cur, period |-> period[Job.timer]]]
      BY <1>7, <2>2 DEF Lock
    <3>2. /\ fired'[o].at = cur
          /\ \A p \in Objects : p # o => fired'[p] = fired[p]
      BY <2>1, <3>1 DEF TType
    <3> HIDE DEF o
    <3>3. UNCHANGED <<Known, calling, cur, cancelled>>
      BY <3>1 DEF vars, Known
    <3>4. \A e \in Known : MayFire(e)' => MayFire(e) /\ e \notin calling
      BY <2>1, <3>1, <3>3 DEF MayFire
    <3>5. \A p \in Objects : fired'[p].at <= cur'
      BY <1>c, <1>f, <3>2, <3>3
    <3>6. ASSUME NEW e \in Known, MayFire(e)'
          PROVE  fired'[maker[e.timer]].at + period[e.timer] <= e.deadline
      <4>1. CASE maker[e.timer] = o
        <5>1. cur + period[e.timer] <= e.deadline
          BY <2>1, <3>4, <3>6, <4>1 DEF Rhythm, o
        <5> QED  BY <3>2, <4>1, <5>1
      <4>2. CASE maker[e.timer] # o
        <5>1. maker[e.timer] \in Objects
          BY <1>m, <3>4, <3>6
        <5> QED  BY <3>2, <3>4, <3>6, <4>2, <5>1 DEF Rhythm
      <4> QED  BY <4>1, <4>2
    <3> QED  BY <2>1, <3>1, <3>3, <3>5, <3>6 DEF Rhythm
  <2>3. CASE ~Alive(maker[Job.timer])
    <3>1. Return(0) /\ phase' = "none" /\ fired' = fired
      BY <1>7, <2>3 DEF Lock
    <3> QED  BY <1>3, <2>1, <3>1
  <2> QED  BY <2>2, <2>3
<1>8. ASSUME UNCHANGED <<added, delay_tasks, copy, calling, cur, fired, maker, period>>,
             cancelled \subseteq cancelled', clashed \subseteq clashed',
             phase' = "lock" => phase = "lock"
      PROVE  Rhythm'
  BY <1>1, <1>8 DEF Known
<1>9. CASE BodyEnds
  <2>1. locked \in Objects /\ UNCHANGED <<fired, maker, period, clashed>> /\ phase' = "return"
    BY <1>9, <1>i, LockedMadeIt DEF BodyEnds
  <2>2. UNCHANGED vars \/ Destroy(locked)
    BY <1>9 DEF BodyEnds
  <2>3. /\ UNCHANGED <<added, delay_tasks, copy, calling, cur>>
        /\ cancelled \subseteq cancelled'
    BY <1>i, <2>2, DestroyKeeps DEF vars
  <2> QED  BY <1>8, <2>1, <2>3
<1>10. CASE OnTimeReturns
  <2>1. period[Job.timer] \in Nat
    BY <1>10, <1>i, LockedMadeIt DEF OnTimeReturns, TType
  <2> QED  BY <1>3, <1>10, <2>1 DEF OnTimeReturns, uses
<1>11. CASE Marks
  BY <1>8, <1>11 DEF Marks, vars, calls
<1>12. ASSUME NEW s \in Sides, NEW o \in Objects, StopCancel(s, o) PROVE Rhythm'
  <2>1. UNCHANGED vars \/ \E t : CancelJob(t)
    BY <1>12 DEF StopCancel
  <2>2. /\ UNCHANGED <<added, delay_tasks, copy, calling, cur>>
        /\ cancelled \subseteq cancelled'
    BY <2>1, CancelKeeps DEF vars
  <2> QED  BY <1>8, <1>12, <2>2 DEF StopCancel, calls
<1>13. ASSUME NEW o \in Objects, Drop(o) PROVE Rhythm'
  <2>1. UNCHANGED vars \/ Destroy(o)
    BY <1>13 DEF Drop
  <2>2. /\ UNCHANGED <<added, delay_tasks, copy, calling, cur>>
        /\ cancelled \subseteq cancelled'
    BY <1>i, <2>1, DestroyKeeps DEF vars
  <2> QED  BY <1>8, <1>13, <2>2 DEF Drop
<1>14. CASE UNCHANGED allVars
  BY <1>8, <1>14 DEF allVars, vars, timerVars, calls, uses
<1> QED
  BY <1>2, <1>4, <1>5, <1>6, <1>7, <1>9, <1>10, <1>11, <1>12, <1>13, <1>14, <1>i, Kinds
\* The invariants hold at first.
LEMMA TimerInit == TInit => DelayInv /\ TimerInv
<1> SUFFICES ASSUME TInit PROVE DelayInv /\ TimerInv
  OBVIOUS
<1>1. DelayInv
  BY DelayInit DEF TInit
<1>2. TType
  <2>1. crashed \in BOOLEAN
    BY DEF TInit
  <2>2. use \in [Sides -> [Objects -> {"idle", "post", "assign", "cancel", "null"}]]
    BY DEF TInit
  <2> QED  BY <2>1, <2>2 DEF TInit, TType
<1>3. Phases
  BY DEF TInit, Init, Phases
<1>4. Uses
  <2>1. \A o \in Objects : Live(o) = {} /\ \A s \in Sides : use[s][o] = "idle"
    BY DEF TInit, Init, Live
  <2>2. \A o \in Objects : Orderly(o)
    BY <2>1, TwoSides DEF Orderly, Busy
  <2>3. InHand /\ NoCrash
    BY <2>1, TwoSides DEF TInit, InHand, NoCrash, Busy
  <2> QED  BY <2>2, <2>3 DEF Uses
<1>5. Rhythm
  <2>1. Known = {} /\ calling = {} /\ cur = 0
    BY DEF TInit, Init, Known
  <2>2. \A o \in Objects : fired[o].at = -1
    BY DEF TInit
  <2> QED  BY <2>1, <2>2 DEF Rhythm
<1> QED  BY <1>1, <1>2, <1>3, <1>4, <1>5 DEF TimerInv

\* Each step keeps them.
LEMMA TimerStep == DelayInv /\ TimerInv /\ [TNext]_allVars => DelayInv' /\ TimerInv'
<1> SUFFICES ASSUME DelayInv, TimerInv, [TNext]_allVars PROVE DelayInv' /\ TimerInv'
  OBVIOUS
<1>1. TypeOK /\ Passing /\ OnePlace /\ TimersKept /\ TType /\ Phases /\ Uses /\ Rhythm
  BY DEF DelayInv, TimerInv
<1>2. DelayInv'
  BY <1>1, TimerTurns, DelayStep
<1>3. TType' /\ Phases'
  BY <1>1, TimerTypes, TimerPhases
<1>4. Uses' /\ Rhythm'
  BY <1>1, TimerUses, TimerRhythm
<1> QED  BY <1>2, <1>3, <1>4 DEF TimerInv

\* A call of on_timer_ is the step that locks the Timer; its job is due.
LEMMA ApartStep ==
    DelayInv /\ TimerInv /\ [TNext]_allVars
    => \A o \in Objects \ clashed : locked # o /\ locked' = o /\ fired[o].at >= 0
          => fired'[o].at - fired[o].at >= fired'[o].period
<1> SUFFICES ASSUME DelayInv, TimerInv, [TNext]_allVars,
                    NEW o \in Objects \ clashed, locked # o, locked' = o
             PROVE  fired'[o].at - fired[o].at >= fired'[o].period
  OBVIOUS
<1>i. TypeOK /\ Passing /\ OnePlace /\ TimersKept /\ TType /\ Phases /\ Uses /\ Rhythm
  BY DEF DelayInv, TimerInv
<1>1. Lock
  <2>1. o # None
    BY ObjectAssumption
  <2>2. TNext
    BY DEF allVars, timerVars, calls
  <2>3. \A p \in Objects, s \in Sides :
          /\ StopCancel(s, p) => locked' = locked
          /\ \A d \in Nat : Starts(s, p, d) => locked' = locked
    BY DEF StopCancel, Starts, StartPost, calls
  <2>4. Marks \/ Loop \/ OtherJobs \/ Enter \/ OnTimeReturns => locked' = locked
    BY DEF Marks, Loop, OtherJobs, Enter, OnTimeReturns, timerVars, calls
  <2>5. \A p \in Objects : Drop(p) => locked' = locked
    BY DEF Drop
  <2>6. BodyEnds => locked' = None
    BY DEF BodyEnds
  <2> QED  BY <1>i, <2>1, <2>2, <2>3, <2>4, <2>5, <2>6, Kinds
<1>2. /\ phase = "lock" /\ Job \in calling /\ Job.timer \in Timers
      /\ maker[Job.timer] \in Objects /\ ppc = "call"
  BY <1>1, <1>i, LockedMadeIt DEF Lock
<1>l. locked' = maker[Job.timer]
  BY <1>1 DEF Lock, Alive, Phases, vars
<1>3. fired' = [fired EXCEPT ![maker[Job.timer]] = [at |-> cur, period |-> period[Job.timer]]]
  BY <1>1 DEF Lock
<1>4. maker[Job.timer] = o /\ fired'[o].at = cur /\ fired'[o].period = period[Job.timer]
  BY <1>l, <1>2, <1>3, <1>i DEF TType
<1>5. Job.deadline <= cur /\ Job.deadline \in Nat
  BY <1>2, <1>i, JobIsCalled DEF TypeOK, TimerSet
<1>6. MayFire(Job) /\ Job \in Known
  BY <1>2, <1>4, ObjectAssumption DEF MayFire, Known
<1>7. fired[o].at + period[Job.timer] <= Job.deadline
  BY <1>4, <1>6, <1>i DEF Rhythm
<1>8. cur \in Nat /\ fired[o].at \in Int /\ period[Job.timer] \in Nat
  BY <1>2, <1>i DEF TypeOK, TType
<1> QED  BY <1>4, <1>5, <1>7, <1>8

\* They always hold.
LEMMA TimersInvariant == TSpec => [](DelayInv /\ TimerInv)
<1>1. TInit => DelayInv /\ TimerInv
  BY TimerInit
<1>2. DelayInv /\ TimerInv /\ [TNext]_allVars => (DelayInv /\ TimerInv)'
  BY TimerStep
<1> QED  BY <1>1, <1>2, PTL DEF TSpec

-----------------------------------------------------------------------------
(* What is promised, with Timer objects and other jobs on one poller. *)

\* Timers, jobs and the members of a Timer keep to their types, at whatever moment a
\* Timer is started, stopped or destroyed (Timer.cc:8-54).
THEOREM Typing == TSpec => [](TypeOK /\ TType)
<1>1. DelayInv /\ TimerInv => TypeOK /\ TType
  BY DEF DelayInv, TimerInv
<1> QED  BY <1>1, TimersInvariant, PTL

\* No delayed job is lost or doubled on its way through the pipe, the multimap, the
\* copy of a pass and its own callback (EventPoller.cc:305-307, 367-383).
THEOREM NoneLost == TSpec => []TimersKept
<1>1. DelayInv /\ TimerInv => TimersKept
  BY DEF DelayInv
<1> QED  BY <1>1, TimersInvariant, PTL

\* epoll_wait is given a time-out that wakes the loop for the first deadline, whenever
\* that deadline is later than the pass and an int can say the difference
\* (EventPoller.cc:361-389, 44).
THEOREM LoopWakes == TSpec => []WakesInTime
<1>1. DelayInv /\ TimerInv => WakesInTime
  BY WaitingWakes
<1> QED  BY <1>1, TimersInvariant, PTL

\* Callbacks run in the order of their deadlines, over everything that is added or put
\* back while they run (EventPoller.cc:364-383).
THEOREM CalledInOrder == TSpec => []DeadlineOrder
<1>1. DelayInv /\ TimerInv => DeadlineOrder
  BY DEF DelayInv
<1> QED  BY <1>1, TimersInvariant, PTL

\* A Timer whose sides have not gone on with delay_task_ at once has one job at most
\* that will call it, and it is delay_task_ or about to be, over all interleavings of
\* the steps of start, stop and destruction with the calls (Timer.cc:8-32).
THEOREM OneJob == TSpec => []OneLiveJob
<1>1. DelayInv /\ TimerInv => OneLiveJob
  BY LiveOnce DEF DelayInv, TimerInv
<1> QED  BY <1>1, TimersInvariant, PTL

\* After a stop that did not fall into a start, no job will call the Timer until it is
\* started again (Timer.cc:27-32).
THEOREM StoppedStays == TSpec => []StopHolds
<1>1. DelayInv /\ TimerInv => StopHolds
  BY LiveOnce DEF DelayInv, TimerInv
<1> QED  BY <1>1, TimersInvariant, PTL

\* stop calls cancel on a job, and delay_task_ is written by one thread at a time, as
\* long as the two sides of a Timer do not go on with it at once (Timer.cc:13-16, 28-30).
THEOREM CrashNeedsClash == TSpec => []NoCrash
<1>1. DelayInv /\ TimerInv => NoCrash
  BY LiveOnce DEF DelayInv, TimerInv
<1> QED  BY <1>1, TimersInvariant, PTL

\* Until the sides of a Timer go on with delay_task_ at once, two calls of on_timer_ are
\* a period apart at least, over restarts and over jobs that were stopped when their
\* callback had begun (Timer.cc:16-23, EventPoller.cc:374-378).
THEOREM CallsApart == TSpec => PeriodApart
<1>1. DelayInv /\ TimerInv /\ [TNext]_allVars
      => [\A o \in Objects \ clashed : locked # o /\ locked' = o /\ fired[o].at >= 0
            => fired'[o].at - fired[o].at >= fired'[o].period]_allVars
  BY ApartStep
<1> QED  BY <1>1, TimersInvariant, PTL DEF TSpec, PeriodApart
=============================================================================
