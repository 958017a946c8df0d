------------------------- MODULE EventPoller_proofs -------------------------
(***************************************************************************)
(* Proofs about EventPoller for every number of clients and jobs, every    *)
(* nesting of posts, pipe size and order of use.                           *)
(***************************************************************************)
EXTENDS EventPoller, SequenceTheorems, TLAPS

\* Where the poller thread has a job at hand, the batch holds it.
JobAtHand == ppc = "call" => batch # <<>>
TypeInv == TypeOK /\ JobAtHand

\* What Push does to the queue.
LEMMA PushType ==
  ASSUME tasks \in Seq(Jobs), NEW t \in Jobs, NEW first \in BOOLEAN,
         Push(t, first)
  PROVE  tasks' \in Seq(Jobs) /\ tasks' # <<>>
BY DEF Push

\* The head of a batch that is not empty is a job, and the rest is a batch.
LEMMA BatchHead ==
  ASSUME batch \in Seq(Jobs), batch # <<>>
  PROVE  Head(batch) \in Jobs /\ Tail(batch) \in Seq(Jobs)
OBVIOUS

\* Every variable keeps its type (EventPoller.h:170-195).
THEOREM Typing == Spec => []TypeInv
<1> USE JobsAssumption, PipeAssumption, UseAssumption DEF TypeInv, TypeOK, JobAtHand
<1>1. Init => TypeInv
  <2> SUFFICES ASSUME Init PROVE TypeInv
    OBVIOUS
  <2>1. /\ tasks \in Seq(Jobs) /\ batch \in Seq(Jobs)
        /\ order \in Seq(Tasks) /\ begun \in Seq(Tasks)
    BY DEF Init
  <2>2. AttachPipeEvent(Closed) \in Closed..PipeCap
    BY DEF AttachPipeEvent, ReOpenFD, Closed
  <2> QED
    BY <2>1, <2>2 DEF Init, ClientPoints, PollerPoints
<1>2. TypeInv /\ [Next]_vars => TypeInv'
  <2> SUFFICES ASSUME TypeInv, [Next]_vars PROVE TypeInv'
    OBVIOUS
  <2> USE DEF Goto, ClientPoints, PollerPoints, Closed, queueVars, pollerVars,
              clientVars, jobVars, history
  <2>1. CASE UNCHANGED vars
    BY <2>1 DEF vars
  <2>2. CASE RunLoop
    BY <2>2 DEF RunLoop
  <2>3. CASE AssignThread
    BY <2>3 DEF AssignThread
  <2>4. CASE AwaitStarted
    BY <2>4 DEF AwaitStarted
  <2>5. ASSUME NEW c \in Clients, Share(c) PROVE TypeInv'
    BY <2>5 DEF Share
  <2>6. ASSUME NEW c \in Clients, NEW t \in Tasks, AsyncInline(c, t) PROVE TypeInv'
    BY <2>6 DEF AsyncInline
  <2>7. ASSUME NEW c \in Clients, InlineReturns(c) PROVE TypeInv'
    BY <2>7 DEF InlineReturns
  <2>8. ASSUME NEW c \in Clients, NEW t \in Tasks, NEW first \in BOOLEAN,
               AsyncPush(c, t, first)
        PROVE  TypeInv'
    <3>1. tasks' \in Seq(Jobs)
      BY <2>8, PushType DEF AsyncPush, Jobs
    <3> QED
      BY <2>8, <3>1 DEF AsyncPush
  <2>9. ASSUME NEW c \in Clients, WritePipe(c) PROVE TypeInv'
    BY <2>9 DEF WritePipe, Write
  <2>10. ASSUME NEW t \in Tasks, Cancel(t) PROVE TypeInv'
    BY <2>10 DEF Cancel
  <2>11. ASSUME NEW c \in Clients, Drop(c) PROVE TypeInv'
    BY <2>11 DEF Drop
  <2>12. ASSUME NEW c \in Clients, DtorPost(c) PROVE TypeInv'
    <3>1. tasks' \in Seq(Jobs)
      BY <2>12, PushType DEF DtorPost, Jobs
    <3> QED
      BY <2>12, <3>1 DEF DtorPost
  <2>13. ASSUME NEW c \in Clients, DtorWrite(c) PROVE TypeInv'
    BY <2>13 DEF DtorWrite, Write
  <2>14. ASSUME NEW c \in Clients, Join(c) PROVE TypeInv'
    BY <2>14 DEF Join
  <2>15. ASSUME NEW c \in Clients, Close(c) PROVE TypeInv'
    BY <2>15 DEF Close
  <2>16. CASE ThreadStart \/ Top \/ Wake \/ TimedOut \/ PipeEmpty \/ ReadFails \/ BatchEnds
    BY <2>16 DEF ThreadStart, Top, Wake, TimedOut, PipeEmpty, ReadFails, BatchEnds,
               AttachPipeEvent, ReOpenFD
  <2>17. CASE ReadPipe
    BY <2>17, PipeAssumption DEF ReadPipe, Read, Closed
  <2>18. CASE SwapTasks
    BY <2>18 DEF SwapTasks
  <2>19. CASE TestTask
    BY <2>19, BatchHead DEF TestTask
  <2>20. CASE CallTask
    <3>1. Head(batch) \in Jobs /\ Tail(batch) \in Seq(Jobs)
      BY <2>20, BatchHead DEF CallTask
    <3>2. begun' \in Seq(Tasks)
      <4>1. CASE Head(batch) = ExitJob \/ Head(batch) \in cancelled
        BY <2>20, <4>1 DEF CallTask
      <4>2. CASE Head(batch) \in Tasks /\ Head(batch) # ExitJob /\ Head(batch) \notin cancelled
        <5>1. begun' = Append(begun, Head(batch))
          BY <2>20, <4>2 DEF CallTask
        <5> QED
          BY <4>2, <5>1
      <4> QED
        BY <3>1, <4>1, <4>2 DEF Jobs
    <3> QED
      BY <2>20, <3>1, <3>2 DEF CallTask
  <2>21. CASE NestedPush
    <3>1. Nested[cur] \in Tasks
      BY <2>21 DEF NestedPush
    <3>2. tasks' \in Seq(Jobs)
      BY <2>21, <3>1, PushType DEF NestedPush, Jobs
    <3> QED
      BY <2>21, <3>1, <3>2 DEF NestedPush
  <2>22. CASE NestedWrite
    BY <2>22 DEF NestedWrite, Write
  <2>23. CASE NestedInline
    <3>1. Nested[cur] \in Tasks
      BY <2>23 DEF NestedInline
    <3> QED
      BY <2>23, <3>1 DEF NestedInline
  <2>24. CASE BodyEnds
    BY <2>24 DEF BodyEnds
  <2>25. CASE Over
    BY <2>25 DEF Over, vars
  <2> HIDE DEF TypeInv, TypeOK, JobAtHand, queueVars, pollerVars, clientVars, jobVars, history
  <2> QED
    BY <2>1, <2>2, <2>3, <2>4, <2>5, <2>6, <2>7, <2>8, <2>9, <2>10, <2>11,
       <2>12, <2>13, <2>14, <2>15, <2>16, <2>17, <2>18, <2>19, <2>20, <2>21,
       <2>22, <2>23, <2>24, <2>25
       DEF Next, Step, Starting, InCall, PollerStep
<1> QED
  BY <1>1, <1>2, PTL DEF Spec

-----------------------------------------------------------------------------
\* The reference counts and the join order the end of the poller: a client in a
\* call owns a reference, and the pipe is closed after the loop has ended
\* (EventPoller.cc:139-177).
THEOREM LifecycleKept == Spec => []Lifecycle
<1> USE JobsAssumption
<1>1. Init => Lifecycle
  BY DEF Init, Lifecycle, InUse, Leaving, Ended, Closed, AttachPipeEvent, ReOpenFD
<1>2. TypeInv /\ Lifecycle /\ [Next]_vars => Lifecycle'
  <2> SUFFICES ASSUME TypeInv, Lifecycle, [Next]_vars PROVE Lifecycle'
    OBVIOUS
  <2>0. /\ pc \in [Clients -> ClientPoints] /\ holders \subseteq Clients
        /\ pipe \in Closed..PipeCap /\ batch \in Seq(Jobs) /\ thread \in BOOLEAN
    BY DEF TypeInv, TypeOK
  <2> USE <2>0 DEF Lifecycle, Goto, InUse, Leaving, Ended, queueVars, pollerVars,
                   clientVars
  <2>1. CASE UNCHANGED vars
    BY <2>1 DEF vars
  <2>2. CASE RunLoop
    BY <2>2 DEF RunLoop
  <2>3. CASE AssignThread
    BY <2>3 DEF AssignThread
  <2>4. CASE AwaitStarted
    BY <2>4 DEF AwaitStarted
  <2>5. ASSUME NEW c \in Clients, Share(c) PROVE Lifecycle'
    BY <2>5 DEF Share
  <2>6. ASSUME NEW c \in Clients, NEW t \in Tasks, AsyncInline(c, t) PROVE Lifecycle'
    BY <2>6 DEF AsyncInline, MayPost
  <2>7. ASSUME NEW c \in Clients, InlineReturns(c) PROVE Lifecycle'
    BY <2>7 DEF InlineReturns
  <2>8. ASSUME NEW c \in Clients, NEW t \in Tasks, NEW first \in BOOLEAN,
               AsyncPush(c, t, first)
        PROVE  Lifecycle'
    BY <2>8 DEF AsyncPush, MayPost
  <2>9. ASSUME NEW c \in Clients, WritePipe(c) PROVE Lifecycle'
    BY <2>9, PipeAssumption DEF WritePipe, Write, Closed
  <2>10. ASSUME NEW t \in Tasks, Cancel(t) PROVE Lifecycle'
    BY <2>10 DEF Cancel
  <2>11. ASSUME NEW c \in Clients, Drop(c) PROVE Lifecycle'
    <3>1. CASE holders = {c}
      <4>1. \A d \in Clients \ {c} : pc[d] = "out"
        BY <2>11, <3>1 DEF Drop, ClientPoints
      <4> QED
        BY <2>11, <3>1, <4>1 DEF Drop
    <3>2. CASE holders # {c}
      <4>1. pc' = pc /\ holders' # {}
        BY <2>11, <3>2 DEF Drop
      <4> QED
        BY <2>11, <4>1 DEF Drop
    <3> QED
      BY <3>1, <3>2
  <2>12. ASSUME NEW c \in Clients, DtorPost(c) PROVE Lifecycle'
    <3>1. PICK l \in {"join", "dwrite"} : pc' = [pc EXCEPT ![c] = l]
      BY <2>12 DEF DtorPost
    <3>2. pc[c] = "dtor" /\ UNCHANGED <<pipe, ppc, batch, holders, thread>>
      BY <2>12 DEF DtorPost
    <3>3. holders = {} /\ pc[Owner] # "assign"
      BY <3>2
    <3> QED
      BY <3>1, <3>2, <3>3
  <2>13. ASSUME NEW c \in Clients, DtorWrite(c) PROVE Lifecycle'
    BY <2>13, PipeAssumption DEF DtorWrite, Write, Closed
  <2>14. ASSUME NEW c \in Clients, Join(c) PROVE Lifecycle'
    BY <2>14 DEF Join
  <2>15. ASSUME NEW c \in Clients, Close(c) PROVE Lifecycle'
    BY <2>15 DEF Close
  <2>16. CASE ThreadStart \/ Top \/ Wake \/ TimedOut \/ PipeEmpty \/ ReadFails \/ BatchEnds
    BY <2>16 DEF ThreadStart, Top, Wake, TimedOut, PipeEmpty, ReadFails, BatchEnds,
               AttachPipeEvent, ReOpenFD
  <2>17. CASE ReadPipe
    BY <2>17, PipeAssumption DEF ReadPipe, Read, Closed
  <2>18. CASE SwapTasks
    <3>1. ppc' \in {"top", "run"}
      BY <2>18 DEF SwapTasks
    <3>2. ppc = "swap" /\ UNCHANGED <<pipe, pc, holders, thread>>
      BY <2>18 DEF SwapTasks
    <3> QED
      BY <3>1, <3>2
  <2>19. CASE TestTask
    <3>1. ppc' \in {"run", "call"} /\ (ppc' = "call" => batch' # <<>>)
      BY <2>19 DEF TestTask
    <3>2. ppc = "run" /\ UNCHANGED <<pipe, pc, holders, thread>>
      BY <2>19 DEF TestTask
    <3> QED
      BY <3>1, <3>2
  <2>20. CASE CallTask \/ BodyEnds \/ NestedPush \/ NestedInline
    BY <2>20 DEF CallTask, BodyEnds, NestedPush, NestedInline
  <2>22. CASE NestedWrite
    BY <2>22 DEF NestedWrite, Write
  <2>25. CASE Over
    BY <2>25 DEF Over, vars
  <2> QED
    BY <2>1, <2>2, <2>3, <2>4, <2>5, <2>6, <2>7, <2>8, <2>9, <2>10, <2>11,
       <2>12, <2>13, <2>14, <2>15, <2>16, <2>17, <2>18, <2>19, <2>20, <2>22, <2>25
       DEF Next, Step, Starting, InCall, PollerStep
<1> QED
  BY <1>1, <1>2, Typing, PTL DEF Spec

\* The pipe outlives every thread that reads or writes it (EventPoller.cc:163-170).
THEOREM PipeOutlives == Spec => []PipeOutlivesUsers
<1>1. Lifecycle => PipeOutlivesUsers
  BY DEF Lifecycle, PipeOutlivesUsers, Ended
<1> QED
  BY <1>1, LifecycleKept, PTL

-----------------------------------------------------------------------------
\* A queued job always has somebody who will wake the loop or is about to take
\* the queue (EventPoller.cc:258-290, 425-454).  NoLostWakeup is inductive beside
\* Typing and Lifecycle: Lifecycle says that a pipe that is written is open.
THEOREM WakeupKept == Spec => []NoLostWakeup
<1>1. Init => NoLostWakeup
  BY DEF Init, NoLostWakeup
<1>2. TypeInv /\ Lifecycle /\ NoLostWakeup /\ [Next]_vars => NoLostWakeup'
  <2> SUFFICES ASSUME TypeInv, Lifecycle, NoLostWakeup, [Next]_vars,
                      tasks' # <<>>, pipe' # Closed, ~(pipe' > 0)
               PROVE  Waking' \/ Collecting'
    BY DEF NoLostWakeup
  <2>0. /\ pc \in [Clients -> ClientPoints] /\ pipe \in Closed..PipeCap
        /\ PipeCap \in Nat \ {0} /\ ReadSize \in Nat \ {0}
    BY PipeAssumption DEF TypeInv, TypeOK
  <2> USE <2>0 DEF NoLostWakeup, Waking, Collecting, Goto, queueVars, pollerVars,
                   clientVars, Closed
  <2>1. CASE UNCHANGED vars
    BY <2>1 DEF vars
  <2>2. CASE RunLoop \/ AssignThread \/ AwaitStarted
    BY <2>2 DEF RunLoop, AssignThread, AwaitStarted
  <2>5. ASSUME NEW c \in Clients, Share(c) PROVE Waking' \/ Collecting'
    BY <2>5 DEF Share
  <2>6. ASSUME NEW c \in Clients, NEW t \in Tasks, AsyncInline(c, t)
        PROVE  Waking' \/ Collecting'
    BY <2>6 DEF AsyncInline, MayPost
  <2>7. ASSUME NEW c \in Clients, InlineReturns(c) PROVE Waking' \/ Collecting'
    BY <2>7 DEF InlineReturns
  <2>8. ASSUME NEW c \in Clients, NEW t \in Tasks, NEW first \in BOOLEAN,
               AsyncPush(c, t, first)
        PROVE  Waking' \/ Collecting'
    <3>1. pc'[c] = "write"
      BY <2>8 DEF AsyncPush
    <3> QED
      BY <3>1
  <2>9. ASSUME NEW c \in Clients, WritePipe(c) PROVE Waking' \/ Collecting'
    <3>1. pipe # Closed
      BY <2>9 DEF WritePipe, Write, Lifecycle
    <3> QED
      BY <2>9, <3>1 DEF WritePipe, Write
  <2>10. ASSUME NEW t \in Tasks, Cancel(t) PROVE Waking' \/ Collecting'
    BY <2>10 DEF Cancel
  <2>11. ASSUME NEW c \in Clients, Drop(c) PROVE Waking' \/ Collecting'
    BY <2>11 DEF Drop
  <2>12. ASSUME NEW c \in Clients, DtorPost(c) PROVE Waking' \/ Collecting'
    <3>1. CASE CurrentThread(c)
      BY <2>12, <3>1 DEF DtorPost
    <3>2. CASE ~CurrentThread(c)
      <4>1. pc'[c] = "dwrite"
        BY <2>12, <3>2 DEF DtorPost
      <4> QED
        BY <4>1
    <3> QED
      BY <3>1, <3>2
  <2>13. ASSUME NEW c \in Clients, DtorWrite(c) PROVE Waking' \/ Collecting'
    <3>1. pipe # Closed
      BY <2>13 DEF DtorWrite, Write, Lifecycle, Leaving
    <3> QED
      BY <2>13, <3>1 DEF DtorWrite, Write
  <2>14. ASSUME NEW c \in Clients, Join(c) PROVE Waking' \/ Collecting'
    BY <2>14 DEF Join
  <2>15. ASSUME NEW c \in Clients, Close(c) PROVE Waking' \/ Collecting'
    BY <2>15 DEF Close
  <2>16. CASE ThreadStart \/ Top \/ Wake \/ TimedOut \/ BatchEnds
    BY <2>16 DEF ThreadStart, Top, Wake, TimedOut, BatchEnds
  <2>17. CASE ReadPipe \/ PipeEmpty \/ ReadFails
    BY <2>17 DEF ReadPipe, Read, PipeEmpty, ReadFails,
               AttachPipeEvent, ReOpenFD
  <2>18. CASE SwapTasks
    BY <2>18 DEF SwapTasks
  <2>19. CASE TestTask
    <3>1. ppc = "run" /\ UNCHANGED <<pipe, tasks, pc>>
      BY <2>19 DEF TestTask
    <3> QED
      BY <3>1
  <2>20. CASE CallTask \/ BodyEnds \/ NestedInline
    BY <2>20 DEF CallTask, BodyEnds, NestedInline
  <2>21. CASE NestedPush
    BY <2>21 DEF NestedPush
  <2>22. CASE NestedWrite
    <3>1. pipe # Closed
      BY <2>22 DEF NestedWrite, Write, Lifecycle, Ended
    <3> QED
      BY <2>22, <3>1 DEF NestedWrite, Write
  <2>25. CASE Over
    BY <2>25 DEF Over, vars
  <2> QED
    BY <2>1, <2>2, <2>5, <2>6, <2>7, <2>8, <2>9, <2>10, <2>11, <2>12, <2>13,
       <2>14, <2>15, <2>16, <2>17, <2>18, <2>19, <2>20, <2>21, <2>22, <2>25
       DEF Next, Step, Starting, InCall, PollerStep
<1> QED
  BY <1>1, <1>2, Typing, LifecycleKept, PTL DEF Spec

-----------------------------------------------------------------------------
(* The order of jobs.  InOrder speaks of jobs that were begun only; that it stays *)
(* true needs the order of those that wait, within the queue and the batch and    *)
(* between them.                                                                  *)

\* Jobs of o that are in s are there in that order.
Sorted(o, s) == \A i, j \in 1..Len(s), k, l \in 1..Len(o) :
                    s[i] = o[k] /\ s[j] = o[l] /\ k < l => i < j

\* No job of o that is in R was put there before one that is in S.
Before(o, S, R) == \A k, l \in 1..Len(o) : o[l] \in S /\ o[k] \in R => ~(k < l)

\* What is anywhere was passed to async.
Known == /\ Elements(begun) \subseteq issued /\ Elements(order) \subseteq issued
         /\ Elements(batch) \cup Elements(tasks) \subseteq issued \cup {ExitJob}

OrderInv ==
    /\ Known
    /\ Sorted(order, begun) /\ Sorted(order, batch) /\ Sorted(order, tasks)
    /\ Before(order, Elements(begun), Elements(batch) \cup Elements(tasks))
    /\ Before(order, Elements(batch), Elements(tasks))

(* The end of the loop. *)

\* A batch is kept until it is done.
BatchKept == /\ batch # <<>> => ppc \in {"run", "call", "body", "nwrite"}
             /\ ppc = "done" => exit

\* Exit was posted when there were no more clients, so only jobs that jobs post may
\* come after it.
ExitIsLast ==
    /\ ExitPosted => holders = {} /\ \A c \in Clients : pc[c] # "dtor"
    /\ ExitBegun \/ ExitJob \in Elements(batch) => Elements(tasks) \subseteq Children
    /\ \A i, j \in 1..Len(tasks) : tasks[i] = ExitJob /\ i < j => tasks[j] \in Children

\* A job that a client posted is somewhere.
NoneLost == issued \ Children \subseteq
                Elements(tasks) \cup Elements(batch) \cup Elements(begun) \cup cancelled

ExitInv == BatchKept /\ ExitIsLast /\ NoneLost

(* The jobs as a task executor has them: each is in one place. *)
Distinct(s) == \A i, j \in 1..Len(s) : s[i] = s[j] => i = j

Placed(q, b, x) == /\ Distinct(q) /\ Distinct(b) /\ Elements(q) \cap Elements(b) = {}
                   /\ x => ExitJob \notin Elements(q) \cup Elements(b)
PlacedOnce == Placed(tasks, batch, ExitBegun)

\* Only the poller thread is in the body of a job, and it has not left that body.
AtBody == /\ cur # NoTask => ppc \in {"body", "nwrite"}
          /\ ppc = "none" => ~exit

\* A job that may be cancelled was posted.
HandlesKnown == /\ handles \subseteq issued
                /\ \A c \in Clients : pc[c] = "write" => arg[c] \in issued

JobInv == PlacedOnce /\ AtBody /\ HandlesKnown

-----------------------------------------------------------------------------
\* What a step does to the jobs: nothing, a job is run inline, put at the back or the
\* front of the queue, or Exit is; the queue is taken; the head of the batch is skipped
\* or begun.
Quiet == UNCHANGED <<tasks, batch, begun, order, issued>>
Inlined(t) == /\ t \in Tasks \ issued /\ issued' = issued \cup {t}
              /\ begun' = Append(begun, t) /\ UNCHANGED <<tasks, batch, order>>
PutBack(t) == /\ t \in Tasks \ issued /\ issued' = issued \cup {t}
              /\ tasks' = Append(tasks, t) /\ order' = Append(order, t)
              /\ UNCHANGED <<batch, begun>>
PutFront(t) == /\ t \in Tasks \ issued /\ issued' = issued \cup {t}
               /\ tasks' = <<t>> \o tasks /\ UNCHANGED <<batch, begun, order>>
PutExit == tasks' = Append(tasks, ExitJob) /\ UNCHANGED <<batch, begun, order, issued>>
Taken == batch' = tasks /\ tasks' = <<>> /\ UNCHANGED <<begun, order, issued>>
Skipped == /\ batch # <<>> /\ batch' = Tail(batch)
           /\ UNCHANGED <<tasks, begun, order, issued>>
BegunHead == /\ batch # <<>> /\ Head(batch) \in Tasks
             /\ batch' = Tail(batch) /\ begun' = Append(begun, Head(batch))
             /\ UNCHANGED <<tasks, order, issued>>

\* A step does one of these things to the jobs.
LEMMA StepKinds ==
  ASSUME TypeInv, [Next]_vars
  PROVE  \/ Quiet \/ PutExit \/ Taken \/ Skipped \/ BegunHead
         \/ \E t \in Tasks : Inlined(t) \/ PutBack(t) \/ PutFront(t)
<1> USE JobsAssumption DEF queueVars, pollerVars, clientVars, jobVars, history
<1>1. CASE UNCHANGED vars \/ Over
  BY <1>1 DEF Over, vars, Quiet
<1>2. CASE RunLoop \/ Starting
  BY <1>2 DEF RunLoop, Starting, AssignThread, AwaitStarted, Quiet
<1>3. ASSUME NEW c \in Clients, Share(c) \/ Drop(c) PROVE Quiet
  BY <1>3 DEF Share, Drop, Quiet
<1>4. ASSUME NEW c \in Clients, InCall(c) PROVE Quiet \/ PutExit
  BY <1>4 DEF InCall, InlineReturns, WritePipe, DtorPost, Push, DtorWrite, Join, Close,
              Quiet, PutExit
<1>5. ASSUME NEW c \in Clients, NEW t \in Tasks, AsyncInline(c, t) PROVE Inlined(t)
  BY <1>5 DEF AsyncInline, MayPost, Inlined
<1>6. ASSUME NEW c \in Clients, NEW t \in Tasks, NEW first \in BOOLEAN, AsyncPush(c, t, first)
      PROVE  PutBack(t) \/ PutFront(t)
  BY <1>6 DEF AsyncPush, MayPost, Push, PutBack, PutFront
<1>7. ASSUME NEW t \in Tasks, Cancel(t) PROVE Quiet
  BY <1>7 DEF Cancel, Quiet
<1>8. CASE ThreadStart \/ Top \/ Wake \/ TimedOut \/ ReadPipe \/ PipeEmpty \/ ReadFails
           \/ BatchEnds \/ NestedWrite \/ BodyEnds
  BY <1>8 DEF ThreadStart, Top, Wake, TimedOut, ReadPipe, PipeEmpty, ReadFails, BatchEnds,
              NestedWrite, BodyEnds, Quiet
<1>9. CASE SwapTasks
  BY <1>9 DEF SwapTasks, Taken
<1>10. CASE TestTask
  BY <1>10 DEF TestTask, Quiet, Skipped
<1>11. CASE CallTask
  <2>1. batch # <<>> /\ Head(batch) \in Jobs
    BY <1>11, BatchHead DEF CallTask, TypeInv, JobAtHand, TypeOK
  <2> QED
    BY <1>11, <2>1 DEF CallTask, Skipped, BegunHead, Jobs
<1>12. CASE NestedPush \/ NestedInline
  <2>1. Nested[cur] \in Tasks \ issued
    BY <1>12 DEF NestedPush, NestedInline
  <2> QED
    BY <1>12, <2>1 DEF NestedPush, NestedInline, Push, PutBack, Inlined
<1> QED
  BY <1>1, <1>2, <1>3, <1>4, <1>5, <1>6, <1>7, <1>8, <1>9, <1>10, <1>11, <1>12
     DEF Next, Step, PollerStep

\* What a sequence holds with one more element, or without its head.
LEMMA AppendAt ==
  ASSUME NEW S, NEW s \in Seq(S), NEW x \in S
  PROVE  /\ Append(s, x) \in Seq(S) /\ Len(Append(s, x)) = Len(s) + 1
         /\ Append(s, x)[Len(s) + 1] = x
         /\ \A i \in 1..Len(s) : Append(s, x)[i] = s[i]
         /\ \A i \in 1..Len(s) + 1 : i = Len(s) + 1 \/ i \in 1..Len(s)
         /\ Elements(Append(s, x)) = Elements(s) \cup {x}
<1>1. /\ Append(s, x) \in Seq(S) /\ Len(Append(s, x)) = Len(s) + 1
      /\ Append(s, x)[Len(s) + 1] = x
      /\ \A i \in 1..Len(s) : Append(s, x)[i] = s[i]
      /\ Len(s) \in Nat
  OBVIOUS
<1>2. \A i \in 1..Len(s) + 1 : i = Len(s) + 1 \/ i \in 1..Len(s)
  BY <1>1
<1> HIDE DEF Elements
<1>3. Elements(Append(s, x)) = Elements(s) \cup {x}
  <2> DEFINE a == Append(s, x)
  <2>1. \A y : y \in Elements(a) <=> \E i \in 1..Len(s) + 1 : y = a[i]
    BY <1>1 DEF Elements
  <2>2. \A y : y \in Elements(s) <=> \E i \in 1..Len(s) : y = s[i]
    BY DEF Elements
  <2> HIDE DEF a
  <2>3. \A i \in 1..Len(s) : i \in 1..Len(s) + 1 /\ a[i] = s[i]
    BY <1>1 DEF a
  <2>4. Len(s) + 1 \in 1..Len(s) + 1 /\ a[Len(s) + 1] = x
    BY <1>1 DEF a
  <2> QED
    BY <1>2, <2>1, <2>2, <2>3, <2>4 DEF a
<1> QED
  BY <1>1, <1>2, <1>3

\* A sequence with one element more in front.
LEMMA PrependAt ==
  ASSUME NEW S, NEW s \in Seq(S), NEW x \in S
  PROVE  /\ <<x>> \o s \in Seq(S) /\ Len(<<x>> \o s) = Len(s) + 1
         /\ (<<x>> \o s)[1] = x
         /\ \A i \in 1..Len(s) : (<<x>> \o s)[i + 1] = s[i]
         /\ \A i \in 1..Len(s) + 1 :
              i = 1 \/ (i - 1 \in 1..Len(s) /\ (<<x>> \o s)[i] = s[i - 1])
         /\ Elements(<<x>> \o s) = Elements(s) \cup {x}
<1> DEFINE a == <<x>> \o s
<1>1. /\ a \in Seq(S) /\ Len(a) = Len(s) + 1 /\ a[1] = x
      /\ \A i \in 1..Len(s) : a[i + 1] = s[i]
      /\ Len(s) \in Nat
  OBVIOUS
<1> HIDE DEF a
<1>2. \A i \in 1..Len(s) + 1 : i = 1 \/ (i - 1 \in 1..Len(s) /\ a[i] = s[i - 1])
  <2> SUFFICES ASSUME NEW i \in 1..Len(s) + 1, i # 1
               PROVE  i - 1 \in 1..Len(s) /\ a[i] = s[i - 1]
    OBVIOUS
  <2>1. i - 1 \in 1..Len(s) /\ (i - 1) + 1 = i
    BY <1>1
  <2> QED
    BY <1>1, <2>1
<1>3. Elements(a) = Elements(s) \cup {x}
  <2>1. \A y : y \in Elements(a) <=> \E i \in 1..Len(s) + 1 : y = a[i]
    BY <1>1 DEF Elements
  <2>2. \A y : y \in Elements(s) <=> \E i \in 1..Len(s) : y = s[i]
    BY DEF Elements
  <2>3. \A i \in 1..Len(s) : i + 1 \in 1..Len(s) + 1 /\ a[i + 1] = s[i]
    BY <1>1
  <2>4. 1 \in 1..Len(s) + 1
    BY <1>1
  <2>5. ASSUME NEW y \in Elements(a) PROVE y \in Elements(s) \cup {x}
    <3>1. PICK i \in 1..Len(s) + 1 : y = a[i]
      BY <2>1, <2>5
    <3> QED
      BY <1>1, <1>2, <2>2, <3>1
  <2>6. ASSUME NEW y \in Elements(s) \cup {x} PROVE y \in Elements(a)
    <3>1. CASE y = x
      BY <1>1, <2>1, <2>4, <3>1
    <3>2. CASE y \in Elements(s)
      BY <2>1, <2>2, <2>3, <3>2
    <3> QED
      BY <2>6, <3>1, <3>2
  <2> QED
    BY <2>5, <2>6
<1> QED
  BY <1>1, <1>2, <1>3 DEF a

\* A sequence without its first element.
LEMMA TailAt ==
  ASSUME NEW S, NEW s \in Seq(S), s # <<>>
  PROVE  /\ Tail(s) \in Seq(S) /\ Len(Tail(s)) = Len(s) - 1 /\ Len(s) \in Nat
         /\ 1 \in 1..Len(s) /\ Head(s) = s[1]
         /\ \A i \in 1..Len(Tail(s)) : i + 1 \in 1..Len(s) /\ Tail(s)[i] = s[i + 1]
         /\ Elements(s) = Elements(Tail(s)) \cup {Head(s)}
<1> DEFINE a == Tail(s)
<1>1. /\ a \in Seq(S) /\ Len(a) = Len(s) - 1 /\ Len(s) \in Nat
      /\ 1 \in 1..Len(s) /\ Head(s) = s[1]
      /\ \A i \in 1..Len(a) : i + 1 \in 1..Len(s) /\ a[i] = s[i + 1]
  OBVIOUS
<1> HIDE DEF a
<1>2. Elements(s) = Elements(a) \cup {Head(s)}
  <2>1. \A y : y \in Elements(a) <=> \E i \in 1..Len(a) : y = a[i]
    BY DEF Elements
  <2>2. \A y : y \in Elements(s) <=> \E i \in 1..Len(s) : y = s[i]
    BY DEF Elements
  <2>3. \A i \in 1..Len(s) : i = 1 \/ (i - 1 \in 1..Len(a) /\ a[i - 1] = s[i])
    <3> SUFFICES ASSUME NEW i \in 1..Len(s), i # 1
                 PROVE  i - 1 \in 1..Len(a) /\ a[i - 1] = s[i]
      OBVIOUS
    <3>1. i - 1 \in 1..Len(a) /\ (i - 1) + 1 = i
      BY <1>1
    <3> QED
      BY <1>1, <3>1
  <2> QED
    BY <1>1, <2>1, <2>2, <2>3
<1> QED
  BY <1>1, <1>2 DEF a

\* What is in a sequence is an element of it.
LEMMA InElements ==
  ASSUME NEW s PROVE \A i \in 1..Len(s) : s[i] \in Elements(s)
BY DEF Elements

\* A job that is not in o makes no difference to the order.
LEMMA BeforeOther ==
  ASSUME NEW o, NEW S, NEW R, NEW x, Before(o, S, R), \A k \in 1..Len(o) : o[k] # x
  PROVE  Before(o, S \cup {x}, R) /\ Before(o, S, R \cup {x})
BY DEF Before

\* A job that no later one of o is ahead of may be appended, one that is not in o put
\* first, and the head taken.
LEMMA SortedAppend ==
  ASSUME NEW o, NEW S, NEW s \in Seq(S), NEW x \in S, Sorted(o, s),
         \A k, l \in 1..Len(o) :
             o[k] = x /\ k < l => o[l] \notin Elements(s) \cup {x}
  PROVE  Sorted(o, Append(s, x))
<1> DEFINE a == Append(s, x)
<1>1. /\ Len(a) = Len(s) + 1 /\ a[Len(s) + 1] = x /\ \A i \in 1..Len(s) : a[i] = s[i]
      /\ \A i \in 1..Len(a) : i = Len(s) + 1 \/ i \in 1..Len(s)
  BY AppendAt
<1>2. Len(s) \in Nat /\ \A i \in 1..Len(s) : s[i] \in Elements(s)
  BY InElements
<1> HIDE DEF a
<1>3. SUFFICES ASSUME NEW i \in 1..Len(a), NEW j \in 1..Len(a),
                      NEW k \in 1..Len(o), NEW l \in 1..Len(o),
                      a[i] = o[k], a[j] = o[l], k < l
               PROVE  i < j
  BY DEF Sorted, a
<1>4. i # Len(s) + 1
  <2>1. ASSUME i = Len(s) + 1 PROVE FALSE
    <3>1. o[k] = x /\ o[l] \notin Elements(s) /\ o[l] # x
      BY <1>1, <1>3, <2>1
    <3>2. a[j] = x \/ a[j] \in Elements(s)
      BY <1>1, <1>2
    <3> QED
      BY <1>3, <3>1, <3>2
  <2> QED
    BY <2>1
<1>5. CASE j = Len(s) + 1
  BY <1>1, <1>2, <1>4, <1>5
<1>6. CASE j # Len(s) + 1
  BY <1>1, <1>3, <1>4, <1>6 DEF Sorted
<1> QED
  BY <1>5, <1>6

\* A job that is not in the order of posting may stand anywhere.
LEMMA SortedPrepend ==
  ASSUME NEW o, NEW S, NEW s \in Seq(S), NEW x \in S, Sorted(o, s),
         \A k \in 1..Len(o) : o[k] # x
  PROVE  Sorted(o, <<x>> \o s)
<1> DEFINE a == <<x>> \o s
<1>1. /\ a[1] = x
      /\ \A i \in 1..Len(a) : i = 1 \/ (i - 1 \in 1..Len(s) /\ a[i] = s[i - 1])
  BY PrependAt
<1> HIDE DEF a
<1>2. SUFFICES ASSUME NEW i \in 1..Len(a), NEW j \in 1..Len(a),
                      NEW k \in 1..Len(o), NEW l \in 1..Len(o),
                      a[i] = o[k], a[j] = o[l], k < l
               PROVE  i < j
  BY DEF Sorted, a
<1>3. /\ i - 1 \in 1..Len(s) /\ a[i] = s[i - 1] /\ j - 1 \in 1..Len(s) /\ a[j] = s[j - 1]
  BY <1>1, <1>2
<1>4. i - 1 < j - 1
  BY <1>2, <1>3 DEF Sorted
<1> QED
  BY <1>4

\* What is left of a sorted queue is sorted, and nothing in it was posted before the one taken.
LEMMA SortedTail ==
  ASSUME NEW o, NEW S, NEW s \in Seq(S), s # <<>>, Sorted(o, s)
  PROVE  /\ Sorted(o, Tail(s))
         /\ \A k, l \in 1..Len(o) :
              o[l] = Head(s) /\ k < l => o[k] \notin Elements(s)
<1> DEFINE a == Tail(s)
<1>1. /\ 1 \in 1..Len(s) /\ Head(s) = s[1]
      /\ \A i \in 1..Len(a) : i + 1 \in 1..Len(s) /\ a[i] = s[i + 1]
  BY TailAt
<1> HIDE DEF a
<1>2. Sorted(o, a)
  <2> SUFFICES ASSUME NEW i \in 1..Len(a), NEW j \in 1..Len(a),
                      NEW k \in 1..Len(o), NEW l \in 1..Len(o),
                      a[i] = o[k], a[j] = o[l], k < l
               PROVE  i < j
    BY DEF Sorted
  <2>1. i + 1 < j + 1
    BY <1>1 DEF Sorted
  <2> QED
    BY <2>1
<1>3. ASSUME NEW k \in 1..Len(o), NEW l \in 1..Len(o), o[l] = Head(s), k < l
      PROVE  o[k] \notin Elements(s)
  <2> SUFFICES ASSUME NEW i \in 1..Len(s), s[i] = o[k] PROVE FALSE
    BY DEF Elements
  <2>1. i < 1
    BY <1>1, <1>3 DEF Sorted
  <2> QED
    BY <2>1
<1> QED
  BY <1>2, <1>3 DEF a

\* The queue, the batch and what has been begun agree with the order of the posts at the
\* back, and so do any two of them (EventPoller.cc:264-272, 449-480).
THEOREM OrderKept == Spec => []OrderInv
<1>1. Init => OrderInv
  <2> SUFFICES ASSUME Init PROVE OrderInv
    OBVIOUS
  <2>1. Len(tasks) = 0 /\ Len(batch) = 0 /\ Len(begun) = 0 /\ Len(order) = 0
    BY DEF Init
  <2> QED
    BY <2>1 DEF OrderInv, Known, Sorted, Before, Elements
<1>2. TypeInv /\ OrderInv /\ [Next]_vars => OrderInv'
  <2> SUFFICES ASSUME TypeInv, OrderInv, [Next]_vars PROVE OrderInv'
    OBVIOUS
  <2>0. /\ tasks \in Seq(Jobs) /\ batch \in Seq(Jobs) /\ begun \in Seq(Tasks)
        /\ order \in Seq(Tasks) /\ issued \subseteq Tasks
        /\ ExitJob \notin issued /\ ExitJob \in Jobs /\ \A t \in Tasks : t \in Jobs
        /\ Len(order) \in Nat
    BY JobsAssumption DEF TypeInv, TypeOK, Jobs
  <2>a. \A k \in 1..Len(order) : order[k] \in Elements(order) /\ order[k] \in issued
    BY InElements DEF OrderInv, Known
  <2> USE DEF OrderInv
  <2>1. CASE Quiet
    <3>1. UNCHANGED <<tasks, batch, begun, order, issued>>
      BY <2>1 DEF Quiet
    <3>2. Sorted(order, begun)' /\ Sorted(order, batch)' /\ Sorted(order, tasks)'
      BY <3>1 DEF Sorted
    <3>3. Known'
      BY <3>1 DEF Known, Elements
    <3> QED
      BY <3>1, <3>2, <3>3 DEF Before, Elements
  <2>2. ASSUME NEW t \in Tasks, Inlined(t) PROVE OrderInv'
    <3>1. /\ begun' = Append(begun, t) /\ Elements(begun') = Elements(begun) \cup {t}
          /\ t \notin issued /\ issued' = issued \cup {t} /\ UNCHANGED <<tasks, batch, order>>
      BY <2>0, <2>2, AppendAt DEF Inlined
    <3>2. Sorted(order, Append(begun, t))
      BY <2>0, <2>a, <3>1, SortedAppend
    <3>3. Sorted(order, begun)' /\ Sorted(order, batch)' /\ Sorted(order, tasks)'
      BY <3>1, <3>2
    <3>4. Known'
      BY <3>1 DEF Known
    <3>5. \A k \in 1..Len(order) : order[k] # t
      BY <2>a, <3>1
    <3>6. /\ Before(order, Elements(begun), Elements(batch) \cup Elements(tasks))'
          /\ Before(order, Elements(batch), Elements(tasks))'
      <4>1. Before(order, Elements(begun) \cup {t}, Elements(batch) \cup Elements(tasks))
        BY <3>5, BeforeOther
      <4> QED
        BY <3>1, <4>1
    <3> QED
      BY <3>3, <3>4, <3>6
  <2>3. ASSUME NEW t \in Tasks, PutBack(t) PROVE OrderInv'
    <3> DEFINE m == Len(order) + 1
    <3>1. /\ tasks' = Append(tasks, t) /\ Elements(tasks') = Elements(tasks) \cup {t}
          /\ t \notin issued /\ t # ExitJob /\ issued' = issued \cup {t}
          /\ UNCHANGED <<batch, begun>>
      BY <2>0, <2>3, AppendAt, JobsAssumption DEF PutBack
    <3>2. /\ Len(order') = m /\ order'[m] = t /\ Elements(order') = Elements(order) \cup {t}
          /\ \A i \in 1..Len(order) : order'[i] = order[i]
          /\ \A i \in 1..Len(order') : i = m \/ i \in 1..Len(order)
      BY <2>0, <2>3, AppendAt DEF PutBack
    <3>3. Known'
      BY <3>1, <3>2 DEF Known
    \* The new job is the last of order, and what is not the new job is where it was.
    <3>4. ASSUME NEW s, Sorted(order, s), t \notin Elements(s),
                 NEW i \in 1..Len(s), NEW j \in 1..Len(s),
                 NEW k \in 1..Len(order'), NEW l \in 1..Len(order'),
                 s[i] = order'[k], s[j] = order'[l], k < l
          PROVE  i < j
      <4>1. s[i] # t /\ s[j] # t
        BY <3>4, InElements
      <4>2. k # m /\ l # m
        BY <3>2, <3>4, <4>1
      <4> QED
        BY <3>2, <3>4, <4>2 DEF Sorted
    <3>5. Sorted(order, begun)' /\ Sorted(order, batch)'
      <4>1. t \notin Elements(begun) /\ t \notin Elements(batch)
        BY <3>1 DEF Known
      <4>2. Sorted(order, begun)'
        <5> SUFFICES ASSUME NEW i \in 1..Len(begun), NEW j \in 1..Len(begun),
                            NEW k \in 1..Len(order'), NEW l \in 1..Len(order'),
                            begun[i] = order'[k], begun[j] = order'[l], k < l
                     PROVE  i < j
          BY <3>1 DEF Sorted
        <5> QED
          BY <3>4, <4>1
      <4>3. Sorted(order, batch)'
        <5> SUFFICES ASSUME NEW i \in 1..Len(batch), NEW j \in 1..Len(batch),
                            NEW k \in 1..Len(order'), NEW l \in 1..Len(order'),
                            batch[i] = order'[k], batch[j] = order'[l], k < l
                     PROVE  i < j
          BY <3>1 DEF Sorted
        <5> QED
          BY <3>4, <4>1
      <4> QED
        BY <4>2, <4>3
    <3>6. Sorted(order, tasks)'
      <4> DEFINE n == Len(tasks) + 1
      <4>1. /\ Len(tasks') = n /\ tasks'[n] = t
            /\ \A i \in 1..Len(tasks) : tasks'[i] = tasks[i] /\ tasks[i] \in Elements(tasks)
            /\ \A i \in 1..Len(tasks') : i = n \/ i \in 1..Len(tasks)
            /\ Len(tasks) \in Nat
        BY <2>0, <3>1, AppendAt, InElements
      <4>2. t \notin Elements(tasks)
        BY <3>1 DEF Known
      <4> SUFFICES ASSUME NEW i \in 1..Len(tasks'), NEW j \in 1..Len(tasks'),
                          NEW k \in 1..Len(order'), NEW l \in 1..Len(order'),
                          tasks'[i] = order'[k], tasks'[j] = order'[l], k < l
                   PROVE  i < j
        BY DEF Sorted
      <4>3. k \in 1..Len(order) /\ order'[k] # t
        <5>1. k # m
          BY <2>0, <3>2
        <5> QED
          BY <2>a, <3>1, <3>2, <5>1
      <4>4. i # n
        BY <4>1, <4>3
      <4>5. CASE j = n
        BY <4>1, <4>4, <4>5
      <4>6. CASE j # n
        BY <3>4, <4>1, <4>2, <4>4, <4>6
      <4> QED
        BY <4>5, <4>6
    <3>7. ASSUME NEW R, NEW Q, Before(order, R, Q), t \notin R,
                 NEW k \in 1..Len(order'), NEW l \in 1..Len(order'),
                 order'[l] \in R, order'[k] \in Q \cup {t}
          PROVE  ~(k < l)
      <4>1. l \in 1..Len(order) /\ order'[l] = order[l]
        BY <3>2, <3>7
      <4>2. CASE k = m
        BY <4>1, <4>2
      <4>3. CASE k # m
        <5>1. k \in 1..Len(order) /\ order'[k] = order[k] /\ order[k] # t
          BY <2>a, <3>1, <3>2, <4>3
        <5> QED
          BY <3>7, <4>1, <5>1 DEF Before
      <4> QED
        BY <4>2, <4>3
    <3>8. /\ Before(order, Elements(begun), Elements(batch) \cup Elements(tasks))'
          /\ Before(order, Elements(batch), Elements(tasks))'
      <4>1. t \notin Elements(begun) /\ t \notin Elements(batch)
        BY <3>1 DEF Known
      <4> QED
        BY <3>1, <3>7, <4>1 DEF Before
    <3> QED
      BY <3>3, <3>5, <3>6, <3>8
  <2>4. ASSUME NEW t \in Tasks, PutFront(t) PROVE OrderInv'
    <3>1. /\ tasks' = <<t>> \o tasks /\ Elements(tasks') = Elements(tasks) \cup {t}
          /\ t \notin issued /\ issued' = issued \cup {t} /\ UNCHANGED <<batch, begun, order>>
      BY <2>0, <2>4, PrependAt DEF PutFront
    <3>2. PICK s : s = <<t>> \o tasks /\ Sorted(order, s)
      BY <2>0, <2>a, <3>1, SortedPrepend
    <3>3. Sorted(order, begun)' /\ Sorted(order, batch)' /\ Sorted(order, tasks)'
      BY <3>1, <3>2
    <3>4. Known'
      BY <3>1 DEF Known
    <3>5. \A k \in 1..Len(order) : order[k] # t
      BY <2>0, <2>a, <3>1
    <3>6. /\ Before(order, Elements(begun), Elements(batch) \cup Elements(tasks))'
          /\ Before(order, Elements(batch), Elements(tasks))'
      <4>1. Elements(batch) \cup (Elements(tasks) \cup {t})
              = (Elements(batch) \cup Elements(tasks)) \cup {t}
        OBVIOUS
      <4>2. /\ Before(order, Elements(begun), (Elements(batch) \cup Elements(tasks)) \cup {t})
            /\ Before(order, Elements(batch), Elements(tasks) \cup {t})
        BY <3>5, BeforeOther
      <4> QED
        BY <3>1, <4>1, <4>2
    <3> QED
      BY <3>3, <3>4, <3>6
  <2>5. CASE PutExit
    <3>1. /\ tasks' = Append(tasks, ExitJob) /\ Elements(tasks') = Elements(tasks) \cup {ExitJob}
          /\ UNCHANGED <<batch, begun, order, issued>>
      BY <2>0, <2>5, AppendAt DEF PutExit
    <3>a. \A k \in 1..Len(order) : order[k] # ExitJob
      BY <2>0, <2>a
    <3>2. Sorted(order, Append(tasks, ExitJob))
      BY <2>0, <3>a, SortedAppend
    <3>3. Sorted(order, begun)' /\ Sorted(order, batch)' /\ Sorted(order, tasks)'
      BY <3>1, <3>2
    <3>4. Known'
      BY <3>1 DEF Known
    <3>5. \A k \in 1..Len(order) : order[k] # ExitJob
      BY <2>0, <2>a, <3>1
    <3>6. /\ Before(order, Elements(begun), Elements(batch) \cup Elements(tasks))'
          /\ Before(order, Elements(batch), Elements(tasks))'
      <4>1. Elements(batch) \cup (Elements(tasks) \cup {ExitJob})
              = (Elements(batch) \cup Elements(tasks)) \cup {ExitJob}
        OBVIOUS
      <4>2. /\ Before(order, Elements(begun), (Elements(batch) \cup Elements(tasks)) \cup {ExitJob})
            /\ Before(order, Elements(batch), Elements(tasks) \cup {ExitJob})
        BY <3>5, BeforeOther
      <4> QED
        BY <3>1, <4>1, <4>2
    <3> QED
      BY <3>3, <3>4, <3>6
  <2>6. CASE Taken
    <3>1. /\ Len(tasks') = 0 /\ Elements(tasks') = {} /\ batch' = tasks
          /\ UNCHANGED <<begun, order, issued>>
      BY <2>6 DEF Taken, Elements
    <3>2. Sorted(order, begun)' /\ Sorted(order, batch)' /\ Sorted(order, tasks)'
      BY <3>1 DEF Sorted
    <3> QED
      BY <3>1, <3>2 DEF Known, Before
\* The rest of the batch is in order and after its head.
  <2>7. CASE Skipped \/ BegunHead
    <3>1. /\ batch # <<>> /\ batch' = Tail(batch) /\ UNCHANGED <<tasks, order, issued>>
      BY <2>7 DEF Skipped, BegunHead
    <3>2. Elements(batch) = Elements(batch') \cup {Head(batch)}
      BY <2>0, <3>1, TailAt
    <3>3. /\ Sorted(order, Tail(batch))
          /\ \A k, l \in 1..Len(order) :
               order[l] = Head(batch) /\ k < l => order[k] \notin Elements(batch)
      BY <2>0, <3>1, SortedTail
    <3>4. Sorted(order, batch)' /\ Sorted(order, tasks)' /\ Before(order, Elements(batch), Elements(tasks))'
      <4>1. Sorted(order, batch)' /\ Sorted(order, tasks)'
        BY <3>1, <3>3 DEF Sorted
      <4> QED
        BY <3>1, <3>2, <4>1 DEF Before
    <3>5. CASE Skipped
      <4>1. UNCHANGED begun
        BY <3>5 DEF Skipped
      <4> QED
        BY <3>1, <3>2, <3>4, <4>1 DEF Known, Sorted, Before
    <3>6. CASE BegunHead
      <4> DEFINE h == Head(batch)
      <4>1. /\ h \in Tasks /\ begun' = Append(begun, h)
            /\ Elements(begun') = Elements(begun) \cup {h}
        BY <2>0, <3>6, AppendAt DEF BegunHead
      <4>2. Known'
        BY <3>1, <3>2, <4>1, JobsAssumption DEF Known
      <4>3. Sorted(order, Append(begun, h))
        <5>1. ASSUME NEW k \in 1..Len(order), NEW l \in 1..Len(order), order[k] = h, k < l
              PROVE  order[l] \notin Elements(begun) \cup {h}
          <6>1. order[l] # h
            BY <3>2, <3>3, <5>1
          <6>2. order[l] \notin Elements(begun)
            BY <3>2, <5>1 DEF Before
          <6> QED
            BY <6>1, <6>2
        <5> QED
          BY <2>0, <4>1, <5>1, SortedAppend
      <4>4. Sorted(order, begun)'
        BY <3>1, <4>1, <4>3 DEF Sorted
      <4>5. Before(order, Elements(begun), Elements(batch) \cup Elements(tasks))'
        <5> SUFFICES ASSUME NEW k \in 1..Len(order), NEW l \in 1..Len(order),
                            order[l] \in Elements(begun) \cup {h},
                            order[k] \in Elements(batch') \cup Elements(tasks), k < l
                     PROVE  FALSE
          BY <3>1, <4>1 DEF Before
        <5>1. CASE order[l] \in Elements(begun)
          BY <3>2, <5>1 DEF Before
        <5>2. CASE order[l] = h
          BY <3>2, <3>3, <5>2 DEF Before
        <5> QED
          BY <5>1, <5>2
      <4> QED
        BY <3>4, <4>2, <4>4, <4>5
    <3> QED
      BY <2>7, <3>5, <3>6
  <2> QED
    BY <2>1, <2>2, <2>3, <2>4, <2>5, <2>6, <2>7, StepKinds
<1> QED
  BY <1>1, <1>2, Typing, PTL DEF Spec

\* Jobs are begun in the order in which they were put at the back of the queue
\* (EventPoller.cc:267, 449-480).
THEOREM BegunInOrder == Spec => []InOrder
<1>1. OrderInv => InOrder
  BY DEF OrderInv, Sorted, InOrder
<1> QED
  BY <1>1, OrderKept, PTL

-----------------------------------------------------------------------------
\* Exit is the last job from outside, and a job of a client is queued, taken, begun or
\* cancelled (EventPoller.cc:155-163, 449-480).
THEOREM ExitKept == Spec => []ExitInv
<1>1. Init => ExitInv
  BY JobsAssumption DEF Init, ExitInv, BatchKept, ExitIsLast, ExitPosted, ExitBegun, NoneLost, Elements
<1>2. TypeInv /\ Lifecycle /\ ExitInv /\ [Next]_vars => ExitInv'
  <2> SUFFICES ASSUME TypeInv, Lifecycle, ExitInv, [Next]_vars PROVE ExitInv'
    OBVIOUS
  <2>0. /\ tasks \in Seq(Jobs) /\ batch \in Seq(Jobs) /\ begun \in Seq(Tasks)
        /\ issued \subseteq Tasks /\ pc \in [Clients -> ClientPoints] /\ holders \subseteq Clients
        /\ ExitJob \notin Tasks /\ ExitJob # NoTask /\ ExitJob \in Jobs
        /\ (\A t \in Tasks : t \in Jobs) /\ Owner \in Clients
    BY JobsAssumption DEF TypeInv, TypeOK, Jobs
  <2>a. Children \subseteq Tasks
    BY JobsAssumption DEF Children
  <2> USE DEF ExitInv, Goto, queueVars, pollerVars, clientVars, jobVars, history
\* Steps that leave the queue, the batch and Exit alone.
  <2>1. ASSUME UNCHANGED <<exit, tasks, batch, cur, begun, issued>>, cancelled \subseteq cancelled',
               holders = {} => holders' = {},
               holders = {} => \A c \in Clients : pc'[c] = "dtor" => pc[c] = "dtor",
               batch # <<>> /\ ppc \in {"run", "call", "body", "nwrite"} =>
                   ppc' \in {"run", "call", "body", "nwrite"},
               ppc' = "done" => exit
        PROVE  ExitInv'
    <3>1. ExitPosted' = ExitPosted /\ ExitBegun' = ExitBegun
      BY <2>1 DEF ExitPosted, ExitBegun, Elements
    <3>2. ExitIsLast'
      BY <2>1, <3>1 DEF ExitIsLast, Elements
    <3> QED
      BY <2>1, <3>2 DEF BatchKept, NoneLost, Elements
  <2>2. CASE UNCHANGED vars \/ Over
    BY <2>1, <2>2 DEF vars, Over, BatchKept
  <2>3. CASE RunLoop
    <3>1. /\ holders # {} /\ exit' = FALSE /\ ppc = "none" /\ ppc' = "born"
          /\ UNCHANGED <<tasks, batch, cur, holders, jobVars, history>>
      BY <2>0, <2>3 DEF RunLoop
    <3>2. ~ExitPosted /\ ~ExitPosted' /\ ~ExitBegun'
      BY <3>1 DEF ExitIsLast, ExitPosted, ExitBegun, Elements
    <3> QED
      BY <3>1, <3>2 DEF BatchKept, ExitIsLast, NoneLost, Elements
  <2>4. CASE AssignThread \/ AwaitStarted \/ (\E c \in Clients : Share(c))
    BY <2>0, <2>1, <2>4 DEF AssignThread, AwaitStarted, Share, BatchKept
  <2>5. ASSUME NEW c \in Clients, Drop(c) PROVE ExitInv'
    BY <2>0, <2>1, <2>5 DEF Drop, BatchKept
  <2>6. ASSUME NEW c \in Clients, InlineReturns(c) \/ WritePipe(c) \/ DtorWrite(c) \/ Join(c) \/ Close(c)
        PROVE  ExitInv'
    BY <2>0, <2>1, <2>6 DEF InlineReturns, WritePipe, DtorWrite, Join, Close, BatchKept
  <2>7. ASSUME NEW c \in Clients, DtorPost(c) PROVE ExitInv'
    <3>1. /\ pc[c] = "dtor" /\ holders = {} /\ ~ExitPosted
          /\ UNCHANGED <<exit, ppc, batch, cur, holders, cancelled, begun, issued>>
      BY <2>7 DEF DtorPost, Lifecycle, Leaving, ExitIsLast
    <3>2. CASE UNCHANGED tasks
      BY <2>0, <2>1, <2>7, <3>1, <3>2 DEF DtorPost, BatchKept
    <3>3. CASE tasks' = Append(tasks, ExitJob) /\ pc' = [pc EXCEPT ![c] = "dwrite"]
      <4>1. /\ Elements(tasks') = Elements(tasks) \cup {ExitJob} /\ Len(tasks') = Len(tasks) + 1
            /\ \A i \in 1..Len(tasks) : tasks'[i] = tasks[i]
            /\ \A i \in 1..Len(tasks') : i = Len(tasks) + 1 \/ i \in 1..Len(tasks)
            /\ Len(tasks) \in Nat
        BY <2>0, <3>3, AppendAt
      <4>2. \A d \in Clients : pc'[d] # "dtor"
        BY <2>0, <3>1, <3>3 DEF Lifecycle, Leaving
      <4>3. /\ ~ExitBegun' /\ ExitJob \notin Elements(batch)
            /\ \A i \in 1..Len(tasks) : tasks[i] # ExitJob
        BY <3>1, InElements DEF ExitPosted, ExitBegun
      <4>4. \A i, j \in 1..Len(tasks') : tasks'[i] = ExitJob /\ i < j => tasks'[j] \in Children
        BY <4>1, <4>3
      <4>5. ExitIsLast'
        BY <3>1, <4>2, <4>3, <4>4 DEF ExitIsLast
      <4> QED
        BY <3>1, <4>1, <4>5 DEF BatchKept, NoneLost
    <3> QED
      BY <2>7, <3>2, <3>3 DEF DtorPost, Push
  <2>8. ASSUME NEW c \in Clients, NEW t \in Tasks, AsyncInline(c, t) PROVE ExitInv'
    <3>1. /\ holders # {} /\ issued' = issued \cup {t} /\ Elements(begun') = Elements(begun) \cup {t}
          /\ \A d \in Clients : pc'[d] = "dtor" => pc[d] = "dtor"
          /\ UNCHANGED <<exit, ppc, tasks, batch, cur, holders, cancelled>>
      BY <2>0, <2>8, AppendAt DEF AsyncInline, MayPost
    <3>2. ExitPosted' = ExitPosted /\ ExitBegun' = ExitBegun
      BY <3>1 DEF ExitPosted, ExitBegun, Elements
    <3>3. ExitIsLast'
      BY <3>1, <3>2 DEF ExitIsLast, Elements
    <3> QED
      BY <3>1, <3>3 DEF BatchKept, NoneLost, Elements
  <2>9. ASSUME NEW c \in Clients, NEW t \in Tasks, NEW first \in BOOLEAN, AsyncPush(c, t, first)
        PROVE  ExitInv'
    <3>1. /\ holders # {} /\ issued' = issued \cup {t} /\ t # ExitJob
          /\ tasks' = Append(tasks, t) \/ tasks' = <<t>> \o tasks
          /\ UNCHANGED <<exit, ppc, batch, cur, holders, cancelled, begun>>
      BY <2>0, <2>9 DEF AsyncPush, MayPost, Push
    <3>2. Elements(tasks') = Elements(tasks) \cup {t}
      <4>1. tasks \in Seq(Jobs) /\ t \in Jobs
        BY <2>0 DEF Jobs
      <4>2. CASE tasks' = Append(tasks, t)
        BY <4>1, <4>2, AppendAt
      <4>3. CASE tasks' = <<t>> \o tasks
        BY <4>1, <4>3, PrependAt
      <4> QED
        BY <3>1, <4>2, <4>3
    <3>3. ~ExitPosted
      BY <3>1 DEF ExitIsLast
    <3>4. ~ExitPosted' /\ ~ExitBegun' /\ ExitJob \notin Elements(batch)'
          /\ \A i \in 1..Len(tasks') : tasks'[i] # ExitJob
      <4>1. ExitJob \notin Elements(tasks')
        BY <3>1, <3>2, <3>3 DEF ExitPosted
      <4> QED
        BY <3>1, <3>3, <4>1, InElements DEF ExitPosted, ExitBegun
    <3>5. ExitIsLast'
      BY <3>4 DEF ExitIsLast
    <3> QED
      BY <3>1, <3>2, <3>5 DEF BatchKept, NoneLost
  <2>10. ASSUME NEW t \in Tasks, Cancel(t) PROVE ExitInv'
    BY <2>1, <2>10 DEF Cancel, BatchKept
  <2>11. CASE ThreadStart \/ Wake \/ TimedOut \/ ReadPipe \/ PipeEmpty \/ ReadFails \/ NestedWrite
    BY <2>1, <2>11 DEF ThreadStart, Wake, TimedOut, ReadPipe, PipeEmpty, ReadFails, NestedWrite,
                       BatchKept
  <2>12. CASE Top \/ BatchEnds
    BY <2>1, <2>12 DEF Top, BatchEnds, BatchKept
  <2>13. CASE SwapTasks
    <3>1. /\ ppc = "swap" /\ batch = <<>> /\ batch' = tasks /\ tasks' = <<>>
          /\ ppc' = IF tasks = <<>> THEN "top" ELSE "run"
          /\ UNCHANGED <<exit, cur, holders, pc, cancelled, begun, issued>>
      BY <2>13 DEF SwapTasks, BatchKept
    <3>2. Elements(tasks') = {} /\ Elements(batch) = {} /\ Len(tasks') = 0 /\ Elements(batch') = Elements(tasks)
      BY <3>1 DEF Elements
    <3>3. ExitPosted' = ExitPosted
      BY <3>1, <3>2 DEF ExitPosted, ExitBegun
    <3>4. ExitIsLast'
      BY <3>1, <3>2, <3>3 DEF ExitIsLast
    <3> QED
      BY <3>1, <3>2, <3>4 DEF BatchKept, NoneLost
  <2>14. CASE TestTask
    <3>1. CASE UNCHANGED batch
      BY <2>1, <2>14, <3>1 DEF TestTask, BatchKept
    <3>2. CASE batch' = Tail(batch) /\ Head(batch) \in cancelled /\ UNCHANGED ppc
      <4>1. Elements(batch) = Elements(batch') \cup {Head(batch)}
        BY <2>0, <2>14, <3>2, TailAt DEF TestTask
      <4>2. UNCHANGED <<exit, tasks, cur, holders, pc, cancelled, begun, issued>> /\ ppc = "run"
        BY <2>14 DEF TestTask
      <4>3. ExitIsLast'
        BY <4>1, <4>2 DEF ExitIsLast, ExitPosted, ExitBegun
      <4> QED
        BY <3>2, <4>1, <4>2, <4>3 DEF BatchKept, NoneLost
    <3> QED
      BY <2>14, <3>1, <3>2 DEF TestTask
  <2>15. CASE CallTask
    <3> DEFINE h == Head(batch)
    <3>1. /\ batch # <<>> /\ h \in Jobs /\ Elements(batch) = Elements(batch') \cup {h}
      BY <2>0, <2>15, TailAt, BatchHead DEF CallTask, TypeInv, JobAtHand
    <3>2. UNCHANGED <<exit, tasks, holders, pc, cancelled, issued>> /\ ppc' \in {"run", "body"}
      BY <2>15 DEF CallTask
    <3>3. Elements(begun) \subseteq Elements(begun') /\ h \in Elements(begun') \cup cancelled \cup {ExitJob}
      <4>1. CASE h \in cancelled \/ h = ExitJob
        BY <2>15, <4>1 DEF CallTask
      <4>2. CASE ~(h \in cancelled \/ h = ExitJob)
        <5>1. begun' = Append(begun, h) /\ h \in Tasks
          BY <2>15, <3>1, <4>2 DEF CallTask, Jobs
        <5> QED
          BY <2>0, <5>1, AppendAt
      <4> QED
        BY <4>1, <4>2
    <3>4. (ExitBegun \/ ExitJob \in Elements(batch))' => ExitBegun \/ ExitJob \in Elements(batch)
      BY <2>15, <3>1, <3>2 DEF CallTask, ExitBegun
    <3>5. ExitIsLast'
      BY <3>2, <3>4 DEF ExitIsLast, ExitPosted
    <3>6. NoneLost'
      BY <2>0, <3>1, <3>2, <3>3 DEF NoneLost
    <3> QED
      BY <3>2, <3>5, <3>6 DEF BatchKept
  <2>16. CASE NestedPush
    <3> DEFINE t == Nested[cur]
    <3>1. PICK x : x = t
      OBVIOUS
    <3>2. /\ x \in Children /\ x \in Tasks /\ x # ExitJob
          /\ tasks' = Append(tasks, x) /\ issued' = issued \cup {x}
          /\ ppc = "body" /\ ppc' = "nwrite"
          /\ UNCHANGED <<exit, batch, cur, holders, pc, cancelled, begun>>
      BY <2>0, <2>16, <3>1, JobsAssumption DEF NestedPush, Push, Children
    <3>3. /\ Elements(tasks') = Elements(tasks) \cup {x} /\ Len(tasks') = Len(tasks) + 1
          /\ tasks'[Len(tasks) + 1] = x
          /\ \A i \in 1..Len(tasks) : tasks'[i] = tasks[i]
          /\ \A i \in 1..Len(tasks') : i = Len(tasks) + 1 \/ i \in 1..Len(tasks)
          /\ Len(tasks) \in Nat
      BY <2>0, <3>2, AppendAt
    <3>4. \A i, j \in 1..Len(tasks') : tasks'[i] = ExitJob /\ i < j => tasks'[j] \in Children
      <4> SUFFICES ASSUME NEW i \in 1..Len(tasks'), NEW j \in 1..Len(tasks'),
                          tasks'[i] = ExitJob, i < j
                   PROVE  tasks'[j] \in Children
        OBVIOUS
      <4>1. CASE j = Len(tasks) + 1
        BY <3>2, <3>3, <4>1
      <4>2. CASE j # Len(tasks) + 1
        BY <3>2, <3>3, <4>2 DEF ExitIsLast
      <4> QED
        BY <4>1, <4>2
    <3>5. ExitPosted' = ExitPosted /\ ExitBegun' = ExitBegun
      BY <3>2, <3>3 DEF ExitPosted, ExitBegun, Elements
    <3>6. ExitIsLast'
      BY <3>2, <3>3, <3>4, <3>5 DEF ExitIsLast
    <3> QED
      BY <3>2, <3>3, <3>6 DEF BatchKept, NoneLost
  <2>17. CASE NestedInline
    <3>1. PICK x : x = Nested[cur]
      OBVIOUS
    <3>2. /\ x \in Children /\ issued' = issued \cup {x} /\ x \in Tasks
          /\ Elements(begun') = Elements(begun) \cup {x}
          /\ UNCHANGED <<exit, ppc, tasks, batch, cur, holders, pc, cancelled>>
      BY <2>0, <2>17, <3>1, AppendAt, JobsAssumption DEF NestedInline, Children
    <3>3. ExitIsLast'
      BY <3>2 DEF ExitIsLast, ExitPosted, ExitBegun, Elements
    <3> QED
      BY <3>2, <3>3 DEF BatchKept, NoneLost, Elements
  <2>18. CASE BodyEnds
    <3>1. /\ exit' = (exit \/ cur = ExitJob) /\ cur' = NoTask /\ ppc' = "run"
          /\ UNCHANGED <<tasks, batch, holders, pc, cancelled, begun, issued>>
      BY <2>18 DEF BodyEnds
    <3>2. ExitPosted' = ExitPosted /\ ExitBegun' = ExitBegun
      BY <2>0, <3>1 DEF ExitPosted, ExitBegun, Elements
    <3>3. ExitIsLast'
      BY <3>1, <3>2 DEF ExitIsLast, Elements
    <3> QED
      BY <3>1, <3>3 DEF BatchKept, NoneLost, Elements
  <2> QED
    BY <2>2, <2>3, <2>4, <2>5, <2>6, <2>7, <2>8, <2>9, <2>10, <2>11, <2>12, <2>13, <2>14,
       <2>15, <2>16, <2>17, <2>18
       DEF Next, Step, Starting, InCall, PollerStep
<1> QED
  BY <1>1, <1>2, Typing, LifecycleKept, PTL DEF Spec

\* When the poller thread has left the loop, what clients posted was begun or cancelled:
\* Exit was the last thing they posted, and its batch is finished
\* (EventPoller.cc:156-161, 456-480).
THEOREM ExitDrains == Spec => []DrainedAtExit
<1>1. ExitInv => DrainedAtExit
  BY DEF ExitInv, BatchKept, ExitIsLast, ExitBegun, NoneLost, DrainedAtExit, Elements
<1> QED
  BY <1>1, ExitKept, PTL

-----------------------------------------------------------------------------
\* A step moves the jobs and Exit as the kinds above say; a job is skipped if it was
\* cancelled and begun if it was not; only a job that was handed out is cancelled.
Kept == ExitBegun' = ExitBegun /\ UNCHANGED cancelled
ExitHead == /\ Skipped /\ UNCHANGED cancelled
            /\ Head(batch) = ExitJob /\ ExitJob \notin cancelled /\ ExitBegun'
JobStep ==
    \/ Quiet /\ Kept
    \/ Quiet /\ ExitBegun' = ExitBegun /\ \E t \in handles : cancelled' = cancelled \cup {t}
    \/ PutExit /\ Kept /\ ~ExitPosted
    \/ Taken /\ Kept /\ batch = <<>>
    \/ Skipped /\ Kept /\ Head(batch) \in cancelled
    \/ BegunHead /\ Kept /\ Head(batch) \notin cancelled
    \/ ExitHead
    \/ \E t \in Tasks : (Inlined(t) \/ PutBack(t) \/ PutFront(t)) /\ Kept

\* A step takes a job from one place to the next, or leaves all where they are.
LEMMA JobSteps ==
  ASSUME TypeInv, ExitInv, AtBody, [Next]_vars
  PROVE  JobStep
<1> USE JobsAssumption DEF queueVars, pollerVars, clientVars, jobVars, history, Kept, ExitBegun
<1>1. CASE UNCHANGED vars \/ Over
  BY <1>1 DEF Over, vars, Quiet, JobStep
<1>2. CASE RunLoop \/ Starting
  BY <1>2 DEF RunLoop, Starting, AssignThread, AwaitStarted, Quiet, JobStep, AtBody
<1>3. ASSUME NEW c \in Clients, Share(c) \/ Drop(c) PROVE JobStep
  BY <1>3 DEF Share, Drop, Quiet, JobStep
<1>4. ASSUME NEW c \in Clients, InCall(c) PROVE JobStep
  <2>1. CASE DtorPost(c)
    <3>1. ~ExitPosted
      BY <2>1 DEF DtorPost, ExitInv, ExitIsLast
    <3> QED
      BY <2>1, <3>1 DEF DtorPost, Push, Quiet, PutExit, JobStep
  <2>2. CASE InlineReturns(c) \/ WritePipe(c) \/ DtorWrite(c) \/ Join(c) \/ Close(c)
    BY <2>2 DEF InlineReturns, WritePipe, DtorWrite, Join, Close, Quiet, JobStep
  <2> QED
    BY <1>4, <2>1, <2>2 DEF InCall
<1>5. ASSUME NEW c \in Clients, NEW t \in Tasks, AsyncInline(c, t) PROVE JobStep
  BY <1>5 DEF AsyncInline, MayPost, Inlined, JobStep
<1>6. ASSUME NEW c \in Clients, NEW t \in Tasks, NEW first \in BOOLEAN, AsyncPush(c, t, first)
      PROVE  JobStep
  <2>1. (PutBack(t) \/ PutFront(t)) /\ Kept
    BY <1>6 DEF AsyncPush, MayPost, Push, PutBack, PutFront
  <2> QED
    BY <2>1 DEF JobStep
<1>7. ASSUME NEW t \in Tasks, Cancel(t) PROVE JobStep
  BY <1>7 DEF Cancel, Quiet, JobStep
<1>8. CASE ThreadStart \/ Top \/ Wake \/ TimedOut \/ ReadPipe \/ PipeEmpty \/ ReadFails
           \/ BatchEnds \/ NestedWrite \/ BodyEnds
  <2>1. CASE BodyEnds
    <3>1. ExitBegun' = ExitBegun
      BY <2>1 DEF BodyEnds
    <3> QED
      BY <2>1, <3>1 DEF BodyEnds, Quiet, JobStep
  <2>2. CASE ~BodyEnds
    BY <1>8, <2>2 DEF ThreadStart, Top, Wake, TimedOut, ReadPipe, PipeEmpty, ReadFails,
                      BatchEnds, NestedWrite, Quiet, JobStep
  <2> QED
    BY <2>1, <2>2
<1>9. CASE SwapTasks
  BY <1>9 DEF SwapTasks, Taken, JobStep, ExitInv, BatchKept
<1>10. CASE TestTask
  BY <1>10 DEF TestTask, Quiet, Skipped, JobStep
<1>11. CASE CallTask
  <2>1. batch # <<>> /\ Head(batch) \in Jobs /\ cur = NoTask
    BY <1>11, BatchHead DEF CallTask, TypeInv, JobAtHand, TypeOK, AtBody
  <2>2. CASE Head(batch) \in cancelled
    BY <1>11, <2>1, <2>2 DEF CallTask, Skipped, JobStep
  <2>3. CASE Head(batch) \notin cancelled /\ Head(batch) = ExitJob
    BY <1>11, <2>1, <2>3 DEF CallTask, Skipped, ExitHead, JobStep
  <2>4. CASE Head(batch) \notin cancelled /\ Head(batch) # ExitJob
    BY <1>11, <2>1, <2>4 DEF CallTask, BegunHead, Jobs, JobStep
  <2> QED
    BY <2>2, <2>3, <2>4
<1>12. CASE NestedPush \/ NestedInline
  <2>1. PICK t : t = Nested[cur]
    OBVIOUS
  <2>2. t \in Tasks \ issued
    BY <1>12, <2>1 DEF NestedPush, NestedInline
  <2>3. (PutBack(t) \/ Inlined(t)) /\ Kept
    BY <1>12, <2>1, <2>2 DEF NestedPush, NestedInline, Push, PutBack, Inlined
  <2> QED
    BY <2>2, <2>3 DEF JobStep
<1> QED
  BY <1>1, <1>2, <1>3, <1>4, <1>5, <1>6, <1>7, <1>8, <1>9, <1>10, <1>11, <1>12
     DEF Next, Step, PollerStep

\* What is in one place stays so when something else is added, or the head is taken.
LEMMA DistinctAppend ==
  ASSUME NEW S, NEW s \in Seq(S), NEW x \in S, Distinct(s), x \notin Elements(s)
  PROVE  Distinct(Append(s, x)) /\ Elements(Append(s, x)) = Elements(s) \cup {x}
<1> DEFINE a == Append(s, x)
<1>1. /\ \A i \in 1..Len(a) : i = Len(s) + 1 \/ i \in 1..Len(s)
      /\ \A i \in 1..Len(s) : a[i] = s[i]
      /\ a[Len(s) + 1] = x /\ Elements(a) = Elements(s) \cup {x}
  BY AppendAt
<1>2. \A i \in 1..Len(s) : s[i] # x
  BY InElements
<1> HIDE DEF a
<1> QED
  BY <1>1, <1>2 DEF Distinct, a

\* A new element in front occurs once.
LEMMA DistinctPrepend ==
  ASSUME NEW S, NEW s \in Seq(S), NEW x \in S, Distinct(s), x \notin Elements(s)
  PROVE  Distinct(<<x>> \o s) /\ Elements(<<x>> \o s) = Elements(s) \cup {x}
<1> DEFINE b == <<x>> \o s
<1>1. /\ b[1] = x /\ Elements(b) = Elements(s) \cup {x}
      /\ \A i \in 1..Len(b) : i = 1 \/ (i - 1 \in 1..Len(s) /\ b[i] = s[i - 1])
  BY PrependAt
<1>2. \A i \in 1..Len(s) : s[i] # x
  BY InElements
<1> HIDE DEF b
<1>3. Distinct(b)
  <2> SUFFICES ASSUME NEW i \in 1..Len(b), NEW j \in 1..Len(b), b[i] = b[j]
               PROVE  i = j
    BY DEF Distinct
  <2>1. CASE i = 1 /\ j = 1
    BY <2>1
  <2>2. CASE i - 1 \in 1..Len(s) /\ b[i] = s[i - 1] /\ j - 1 \in 1..Len(s) /\ b[j] = s[j - 1]
    <3>1. i - 1 = j - 1
      BY <2>2 DEF Distinct
    <3> QED
      BY <3>1
  <2> QED
    BY <1>1, <1>2, <2>1, <2>2
<1> QED
  BY <1>1, <1>3 DEF b

\* The element taken occurs no more.
LEMMA DistinctTail ==
  ASSUME NEW S, NEW s \in Seq(S), s # <<>>, Distinct(s)
  PROVE  Distinct(Tail(s)) /\ Elements(Tail(s)) = Elements(s) \ {Head(s)}
<1> DEFINE a == Tail(s)
<1>1. /\ 1 \in 1..Len(s) /\ Head(s) = s[1]
      /\ \A i \in 1..Len(a) : i + 1 \in 1..Len(s) /\ a[i] = s[i + 1]
      /\ Elements(s) = Elements(a) \cup {Head(s)}
  BY TailAt
<1> HIDE DEF a
<1>2. Distinct(a)
  <2> SUFFICES ASSUME NEW i \in 1..Len(a), NEW j \in 1..Len(a), a[i] = a[j]
               PROVE  i = j
    BY DEF Distinct
  <2>1. i + 1 = j + 1
    BY <1>1 DEF Distinct
  <2> QED
    BY <2>1
<1>3. Head(s) \notin Elements(a)
  <2>1. ASSUME NEW i \in 1..Len(a), a[i] = Head(s) PROVE FALSE
    <3>1. i + 1 = 1
      BY <1>1, <2>1 DEF Distinct
    <3> QED
      BY <3>1
  <2> QED
    BY <2>1 DEF Elements
<1> QED
  BY <1>1, <1>2, <1>3 DEF a

\* Each job is in one place, and only what was posted can be cancelled
\* (EventPoller.cc:264-272, 449-480; TaskExecutor.h:29-52).
THEOREM JobsKept == Spec => []JobInv
<1>1. Init => JobInv
  <2> SUFFICES ASSUME Init PROVE JobInv
    OBVIOUS
  <2>1. Len(tasks) = 0 /\ Len(batch) = 0
    BY DEF Init
  <2> QED
    BY <2>1, JobsAssumption DEF Init, JobInv, PlacedOnce, Placed, Distinct, Elements, ExitBegun, AtBody,
                                HandlesKnown
<1>2. TypeInv /\ OrderInv /\ ExitInv /\ JobInv /\ [Next]_vars => JobInv'
  <2> SUFFICES ASSUME TypeInv, OrderInv, ExitInv, JobInv, [Next]_vars PROVE JobInv'
    OBVIOUS
  <2>1. /\ tasks \in Seq(Jobs) /\ batch \in Seq(Jobs) /\ ExitJob \in Jobs
        /\ \A t \in Tasks : t \in Jobs /\ t # ExitJob
        /\ Elements(batch) \cup Elements(tasks) \subseteq issued \cup {ExitJob}
    BY JobsAssumption DEF TypeInv, TypeOK, Jobs, OrderInv, Known
  <2>2. PlacedOnce'
    <3>0. /\ Distinct(tasks) /\ Distinct(batch) /\ Elements(tasks) \cap Elements(batch) = {}
          /\ ExitBegun => ExitJob \notin Elements(tasks) \cup Elements(batch)
      BY DEF JobInv, PlacedOnce, Placed
    <3>a. SUFFICES Placed(tasks', batch', ExitBegun')
      BY DEF PlacedOnce, Placed, Distinct, Elements
    <3>1. CASE Quiet /\ ExitBegun' = ExitBegun
      <4>1. tasks' = tasks /\ batch' = batch
        BY <3>1 DEF Quiet
      <4> QED
        BY <3>0, <3>1, <4>1 DEF Placed
    <3>2. CASE PutExit /\ Kept /\ ~ExitPosted
      <4>1. /\ ExitJob \notin Elements(tasks) \cup Elements(batch) /\ ~ExitBegun'
            /\ tasks' = Append(tasks, ExitJob) /\ batch' = batch
        BY <3>2 DEF ExitPosted, Kept, PutExit
      <4>2. Distinct(tasks') /\ Elements(tasks') = Elements(tasks) \cup {ExitJob}
        <5>1. /\ tasks \in Seq(Jobs) /\ ExitJob \in Jobs /\ Distinct(tasks)
              /\ ExitJob \notin Elements(tasks)
          BY <2>1, <3>0, <4>1
        <5> QED
          BY <4>1, <5>1, DistinctAppend
      <4> QED
        BY <3>0, <4>1, <4>2 DEF Placed
    <3>3. CASE Taken /\ Kept
      <4>1. batch' = tasks /\ ExitBegun' = ExitBegun /\ Len(tasks') = 0
        BY <3>3 DEF Taken, Kept
      <4>2. Distinct(tasks') /\ Elements(tasks') = {}
        BY <4>1 DEF Distinct, Elements
      <4> QED
        BY <3>0, <4>1, <4>2 DEF Placed
    <3>4. CASE (Skipped \/ BegunHead) /\ ExitBegun' = ExitBegun
      <4>1. batch # <<>> /\ batch' = Tail(batch) /\ tasks' = tasks
        BY <3>4 DEF Skipped, BegunHead
      <4>2. Distinct(batch') /\ Elements(batch') = Elements(batch) \ {Head(batch)}
        BY <2>1, <3>0, <4>1, DistinctTail
      <4> QED
        BY <3>0, <3>4, <4>1, <4>2 DEF Placed
    <3>5. CASE ExitHead
      <4>1. batch # <<>> /\ batch' = Tail(batch) /\ tasks' = tasks /\ Head(batch) = ExitJob
        BY <3>5 DEF ExitHead, Skipped
      <4>2. Distinct(batch') /\ Elements(batch') = Elements(batch) \ {ExitJob}
        BY <2>1, <3>0, <4>1, DistinctTail
      <4>3. ExitJob \in Elements(batch)
        BY <2>1, <4>1, TailAt
      <4> QED
        BY <3>0, <4>1, <4>2, <4>3 DEF Placed
    <3>6. ASSUME NEW t \in Tasks, Inlined(t) \/ PutBack(t) \/ PutFront(t), Kept
          PROVE  Placed(tasks', batch', ExitBegun')
      <4>1. /\ t \notin Elements(tasks) \cup Elements(batch) /\ t \in Jobs /\ t # ExitJob
            /\ batch' = batch /\ ExitBegun' = ExitBegun
            /\ \/ tasks' = tasks \/ tasks' = Append(tasks, t) \/ tasks' = <<t>> \o tasks
        BY <2>1, <3>6 DEF Inlined, PutBack, PutFront, Kept
      <4>2. CASE tasks' = tasks
        BY <3>0, <4>1, <4>2 DEF Placed
      <4>3. CASE tasks' = Append(tasks, t) \/ tasks' = <<t>> \o tasks
        <5>1. Distinct(tasks') /\ Elements(tasks') = Elements(tasks) \cup {t}
          <6>1. /\ tasks \in Seq(Jobs) /\ t \in Jobs /\ Distinct(tasks)
                /\ t \notin Elements(tasks)
            BY <2>1, <3>0, <4>1
          <6>2. CASE tasks' = Append(tasks, t)
            BY <6>1, <6>2, DistinctAppend
          <6>3. CASE tasks' = <<t>> \o tasks
            BY <6>1, <6>3, DistinctPrepend
          <6> QED
            BY <4>3, <6>2, <6>3
        <5> QED
          BY <3>0, <4>1, <5>1 DEF Placed
      <4> QED
        BY <4>1, <4>2, <4>3
    <3> QED
      BY <3>1, <3>2, <3>3, <3>4, <3>5, <3>6, JobSteps DEF JobStep, Kept, JobInv
  <2>3. AtBody'
    <3> USE JobsAssumption DEF JobInv, AtBody, queueVars, pollerVars, clientVars, jobVars, history
    <3>1. CASE UNCHANGED vars \/ Over \/ RunLoop \/ Starting
      BY <3>1 DEF Over, vars, RunLoop, Starting, AssignThread, AwaitStarted
    <3>2. ASSUME NEW c \in Clients, Share(c) \/ Drop(c) \/ InCall(c) PROVE AtBody'
      <4>1. UNCHANGED <<exit, ppc, cur>>
        BY <3>2 DEF Share, Drop, InCall, InlineReturns, WritePipe, DtorPost, DtorWrite, Join, Close
      <4> QED
        BY <4>1
    <3>3. ASSUME NEW c \in Clients, NEW t \in Tasks,
                 AsyncInline(c, t) \/ \E first \in BOOLEAN : AsyncPush(c, t, first)
          PROVE  AtBody'
      BY <3>3 DEF AsyncInline, AsyncPush
    <3>4. ASSUME NEW t \in Tasks, Cancel(t) PROVE AtBody'
      BY <3>4 DEF Cancel
    <3>5. CASE PollerStep
      BY <3>5 DEF PollerStep, ThreadStart, Top, Wake, TimedOut, ReadPipe, PipeEmpty, ReadFails,
                  SwapTasks, BatchEnds, TestTask, CallTask, NestedPush, NestedWrite,
                  NestedInline, BodyEnds
    <3> QED
      BY <3>1, <3>2, <3>3, <3>4, <3>5 DEF Next, Step
  <2>4. HandlesKnown'
    <3>0. pc \in [Clients -> ClientPoints] /\ arg \in [Clients -> Tasks \cup {NoTask}]
      BY DEF TypeInv, TypeOK
    <3> USE DEF JobInv, HandlesKnown, queueVars, pollerVars, clientVars, jobVars, history, Goto
    <3>1. CASE UNCHANGED vars \/ Over \/ RunLoop \/ Starting
      BY <3>0, <3>1 DEF Over, vars, RunLoop, Starting, AssignThread, AwaitStarted
    <3>2. ASSUME NEW c \in Clients, Share(c) \/ Drop(c) \/ InCall(c) PROVE HandlesKnown'
      BY <3>0, <3>2 DEF Share, Drop, InCall, InlineReturns, WritePipe, DtorPost, DtorWrite, Join,
                        Close
    <3>3. ASSUME NEW c \in Clients, NEW t \in Tasks,
                 AsyncInline(c, t) \/ \E first \in BOOLEAN : AsyncPush(c, t, first)
          PROVE  HandlesKnown'
      BY <3>0, <3>3 DEF AsyncInline, AsyncPush
    <3>4. ASSUME NEW t \in Tasks, Cancel(t) PROVE HandlesKnown'
      BY <3>4 DEF Cancel
    <3>5. CASE PollerStep
      <4>1. issued \subseteq issued' /\ UNCHANGED <<pc, arg, handles>>
        BY <3>5 DEF PollerStep, ThreadStart, Top, Wake, TimedOut, ReadPipe, PipeEmpty, ReadFails,
                    SwapTasks, BatchEnds, TestTask, CallTask, NestedPush, NestedWrite,
                    NestedInline, BodyEnds
      <4> QED
        BY <4>1
    <3> QED
      BY <3>1, <3>2, <3>3, <3>4, <3>5 DEF Next, Step
  <2> QED
    BY <2>2, <2>3, <2>4 DEF JobInv
<1> QED
  BY <1>1, <1>2, Typing, OrderKept, ExitKept, PTL DEF Spec

\* The safety part of what TaskExecutor promises.
ExecutorSafety == Executor!Init /\ [][Executor!Next]_(Executor!vars)

\* Each step of the poller and its clients is a step of the task executor or leaves its
\* queue, its taken jobs and its history alone: jobs are taken from the head of the queue,
\* and a job that was taken is begun once, unless it was cancelled, and then never
\* (EventPoller.cc:259-274, 445-480; TaskExecutor.h:29-78).
THEOREM StepsAreExecutorSteps == Spec => ExecutorSafety
<1> DEFINE C == Elements(batch)
           B == Elements(begun) \cup {j \in {ExitJob} : ExitBegun}
           I == issued \cup {j \in {ExitJob} : ExitPosted}
<1>1. Init => Executor!Init
  <2> SUFFICES ASSUME Init PROVE Executor!Init
    OBVIOUS
  <2>1. Elements(tasks) = {} /\ C = {} /\ Elements(begun) = {}
    BY DEF Init, Elements
  <2>2. ~ExitBegun /\ ~ExitPosted
    BY <2>1, JobsAssumption DEF Init, ExitPosted, ExitBegun
  <2> QED
    BY <2>1, <2>2 DEF Init, Executor!Init
<1>2. TypeInv /\ OrderInv /\ ExitInv /\ JobInv /\ [Next]_vars
        => [Executor!Next]_(Executor!vars)
  <2> SUFFICES ASSUME TypeInv, OrderInv, ExitInv, JobInv, [Next]_vars
               PROVE  [Executor!Next]_(Executor!vars)
    OBVIOUS
  <2>0. /\ tasks \in Seq(Jobs) /\ batch \in Seq(Jobs) /\ begun \in Seq(Tasks)
        /\ ExitJob \in Jobs /\ \A t \in Tasks : t \in Jobs /\ t # ExitJob
        /\ issued \subseteq Tasks /\ handles \subseteq issued
    BY JobsAssumption DEF TypeInv, TypeOK, Jobs, JobInv, HandlesKnown
\* What the executor has of a job that changes place.
  <2>1. /\ (ExitPosted <=> ExitBegun \/ ExitJob \in Elements(tasks) \cup C)
        /\ (ExitPosted' <=> ExitBegun' \/ ExitJob \in Elements(tasks') \cup Elements(batch'))
        /\ C' = Elements(batch') /\ I' = issued' \cup {j \in {ExitJob} : ExitPosted'}
        /\ B' = Elements(begun') \cup {j \in {ExitJob} : ExitBegun'}
    BY DEF ExitPosted, Elements
  <2>2. ASSUME Quiet, ExitBegun' = ExitBegun,
               UNCHANGED cancelled \/ \E t \in handles : cancelled' = cancelled \cup {t}
        PROVE  [Executor!Next]_(Executor!vars)
    <3>1. tasks' = tasks /\ batch' = batch /\ begun' = begun /\ issued' = issued
      BY <2>2 DEF Quiet
    <3>2. tasks' = tasks /\ C' = C /\ B' = B /\ I' = I
      BY <2>1, <2>2, <3>1
    <3>3. CASE UNCHANGED cancelled
      BY <3>2, <3>3 DEF Executor!vars
    <3>4. ASSUME NEW t \in handles, cancelled' = cancelled \cup {t} PROVE Executor!Next
      <4>1. Executor!Cancel(t)
        BY <2>0, <3>2, <3>4 DEF Executor!Cancel
      <4> QED
        BY <2>0, <4>1 DEF Executor!Next
    <3> QED
      BY <2>2, <3>3, <3>4
  <2> HIDE DEF C, B, I
  <2>a. /\ C = Elements(batch) /\ I = issued \cup {j \in {ExitJob} : ExitPosted}
        /\ B = Elements(begun) \cup {j \in {ExitJob} : ExitBegun}
    BY DEF C, B, I
  <2>b. Distinct(tasks) /\ Distinct(batch)
    BY DEF JobInv, PlacedOnce, Placed
  <2>3. ASSUME PutExit, Kept, ~ExitPosted PROVE Executor!Next
    <3>1. /\ tasks' = Append(tasks, ExitJob) /\ batch' = batch /\ begun' = begun
          /\ issued' = issued /\ cancelled' = cancelled /\ ExitBegun' = ExitBegun
      BY <2>3 DEF PutExit, Kept
    <3>2. ExitJob \in Elements(tasks')
      BY <2>0, <3>1, AppendAt
    <3>3. ExitJob \notin I /\ I' = I \cup {ExitJob} /\ C' = C /\ B' = B
      BY <2>0, <2>1, <2>3, <2>a, <3>1, <3>2
    <3>4. Executor!Post(ExitJob, FALSE)
      BY <3>1, <3>3 DEF Executor!Post, C, B, I
    <3> QED
      BY <2>0, <3>4 DEF Executor!Next
  <2>4. ASSUME Taken, Kept, batch = <<>> PROVE [Executor!Next]_(Executor!vars)
    <3>1. /\ batch' = tasks /\ tasks' = <<>> /\ begun' = begun
          /\ issued' = issued /\ cancelled' = cancelled /\ ExitBegun' = ExitBegun
      BY <2>4 DEF Taken, Kept
    <3>2. C = {} /\ C' = Elements(tasks) /\ Elements(tasks') = {}
      <4>1. \A q : q = <<>> => Elements(q) = {}
        BY DEF Elements
      <4> QED
        BY <2>1, <2>4, <2>a, <3>1, <4>1
    <3>3. I' = I /\ B' = B
      BY <2>1, <2>a, <3>1, <3>2
    <3>4. CASE tasks = <<>>
      BY <2>4, <3>1, <3>2, <3>3, <3>4 DEF Executor!vars, Elements, C, B, I
    <3>5. CASE tasks # <<>>
      <4>1. Len(tasks) \in 1..Len(tasks) /\ SubSeq(tasks, Len(tasks) + 1, Len(tasks)) = <<>>
        BY <2>0, <3>5
      <4>2. C' = C \cup {tasks[i] : i \in 1..Len(tasks)}
        BY <3>2 DEF Elements
      <4>3. Executor!Claim(Len(tasks))
        BY <3>1, <3>3, <4>1, <4>2 DEF Executor!Claim, C, B, I
      <4> QED
        BY <4>1, <4>3 DEF Executor!Next
    <3> QED
      BY <3>4, <3>5
  <2>5. ASSUME batch # <<>>
        PROVE  /\ Head(batch) \in Jobs /\ Head(batch) \in C
               /\ Elements(Tail(batch)) = C \ {Head(batch)}
    <3>1. Elements(batch) = Elements(Tail(batch)) \cup {Head(batch)}
      BY <2>0, <2>5, TailAt
    <3>2. Elements(Tail(batch)) = Elements(batch) \ {Head(batch)}
      BY <2>0, <2>b, <2>5, DistinctTail
    <3> QED
      BY <2>0, <2>5, <2>a, <3>1, <3>2, BatchHead
  <2>6. ASSUME Skipped, Kept, Head(batch) \in cancelled PROVE Executor!Next
    <3>1. /\ batch # <<>> /\ batch' = Tail(batch) /\ tasks' = tasks /\ begun' = begun
          /\ issued' = issued /\ cancelled' = cancelled /\ ExitBegun' = ExitBegun
      BY <2>6 DEF Skipped, Kept
    <3>2. Head(batch) # ExitJob
      BY <2>0, <2>6 DEF TypeInv, TypeOK
    <3>3. C' = C \ {Head(batch)} /\ I' = I /\ B' = B
      BY <2>1, <2>5, <2>a, <3>1, <3>2
    <3>4. Executor!Skip(Head(batch))
      BY <2>5, <2>6, <3>1, <3>3 DEF Executor!Skip, C, B, I
    <3> QED
      BY <2>5, <3>1, <3>4 DEF Executor!Next, Executor!Settle
  <2>7. ASSUME BegunHead, Kept, Head(batch) \notin cancelled PROVE Executor!Next
    <3>1. /\ batch # <<>> /\ Head(batch) \in Tasks /\ batch' = Tail(batch) /\ tasks' = tasks
          /\ begun' = Append(begun, Head(batch))
          /\ issued' = issued /\ cancelled' = cancelled /\ ExitBegun' = ExitBegun
      BY <2>7 DEF BegunHead, Kept
    <3>2. Elements(begun') = Elements(begun) \cup {Head(batch)}
      BY <2>0, <3>1, AppendAt
    <3>3. C' = C \ {Head(batch)} /\ I' = I /\ B' = B \cup {Head(batch)}
      BY <2>0, <2>1, <2>5, <2>a, <3>1, <3>2
    <3>4. Executor!Begin(Head(batch))
      BY <2>5, <2>7, <3>1, <3>3 DEF Executor!Begin, C, B, I
    <3> QED
      BY <2>5, <3>1, <3>4 DEF Executor!Next, Executor!Settle
  <2>8. ASSUME ExitHead PROVE Executor!Next
    <3>1. /\ batch # <<>> /\ Head(batch) = ExitJob /\ batch' = Tail(batch) /\ tasks' = tasks
          /\ begun' = begun /\ issued' = issued /\ cancelled' = cancelled
          /\ ExitJob \notin cancelled /\ ExitBegun'
      BY <2>8 DEF ExitHead, Skipped
    <3>2. C' = C \ {ExitJob} /\ I' = I /\ B' = B \cup {ExitJob}
      BY <2>1, <2>5, <2>a, <3>1
    <3>3. Executor!Begin(ExitJob)
      BY <2>5, <3>1, <3>2 DEF Executor!Begin, C, B, I
    <3> QED
      BY <2>0, <3>3 DEF Executor!Next, Executor!Settle
  <2>9. ASSUME NEW t \in Tasks, Inlined(t) \/ PutBack(t) \/ PutFront(t), Kept
        PROVE  Executor!Next
    <3>1. /\ t \in Jobs /\ t # ExitJob /\ t \notin I /\ batch' = batch
          /\ issued' = issued \cup {t} /\ cancelled' = cancelled /\ ExitBegun' = ExitBegun
      BY <2>0, <2>9, <2>a DEF Inlined, PutBack, PutFront, Kept
    <3>2. CASE Inlined(t)
      <4>1. tasks' = tasks /\ begun' = Append(begun, t)
        BY <3>2 DEF Inlined
      <4>2. Elements(begun') = Elements(begun) \cup {t}
        BY <2>0, <4>1, AppendAt
      <4>3. C' = C /\ I' = I \cup {t} /\ B' = B \cup {t}
        BY <2>1, <2>a, <3>1, <4>1, <4>2
      <4>4. Executor!RunInline(t)
        BY <3>1, <4>1, <4>3 DEF Executor!RunInline, C, B, I
      <4> QED
        BY <3>1, <4>4 DEF Executor!Next
    <3>3. ASSUME NEW first \in BOOLEAN,
                 tasks' = IF first THEN <<t>> \o tasks ELSE Append(tasks, t), begun' = begun
          PROVE  Executor!Next
      <4>1. Elements(tasks') = Elements(tasks) \cup {t}
        <5>1. CASE first
          BY <2>0, <3>3, <5>1, PrependAt
        <5>2. CASE ~first
          BY <2>0, <3>3, <5>2, AppendAt
        <5> QED
          BY <5>1, <5>2
      <4>2. C' = C /\ I' = I \cup {t} /\ B' = B
        BY <2>1, <2>a, <3>1, <3>3, <4>1
      <4>3. Executor!Post(t, first)
        BY <3>1, <3>3, <4>2 DEF Executor!Post, C, B, I
      <4> QED
        BY <3>1, <4>3 DEF Executor!Next
    <3> QED
      BY <2>9, <3>2, <3>3 DEF PutBack, PutFront
  <2> QED
    BY <2>2, <2>3, <2>4, <2>6, <2>7, <2>8, <2>9, JobSteps DEF JobStep, Kept, JobInv
<1> QED
  BY <1>1, <1>2, Typing, OrderKept, ExitKept, JobsKept, PTL DEF Spec, ExecutorSafety
=============================================================================
