----------------------------- MODULE EventPoller -----------------------------
(***************************************************************************)
(* avc::util::EventPoller (poller/EventPoller.h, EventPoller.cc) as a task *)
(* executor: the queue tasks_ under tasks_mutex_, the pipe that wakes      *)
(* epoll_wait, the thread that runs runLoop(true), and the threads that    *)
(* create, share, use and destroy the poller.                              *)
(*                                                                         *)
(* A critical section of tasks_mutex_, a read or a write of the pipe, the  *)
(* read of thread_ and the two tests of a job are one step each; every     *)
(* other interleaving is left to Next.  Timers only show as time-outs of   *)
(* epoll_wait here (DelayTask.tla models them), and sockets not at all.    *)
(***************************************************************************)
EXTENDS Integers, Sequences

CONSTANTS Clients,      \* threads that hold a shared_ptr to the poller
          Owner,        \* the one that creates it and calls runLoop()
          Tasks,        \* jobs: each is passed to async once
          ExitJob,      \* the job that shutdown posts
          NoTask,       \* no job
          Nested,       \* the job the body of a job posts to the same poller
          PipeCap,      \* bytes the pipe holds
          ReadSize,     \* bytes one read of the pipe takes
          ReadErrors    \* a read of the pipe may fail but for EAGAIN

ASSUME JobsAssumption == /\ Owner \in Clients
                         /\ ExitJob \notin Tasks /\ NoTask \notin Tasks
                         /\ ExitJob # NoTask
                         /\ Nested \in [Tasks -> Tasks \cup {NoTask}]
ASSUME PipeAssumption == PipeCap \in Nat \ {0} /\ ReadSize \in Nat \ {0}
ASSUME UseAssumption == ReadErrors \in BOOLEAN

Jobs == Tasks \cup {ExitJob}
Children == {Nested[t] : t \in Tasks} \ {NoTask}
Closed == -1

VARIABLES
    exit,               \* exit_
    thread,             \* thread_ is set
    tasks,              \* tasks_
    pipe,               \* bytes in pipe_, or Closed
    ppc,                \* where the poller thread is
    batch,              \* tmp in onPipeEvent, from the job at hand on
    cur,                \* the job whose body the poller thread is in
    pc,                 \* where each client is
    arg,                \* the job a client's call is about
    holders,            \* clients that own a reference to the poller
    handles,            \* jobs whose async call has returned the job
    cancelled,          \* jobs whose strongTask_ is null
    aborted,            \* std::terminate was called
    issued,             \* history: jobs passed to async
    order,              \* history: jobs put at the back of tasks_, in order
    begun               \* history: jobs whose body was entered, in order

queueVars  == <<tasks, pipe>>
pollerVars == <<exit, ppc, batch, cur>>
clientVars == <<pc, arg, holders>>
jobVars    == <<handles, cancelled>>
history    == <<issued, order, begun>>
vars == <<queueVars, pollerVars, clientVars, jobVars, history, thread, aborted>>

Elements(s) == {s[i] : i \in 1..Len(s)}

\* PipeWrapper: reOpenFD makes an empty pipe; write blocks while it is full; read
\* takes what there is, up to the size of the buffer.
ReOpenFD == 0

Write == pipe < PipeCap /\ pipe' = pipe + 1

Read == pipe > 0 /\ pipe' = IF pipe > ReadSize THEN pipe - ReadSize ELSE 0

\* attachPipeEvent registers the read end; it opens only a pipe that has no
\* descriptors.
AttachPipeEvent(p) == IF p = Closed THEN ReOpenFD ELSE p

Init ==
    /\ exit = FALSE /\ thread = FALSE
    /\ tasks = <<>> /\ pipe = AttachPipeEvent(Closed)
    /\ ppc = "none" /\ batch = <<>> /\ cur = NoTask
    /\ pc = [c \in Clients |-> "out"] /\ arg = [c \in Clients |-> NoTask]
    /\ holders = {Owner}
    /\ handles = {} /\ cancelled = {} /\ aborted = FALSE
    /\ issued = {} /\ order = <<>> /\ begun = <<>>

Goto(c, l) == pc' = [pc EXCEPT ![c] = l]

\* currentThread() in a client: true while thread_ is null.
CurrentThread(c) == ~thread

-----------------------------------------------------------------------------
(* Creating, starting and sharing the poller. *)

\* runLoop(false): the thread object is constructed, thread_ not assigned yet.
RunLoop ==
    /\ pc[Owner] = "out" /\ Owner \in holders /\ ppc = "none"
    /\ exit' = FALSE /\ ppc' = "born"
    /\ Goto(Owner, "assign")
    /\ UNCHANGED <<queueVars, batch, cur, arg, holders, jobVars, history, thread, aborted>>

AssignThread ==
    /\ pc[Owner] = "assign"
    /\ thread' = TRUE
    /\ Goto(Owner, "await")
    /\ UNCHANGED <<queueVars, pollerVars, arg, holders, jobVars, history, aborted>>

\* sem_started_.wait() returns once the new thread has posted.
AwaitStarted ==
    /\ pc[Owner] = "await" /\ ppc # "born"
    /\ Goto(Owner, "out")
    /\ UNCHANGED <<queueVars, pollerVars, arg, holders, jobVars, history, thread, aborted>>

\* The owner gives another thread a shared_ptr to the poller.
Share(c) ==
    /\ pc[Owner] = "out" /\ Owner \in holders
    /\ c \notin holders
    /\ holders' = holders \cup {c}
    /\ UNCHANGED <<queueVars, pollerVars, pc, arg, jobVars, history, thread, aborted>>

-----------------------------------------------------------------------------
(* async and async_first from a client. *)

MayPost(c, t) == /\ pc[c] = "out" /\ c \in holders
                 /\ t \notin issued \cup Children

\* may_sync and currentThread(): the body runs in the calling thread.
AsyncInline(c, t) ==
    /\ MayPost(c, t)
    /\ CurrentThread(c)
    /\ issued' = issued \cup {t} /\ begun' = Append(begun, t)
    /\ arg' = [arg EXCEPT ![c] = t]
    /\ Goto(c, "inline")
    /\ UNCHANGED <<queueVars, pollerVars, holders, jobVars, order, thread, aborted>>

InlineReturns(c) ==
    /\ pc[c] = "inline"
    /\ Goto(c, "out")
    /\ UNCHANGED <<queueVars, pollerVars, arg, holders, jobVars, history, thread, aborted>>

\* Mutant: push_back puts the job at the front.
PushFrontAlways(t, first) == tasks' = <<t>> \o tasks

\* push_back or push_front under tasks_mutex_.
Push(t, first) == tasks' = IF first THEN <<t>> \o tasks ELSE Append(tasks, t)

AsyncPush(c, t, first) ==
    /\ MayPost(c, t)
    /\ Push(t, first)
    /\ issued' = issued \cup {t}
    /\ order' = IF first THEN order ELSE Append(order, t)
    /\ arg' = [arg EXCEPT ![c] = t]
    /\ Goto(c, "write")
    /\ UNCHANGED <<pipe, pollerVars, holders, jobVars, begun, thread, aborted>>

\* Mutant: the wake-up byte is not written.
NoWakeup(c) ==
    /\ pc[c] = "write"
    /\ handles' = handles \cup {arg[c]}
    /\ Goto(c, "out")
    /\ UNCHANGED <<queueVars, pollerVars, arg, holders, cancelled, history, thread, aborted>>

\* writePipe: the write end blocks while the pipe is full.  The job is returned.
WritePipe(c) ==
    /\ pc[c] = "write"
    /\ Write
    /\ handles' = handles \cup {arg[c]}
    /\ Goto(c, "out")
    /\ UNCHANGED <<tasks, pollerVars, arg, holders, cancelled, history, thread, aborted>>

\* TaskCancelable::cancel by a thread that was given the job.
Cancel(t) ==
    /\ t \in handles \ cancelled
    /\ cancelled' = cancelled \cup {t}
    /\ UNCHANGED <<queueVars, pollerVars, clientVars, handles, history, thread, aborted>>

-----------------------------------------------------------------------------
(* Dropping references; the last one runs ~EventPoller and shutdown(). *)

Drop(c) ==
    /\ pc[c] = "out" /\ c \in holders
    /\ holders' = holders \ {c}
    /\ Goto(c, IF holders = {c} THEN "dtor" ELSE "out")
    /\ UNCHANGED <<queueVars, pollerVars, arg, jobVars, history, thread, aborted>>

\* Mutant: shutdown sets exit_ itself and only wakes the loop.
DtorSetsExit(c) ==
    /\ pc[c] = "dtor"
    /\ exit' = TRUE
    /\ Goto(c, "dwrite")
    /\ UNCHANGED <<queueVars, ppc, batch, cur, arg, holders, jobVars, history, thread, aborted>>

\* shutdown posts the job that throws Exit.  Run inline (currentThread() is true
\* for a poller without a thread) the exception leaves the destructor.
DtorPost(c) ==
    /\ pc[c] = "dtor"
    /\ \/ /\ CurrentThread(c)
          /\ aborted' = ~exit
          /\ Goto(c, "join")
          /\ UNCHANGED tasks
       \/ /\ ~CurrentThread(c)
          /\ Push(ExitJob, FALSE)
          /\ Goto(c, "dwrite")
          /\ UNCHANGED aborted
    /\ UNCHANGED <<pipe, pollerVars, arg, holders, jobVars, history, thread>>

DtorWrite(c) ==
    /\ pc[c] = "dwrite"
    /\ Write
    /\ Goto(c, "join")
    /\ UNCHANGED <<tasks, pollerVars, arg, holders, jobVars, history, thread, aborted>>

\* Mutant: the thread is detached and not joined.
Detach(c) ==
    /\ pc[c] = "join"
    /\ thread' = FALSE
    /\ Goto(c, "close")
    /\ UNCHANGED <<queueVars, pollerVars, arg, holders, jobVars, history, aborted>>

\* thread_->join() returns when the poller thread has left runLoop.
Join(c) ==
    /\ pc[c] = "join"
    /\ thread => ppc = "done"
    /\ thread' = FALSE
    /\ Goto(c, "close")
    /\ UNCHANGED <<queueVars, pollerVars, arg, holders, jobVars, history, aborted>>

\* The pipe and the epoll descriptor are closed; jobs still queued are freed.
Close(c) ==
    /\ pc[c] = "close"
    /\ pipe' = Closed
    /\ Goto(c, "out")
    /\ UNCHANGED <<tasks, pollerVars, arg, holders, jobVars, history, thread, aborted>>

-----------------------------------------------------------------------------
(* The poller thread. *)

\* sem_started_.post(), then runLoop(true).
ThreadStart ==
    /\ ppc = "born"
    /\ ppc' = "top"
    /\ UNCHANGED <<queueVars, exit, batch, cur, clientVars, jobVars, history, thread, aborted>>

\* Mutant: the loop does not look at exit_.
TopForever ==
    /\ ppc = "top"
    /\ ppc' = "poll"
    /\ UNCHANGED <<queueVars, exit, batch, cur, clientVars, jobVars, history, thread, aborted>>

Top ==
    /\ ppc = "top"
    /\ ppc' = IF exit THEN "done" ELSE "poll"
    /\ UNCHANGED <<queueVars, exit, batch, cur, clientVars, jobVars, history, thread, aborted>>

\* epoll_wait reports the read end of the pipe and onPipeEvent is called.
Wake ==
    /\ ppc = "poll" /\ pipe > 0
    /\ ppc' = "drain"
    /\ UNCHANGED <<queueVars, exit, batch, cur, clientVars, jobVars, history, thread, aborted>>

\* epoll_wait returns without a ready pipe: a delay task is due, or a signal.
TimedOut ==
    /\ ppc = "poll" /\ pipe = 0
    /\ ppc' = "top"
    /\ UNCHANGED <<queueVars, exit, batch, cur, clientVars, jobVars, history, thread, aborted>>

ReadPipe ==
    /\ ppc = "drain"
    /\ Read
    /\ UNCHANGED <<tasks, pollerVars, clientVars, jobVars, history, thread, aborted>>

\* Mutant: onPipeEvent returns when the pipe is empty.
PipeEmptyReturns ==
    /\ ppc = "drain" /\ pipe = 0
    /\ ppc' = "top"
    /\ UNCHANGED <<queueVars, exit, batch, cur, clientVars, jobVars, history, thread, aborted>>

\* read fails with EAGAIN.
PipeEmpty ==
    /\ ppc = "drain" /\ pipe = 0
    /\ ppc' = "swap"
    /\ UNCHANGED <<queueVars, exit, batch, cur, clientVars, jobVars, history, thread, aborted>>

\* read fails otherwise: the read end is registered again and the loop is left.
ReadFails ==
    /\ ReadErrors
    /\ ppc = "drain"
    /\ pipe' = AttachPipeEvent(pipe)
    /\ ppc' = "swap"
    /\ UNCHANGED <<tasks, exit, batch, cur, clientVars, jobVars, history, thread, aborted>>

\* Under tasks_mutex_: return if there is no job, else take them all.
SwapTasks ==
    /\ ppc = "swap"
    /\ batch' = tasks /\ tasks' = <<>>
    /\ ppc' = IF tasks = <<>> THEN "top" ELSE "run"
    /\ UNCHANGED <<pipe, exit, cur, clientVars, jobVars, history, thread, aborted>>

BatchEnds ==
    /\ ppc = "run" /\ batch = <<>>
    /\ ppc' = "top"
    /\ UNCHANGED <<queueVars, exit, batch, cur, clientVars, jobVars, history, thread, aborted>>

\* task && *task: a job whose strongTask_ is null is skipped.
TestTask ==
    /\ ppc = "run" /\ batch # <<>>
    /\ IF Head(batch) \in cancelled
       THEN batch' = Tail(batch) /\ UNCHANGED ppc
       ELSE ppc' = "call" /\ UNCHANGED batch
    /\ UNCHANGED <<queueVars, exit, cur, clientVars, jobVars, history, thread, aborted>>

\* Mutant: the job is called on the strength of the first test.
CallUnchecked ==
    /\ ppc = "call"
    /\ batch' = Tail(batch) /\ cur' = Head(batch) /\ ppc' = "body"
    /\ begun' = IF Head(batch) = ExitJob THEN begun ELSE Append(begun, Head(batch))
    /\ UNCHANGED <<queueVars, exit, clientVars, jobVars, issued, order, thread, aborted>>

\* (*task)() locks weakTask_, and runs the body only if that succeeds.
CallTask ==
    /\ ppc = "call"
    /\ batch' = Tail(batch)
    /\ IF Head(batch) \in cancelled
       THEN ppc' = "run" /\ UNCHANGED <<cur, begun>>
       ELSE /\ cur' = Head(batch) /\ ppc' = "body"
            /\ begun' = IF Head(batch) = ExitJob THEN begun
                        ELSE Append(begun, Head(batch))
    /\ UNCHANGED <<queueVars, exit, clientVars, jobVars, issued, order, thread, aborted>>

\* The body of a job posts another with may_sync = false.
NestedPush ==
    /\ ppc = "body" /\ cur \in Tasks
    /\ Nested[cur] \notin issued \cup {NoTask}
    /\ Push(Nested[cur], FALSE)
    /\ issued' = issued \cup {Nested[cur]}
    /\ order' = Append(order, Nested[cur])
    /\ ppc' = "nwrite"
    /\ UNCHANGED <<pipe, exit, batch, cur, clientVars, jobVars, begun, thread, aborted>>

NestedWrite ==
    /\ ppc = "nwrite"
    /\ Write
    /\ ppc' = "body"
    /\ UNCHANGED <<tasks, exit, batch, cur, clientVars, jobVars, history, thread, aborted>>

\* With may_sync it runs within the call.
NestedInline ==
    /\ ppc = "body" /\ cur \in Tasks
    /\ Nested[cur] \notin issued \cup {NoTask}
    /\ issued' = issued \cup {Nested[cur]}
    /\ begun' = Append(begun, Nested[cur])
    /\ UNCHANGED <<queueVars, pollerVars, clientVars, jobVars, order, thread, aborted>>

\* The body returns or throws.  Exit sets exit_; the batch goes on either way.
BodyEnds ==
    /\ ppc = "body"
    /\ exit' = (exit \/ cur = ExitJob)
    /\ cur' = NoTask
    /\ ppc' = "run"
    /\ UNCHANGED <<queueVars, batch, clientVars, jobVars, history, thread, aborted>>

-----------------------------------------------------------------------------
\* The steps of a call a client is in, and the steps of the poller thread.
InCall(c) == \/ InlineReturns(c) \/ WritePipe(c)
             \/ DtorPost(c) \/ DtorWrite(c) \/ Join(c) \/ Close(c)
Starting == AssignThread \/ AwaitStarted
PollerStep == \/ ThreadStart \/ Top \/ Wake \/ TimedOut
              \/ ReadPipe \/ PipeEmpty \/ ReadFails \/ SwapTasks \/ BatchEnds
              \/ TestTask \/ CallTask
              \/ NestedPush \/ NestedWrite \/ NestedInline \/ BodyEnds

Step ==
    \/ RunLoop \/ Starting \/ PollerStep
    \/ \E c \in Clients : Share(c) \/ Drop(c) \/ InCall(c)
    \/ \E c \in Clients, t \in Tasks :
         \/ AsyncInline(c, t)
         \/ \E first \in BOOLEAN : AsyncPush(c, t, first)
    \/ \E t \in Tasks : Cancel(t)

\* The poller is destroyed, or the process is.
Over == (aborted \/ pipe = Closed) /\ UNCHANGED vars

Next == (~aborted /\ Step) \/ Over

\* The operating system runs every thread that can take a step.
Fairness == /\ WF_vars(~aborted /\ PollerStep)
            /\ WF_vars(~aborted /\ Starting)
            /\ \A c \in Clients : WF_vars(~aborted /\ InCall(c))

Spec == Init /\ [][Next]_vars /\ Fairness
-----------------------------------------------------------------------------
ClientPoints == {"out", "inline", "write", "assign", "await",
                 "dtor", "dwrite", "join", "close"}
PollerPoints == {"none", "born", "top", "poll", "drain", "swap", "run", "call",
                 "body", "nwrite", "done"}

TypeOK ==
    /\ exit \in BOOLEAN /\ thread \in BOOLEAN /\ aborted \in BOOLEAN
    /\ tasks \in Seq(Jobs) /\ batch \in Seq(Jobs)
    /\ pipe \in Closed..PipeCap
    /\ ppc \in PollerPoints /\ cur \in Jobs \cup {NoTask}
    /\ pc \in [Clients -> ClientPoints]
    /\ arg \in [Clients -> Tasks \cup {NoTask}]
    /\ holders \subseteq Clients
    /\ handles \subseteq Tasks \cup {NoTask} /\ cancelled \subseteq handles
    /\ issued \subseteq Tasks
    /\ order \in Seq(Tasks) /\ begun \in Seq(Tasks)

\* A client in a call owns a reference; the one in the destructor is alone, the
\* pipe is open until it is through, and the loop is over before it closes it.
InUse   == {"inline", "write", "assign", "await"}
Leaving == {"dtor", "dwrite", "join", "close"}
Ended   == ppc \in {"none", "done"}
Lifecycle ==
    /\ \A c \in Clients : pc[c] \in InUse => c \in holders
    /\ \A c \in Clients : pc[c] \in Leaving =>
         /\ holders = {} /\ pipe # Closed
         /\ \A d \in Clients \ {c} : pc[d] = "out"
         /\ pc[c] = "close" => Ended
    /\ pipe = Closed => holders = {} /\ Ended /\ \A c \in Clients : pc[c] = "out"
    /\ ~thread /\ ~Ended => pc[Owner] = "assign"
    /\ ppc = "call" => batch # <<>>

\* The poller thread is about to take the whole queue.
Collecting == ppc \in {"drain", "swap"}
\* Somebody has put a job into the queue and not written the pipe yet.
Waking == ppc = "nwrite" \/ \E c \in Clients : pc[c] \in {"write", "dwrite"}

\* A queued job is never left with nobody to wake the loop for it: async pushes
\* and then writes (EventPoller.cc:264-272), onPipeEvent empties the pipe and
\* then takes the queue (EventPoller.cc:428-454), in every interleaving.
NoLostWakeup ==
    tasks # <<>> => pipe > 0 \/ Waking \/ Collecting \/ pipe = Closed

\* Jobs put at the back of the queue are begun in the order they were put there,
\* over any number of threads, batches, cancellations and async_first calls
\* (EventPoller.cc:267, 449-480).
InOrder ==
    \A i, j \in 1..Len(begun), k, l \in 1..Len(order) :
        begun[i] = order[k] /\ begun[j] = order[l] /\ k < l => i < j

\* When the poller thread has left runLoop, each job that a client posted before
\* the destructor has been begun or was cancelled: Exit goes to the back of the
\* queue and the batch that holds it is finished (EventPoller.cc:156-161, 456-480).
DrainedAtExit ==
    ppc = "done" => issued \ Children \subseteq Elements(begun) \cup cancelled

\* The pipe outlives its users: once shutdown has closed it, no thread is in the
\* loop and no client is in a call that would read or write it (the reference
\* counts and the join of EventPoller.cc:163-170).
PipeOutlivesUsers ==
    pipe = Closed => /\ ppc \in {"none", "done"}
                     /\ \A c \in Clients : pc[c] = "out"

\* Jobs a client has posted that are neither begun nor cancelled.
Awaited == issued \ (Children \cup Elements(begun) \cup cancelled)

\* Once the poller has its thread, what clients have posted, before or since, is
\* begun unless it is cancelled: each job writes the pipe, and the loop takes the
\* whole queue (EventPoller.cc:264-272, 449-480).
PostedIsBegun == thread /\ Awaited # {} ~> Awaited = {}

\* A destructor that has been entered ends: shutdown wakes the loop, Exit leaves
\* it, and the join returns, unless the process ends (EventPoller.cc:155-177).
DestructorReturns == (\E c \in Clients : pc[c] = "dtor") ~> pipe = Closed \/ aborted

\* Exit is a job like the others to the executor, posted by nobody but shutdown.
ExitBegun == exit \/ cur = ExitJob
ExitPosted == ExitBegun \/ ExitJob \in Elements(tasks) \cup Elements(batch)

Executor == INSTANCE TaskExecutor
    WITH Tasks <- Jobs,
         queue <- tasks,
         claimed <- Elements(batch),
         begun <- Elements(begun) \cup {j \in {ExitJob} : ExitBegun},
         issued <- issued \cup {j \in {ExitJob} : ExitPosted}

\* The poller is a task executor: jobs are taken from the head of the queue, begun
\* at most once and never after being cancelled, also when cancel falls between
\* the test of a job and its call; a job that was taken is run even if Exit is
\* caught before it.
IsTaskExecutor == Executor!Spec
=============================================================================
