----------------------------- MODULE ThreadPool -----------------------------
(***************************************************************************)
(* avc::util::ThreadPool (thread/ThreadPool.h): workers that wait for a    *)
(* semaphore and then take a job from the list pedding_ under mutex_.  The *)
(* semaphore is the counting semaphore that Semphore.tla implements.       *)
(*                                                                         *)
(* A job that throws ends the process (run catches nothing): that case is  *)
(* left out, bodies return.                                                *)
(***************************************************************************)
EXTENDS Integers, Sequences, FiniteSets

CONSTANTS Workers,      \* threads_
          Clients,      \* threads that hold a shared_ptr to the pool
          Tasks,        \* jobs: each is passed to async once
          NoTask,       \* no job
          Nested        \* the job the body of a job posts to the same pool

ASSUME WorkersAssumption == IsFiniteSet(Workers) /\ IsFiniteSet(Clients)
ASSUME TasksAssumption == /\ NoTask \notin Tasks
                          /\ Nested \in [Tasks -> Tasks \cup {NoTask}]

Children == {Nested[t] : t \in Tasks} \ {NoTask}

VARIABLES
    exit,               \* exit_
    permits,            \* sem_: its counter
    waiters,            \* sem_: the workers that sleep in wait
    pedding,            \* pedding_
    wpc,                \* where each worker is
    job,                \* job of run: what the worker took
    pc,                 \* where each client is
    arg,                \* the job of its call
    holders,            \* clients that own a reference to the pool
    handles,            \* jobs whose async call has returned the job
    cancelled,          \* jobs whose strongTask_ is null
    issued,             \* history: jobs passed to async
    begun               \* history: jobs whose body was entered, in order

semVars    == <<permits, waiters>>
workerVars == <<wpc, job>>
clientVars == <<pc, arg, holders>>
jobVars    == <<handles, cancelled>>
history    == <<issued, begun>>
vars == <<exit, semVars, pedding, workerVars, clientVars, jobVars, history>>

Sem == INSTANCE CountingSemaphore
         WITH Threads <- Workers, PostSizes <- {1, Cardinality(Workers)}

Elements(s) == {s[i] : i \in 1..Len(s)}

\* The constructor has started the workers.
Init ==
    /\ exit = FALSE /\ Sem!Init /\ pedding = <<>>
    /\ wpc = [w \in Workers |-> "top"] /\ job = [w \in Workers |-> NoTask]
    /\ pc = [c \in Clients |-> "out"] /\ arg = [c \in Clients |-> NoTask]
    /\ holders = Clients
    /\ handles = {} /\ cancelled = {}
    /\ issued = {} /\ begun = <<>>

WorkerAt(w, l) == wpc' = [wpc EXCEPT ![w] = l]
ClientAt(c, l) == pc' = [pc EXCEPT ![c] = l]

-----------------------------------------------------------------------------
(* Clients.  A client is no worker, so currentThread() is false in it.     *)

\* push_back or push_front under mutex_.
Push(t, first) == /\ pedding' = IF first THEN <<t>> \o pedding ELSE Append(pedding, t)
                  /\ issued' = issued \cup {t}

Async(c, t, first) ==
    /\ pc[c] = "out" /\ c \in holders /\ t \notin issued \cup Children
    /\ Push(t, first)
    /\ arg' = [arg EXCEPT ![c] = t]
    /\ ClientAt(c, "post")
    /\ UNCHANGED <<exit, semVars, workerVars, holders, jobVars, begun>>

\* Mutant: the semaphore is posted only if the queue was empty before.
PostIfFirst(c) ==
    /\ pc[c] = "post"
    /\ IF Len(pedding) > 1 THEN UNCHANGED semVars ELSE Sem!Release(1)
    /\ handles' = handles \cup {arg[c]}
    /\ ClientAt(c, "out")
    /\ UNCHANGED <<exit, pedding, workerVars, arg, holders, cancelled, history>>

\* sem_.post(), and the job is returned.
Post(c) ==
    /\ pc[c] = "post"
    /\ Sem!Release(1)
    /\ handles' = handles \cup {arg[c]}
    /\ ClientAt(c, "out")
    /\ UNCHANGED <<exit, pedding, workerVars, arg, holders, cancelled, history>>

Cancel(t) ==
    /\ t \in handles \ cancelled
    /\ cancelled' = cancelled \cup {t}
    /\ UNCHANGED <<exit, semVars, pedding, workerVars, clientVars, handles, history>>

\* The last reference runs ~ThreadPool and shutdown().
Drop(c) ==
    /\ pc[c] = "out" /\ c \in holders
    /\ holders' = holders \ {c}
    /\ ClientAt(c, IF holders = {c} THEN "dtor" ELSE "out")
    /\ UNCHANGED <<exit, semVars, pedding, workerVars, arg, jobVars, history>>

SetExit(c) ==
    /\ pc[c] = "dtor"
    /\ exit' = TRUE
    /\ ClientAt(c, "postall")
    /\ UNCHANGED <<semVars, pedding, workerVars, arg, holders, jobVars, history>>

\* Mutant: one permit for all the workers.
PostAllOnce(c) ==
    /\ pc[c] = "postall"
    /\ Sem!Release(1)
    /\ ClientAt(c, "join")
    /\ UNCHANGED <<exit, pedding, workerVars, arg, holders, jobVars, history>>

\* sem_.post(threads_.size())
PostAll(c) ==
    /\ pc[c] = "postall"
    /\ Sem!Release(Cardinality(Workers))
    /\ ClientAt(c, "join")
    /\ UNCHANGED <<exit, pedding, workerVars, arg, holders, jobVars, history>>

\* Each thread is joined, and the pool is destroyed.
JoinAll(c) ==
    /\ pc[c] = "join"
    /\ \A w \in Workers : wpc[w] = "done"
    /\ ClientAt(c, "gone")
    /\ UNCHANGED <<exit, semVars, pedding, workerVars, arg, holders, jobVars, history>>

-----------------------------------------------------------------------------
(* Workers. *)

Top(w) ==
    /\ wpc[w] = "top"
    /\ WorkerAt(w, IF exit THEN "done" ELSE "wait")
    /\ UNCHANGED <<exit, semVars, pedding, job, clientVars, jobVars, history>>

\* sem_.wait(): sleep, or take a permit and go on.
Sleep(w) ==
    /\ wpc[w] = "wait"
    /\ Sem!Arrive(w)
    /\ UNCHANGED <<exit, pedding, workerVars, clientVars, jobVars, history>>

Pass(w) ==
    /\ wpc[w] = "wait"
    /\ Sem!Pass(w)
    /\ WorkerAt(w, "pop")
    /\ UNCHANGED <<exit, pedding, job, clientVars, jobVars, history>>

\* Under mutex_: the first job, if there is one.
Pop(w) ==
    /\ wpc[w] = "pop"
    /\ IF pedding = <<>> THEN WorkerAt(w, "top") /\ UNCHANGED <<job, pedding>>
       ELSE /\ job' = [job EXCEPT ![w] = Head(pedding)]
            /\ pedding' = Tail(pedding)
            /\ WorkerAt(w, "test")
    /\ UNCHANGED <<exit, semVars, clientVars, jobVars, history>>

\* job && *job
Test(w) ==
    /\ wpc[w] = "test"
    /\ WorkerAt(w, IF job[w] \in cancelled THEN "top" ELSE "call")
    /\ UNCHANGED <<exit, semVars, pedding, job, clientVars, jobVars, history>>

\* Mutant: the job is called on the strength of the first test.
CallUnchecked(w) ==
    /\ wpc[w] = "call"
    /\ WorkerAt(w, "body") /\ begun' = Append(begun, job[w])
    /\ UNCHANGED <<exit, semVars, pedding, job, clientVars, jobVars, issued>>

\* (*job)() locks weakTask_, and runs the body only if that succeeds.
Call(w) ==
    /\ wpc[w] = "call"
    /\ IF job[w] \in cancelled THEN WorkerAt(w, "top") /\ UNCHANGED begun
       ELSE WorkerAt(w, "body") /\ begun' = Append(begun, job[w])
    /\ UNCHANGED <<exit, semVars, pedding, job, clientVars, jobVars, issued>>

MayNest(w) == wpc[w] = "body" /\ Nested[job[w]] \notin issued \cup {NoTask}

\* The body of a job posts another: queued with may_sync = false, run within
\* the call otherwise, because currentThread() is true in a worker.
NestedPush(w) ==
    /\ MayNest(w)
    /\ Push(Nested[job[w]], FALSE)
    /\ WorkerAt(w, "npost")
    /\ UNCHANGED <<exit, semVars, job, clientVars, jobVars, begun>>

NestedPost(w) ==
    /\ wpc[w] = "npost"
    /\ Sem!Release(1)
    /\ WorkerAt(w, "body")
    /\ UNCHANGED <<exit, pedding, job, clientVars, jobVars, history>>

NestedInline(w) ==
    /\ MayNest(w)
    /\ issued' = issued \cup {Nested[job[w]]}
    /\ begun' = Append(begun, Nested[job[w]])
    /\ UNCHANGED <<exit, semVars, pedding, workerVars, clientVars, jobVars>>

BodyEnds(w) ==
    /\ wpc[w] = "body"
    /\ WorkerAt(w, "top")
    /\ UNCHANGED <<exit, semVars, pedding, job, clientVars, jobVars, history>>

-----------------------------------------------------------------------------
InCall(c) == Post(c) \/ SetExit(c) \/ PostAll(c) \/ JoinAll(c)
Running(w) == \/ Top(w) \/ Sleep(w) \/ Pop(w) \/ Test(w) \/ Call(w)
              \/ NestedPush(w) \/ NestedPost(w) \/ NestedInline(w) \/ BodyEnds(w)

Gone == (\E c \in Clients : pc[c] = "gone") /\ UNCHANGED vars

Next == \/ \E c \in Clients : InCall(c) \/ Drop(c)
        \/ \E c \in Clients, t \in Tasks, first \in BOOLEAN : Async(c, t, first)
        \/ \E t \in Tasks : Cancel(t)
        \/ \E w \in Workers : Running(w) \/ Pass(w)
        \/ Gone

\* Every thread that can take a step is run; of the workers at the semaphore,
\* some worker passes while there are permits (Semphore.tla).
Fairness == /\ \A c \in Clients : WF_vars(InCall(c))
            /\ \A w \in Workers : WF_vars(Running(w))
            /\ WF_vars(\E w \in Workers : Pass(w))

Spec == Init /\ [][Next]_vars /\ Fairness

-----------------------------------------------------------------------------
TypeOK ==
    /\ exit \in BOOLEAN /\ permits \in Nat /\ waiters \subseteq Workers
    /\ pedding \in Seq(Tasks)
    /\ wpc \in [Workers -> {"top", "wait", "pop", "test", "call", "body", "npost", "done"}]
    /\ job \in [Workers -> Tasks \cup {NoTask}]
    /\ pc \in [Clients -> {"out", "post", "dtor", "postall", "join", "gone"}]
    /\ arg \in [Clients -> Tasks \cup {NoTask}]
    /\ holders \subseteq Clients
    /\ handles \subseteq Tasks \cup {NoTask} /\ cancelled \subseteq handles
    /\ issued \subseteq Tasks /\ begun \in Seq(Tasks)

\* Threads that pushed a job and have not posted its permit yet, and workers
\* that have taken a permit and not looked at the queue yet.
Posting == {c \in Clients : pc[c] = "post"}
NestedPosting == {w \in Workers : wpc[w] = "npost"}
Popping == {w \in Workers : wpc[w] = "pop"}
Promised == permits + Cardinality(Posting) + Cardinality(NestedPosting)
                    + Cardinality(Popping)
ShutdownPosted == \E c \in Clients : pc[c] \in {"join", "gone"}

\* Jobs and permits keep pace although they are under different mutexes: until
\* shutdown posts, there is one permit, or one thread between its two steps, for
\* each queued job, so that no worker finds the queue empty and no job is left
\* with every worker asleep; later there may be permits too many, never too few
\* (ThreadPool.h:69-97, 99-132).
PermitPerJob == IF ShutdownPosted THEN Len(pedding) <= Promised
                ELSE Len(pedding) = Promised

\* Jobs do not stay in the queue: it is emptied, since no more jobs than Tasks are
\* posted, unless the pool is shut down first.  What is taken from it is begun or
\* skipped by IsTaskExecutor.
QueueDrains == pedding # <<>> ~> pedding = <<>> \/ exit

\* The destructor returns: each worker takes at most one permit after exit_ is
\* set, so the permits of shutdown reach all of them (ThreadPool.h:99-141).
DestructorReturns == \A c \in Clients : pc[c] = "dtor" ~> pc[c] = "gone"

Executor == INSTANCE TaskExecutor
    WITH queue <- pedding,
         claimed <- {job[w] : w \in {v \in Workers : wpc[v] \in {"test", "call"}}},
         begun <- Elements(begun)

\* The pool is a task executor: jobs are taken from the head of the queue, each
\* by one worker, and begun at most once and never after being cancelled; a job
\* that a worker took is run even if the pool is shutting down.
IsTaskExecutor == Executor!Spec
=============================================================================
