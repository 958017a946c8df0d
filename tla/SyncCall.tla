------------------------------ MODULE SyncCall ------------------------------
(***************************************************************************)
(* TaskExecutorInterface::sync and sync_first (thread/TaskExecutor.h): a   *)
(* thread passes a job to an executor and waits on a Semphore until it has *)
(* been run.  The job refers to the Semphore and to the task in the stack  *)
(* frame of the call; a OnceToken (util/OnceToken.h) posts the Semphore    *)
(* when the body is left.  Bodies call sync in their turn, and executors   *)
(* with different numbers of threads wait for each other.                  *)
(*                                                                         *)
(* That an executor runs each job it is given once is what                 *)
(* TaskExecutor.tla promises; here it takes them in any order, which       *)
(* covers both ends of its queue.  post holds the mutex of the Semphore    *)
(* for a while, since what matters is what the caller does meanwhile;      *)
(* wait is one step, when the mutex is free (Semphore.tla has the          *)
(* details).                                                               *)
(***************************************************************************)
EXTENDS Integers, Sequences, FiniteSets

CONSTANTS Clients,      \* threads of the program
          Workers,      \* threads of executors
          Executors,
          ExecutorOf,   \* the executor of each worker
          Catches,      \* executors that catch what a job throws
          MayCall,      \* pairs of executors: jobs of the one call sync of the other
          MaxCalls      \* bound of the model: calls of sync

Threads == Clients \cup Workers
Calls == 1..MaxCalls

ASSUME ThreadAssumption == /\ Clients \cap Workers = {}
                           /\ ExecutorOf \in [Workers -> Executors]
                           /\ Catches \subseteq Executors
                           /\ MaxCalls \in Nat

\* Assumption on the program: executors do not call each other in a circle.  If they
\* do, their threads may all wait for one another.
ASSUME NoCircle ==
    \E rank \in [Executors -> 1..Cardinality(Executors)] :
        \A c \in MayCall : rank[c[1]] < rank[c[2]]

VARIABLES
    pending,            \* jobs each executor has been given and not begun
    stack,              \* frames of sync and of jobs of each thread, innermost first
    nn,                 \* nn_ of the Semphore of each call
    locked,             \* calls whose Semphore is locked by post
    calls               \* history: calls made

vars == <<pending, stack, nn, locked, calls>>

\* A frame of a call that waits for its job, or of the job: in its body, in ~OnceToken
\* or about to unlock the Semphore.  inline: sync runs the job in the calling thread.
Frame(id, at, inline, threw) == [call |-> id, at |-> at, inline |-> inline, threw |-> threw]

Init ==
    /\ pending = [e \in Executors |-> {}]
    /\ stack = [t \in Threads |-> <<>>]
    /\ nn = [id \in Calls |-> 0] /\ locked = {} /\ calls = 0

In(t, at) == stack[t] # <<>> /\ Head(stack[t]).at = at
Enter(t, frame) == stack' = [stack EXCEPT ![t] = <<frame>> \o @]
Leave(t) == stack' = [stack EXCEPT ![t] = Tail(@)]
Move(t, frame) == stack' = [stack EXCEPT ![t] = <<frame>> \o Tail(@)]

CurrentThread(t, e) == t \in Workers /\ ExecutorOf[t] = e

-----------------------------------------------------------------------------
\* Who may call sync of e: a client, or the body of a job.
MaySync(t, e) ==
    \/ t \in Clients /\ stack[t] = <<>>
    \/ /\ t \in Workers /\ In(t, "body")
       /\ CurrentThread(t, e) \/ <<ExecutorOf[t], e>> \in MayCall

\* async with may_sync: the body is entered at once in a thread of the executor,
\* else the job is given to it and the caller waits.
Sync(t, e) ==
    /\ MaySync(t, e)
    /\ calls < MaxCalls /\ calls' = calls + 1
    /\ IF CurrentThread(t, e)
       THEN /\ Enter(t, Frame(calls', "body", TRUE, FALSE))
            /\ UNCHANGED pending
       ELSE /\ Enter(t, Frame(calls', "wait", FALSE, FALSE))
            /\ pending' = [pending EXCEPT ![e] = @ \cup {calls'}]
    /\ UNCHANGED <<nn, locked>>

\* A thread of the executor begins a job.
Run(w, id) ==
    /\ stack[w] = <<>>
    /\ id \in pending[ExecutorOf[w]]
    /\ pending' = [pending EXCEPT ![ExecutorOf[w]] = @ \ {id}]
    /\ Enter(w, Frame(id, "body", FALSE, FALSE))
    /\ UNCHANGED <<nn, locked, calls>>

\* Mutant: the post is a statement behind the call of the task.
BodyEndsWithPost(t, threw) ==
    /\ In(t, "body")
    /\ threw => Head(stack[t]).inline \/ ExecutorOf[t] \in Catches
    /\ IF threw THEN Leave(t) ELSE Move(t, [Head(stack[t]) EXCEPT !.at = "post"])
    /\ UNCHANGED <<pending, nn, locked, calls>>

\* task() returns or throws.  What it throws reaches the loop of the executor, or the
\* caller of sync when it runs inline; an executor that does not catch ends the program.
BodyEnds(t, threw) ==
    /\ In(t, "body")
    /\ threw => Head(stack[t]).inline \/ ExecutorOf[t] \in Catches
    /\ Move(t, [Head(stack[t]) EXCEPT !.at = "post", !.threw = threw])
    /\ UNCHANGED <<pending, nn, locked, calls>>

\* ~OnceToken calls post: the mutex is taken, nn_ counted up and the waiter notified ...
Post(t) ==
    /\ In(t, "post")
    /\ LET f == Head(stack[t]) IN
         /\ nn' = [nn EXCEPT ![f.call] = @ + 1]
         /\ locked' = locked \cup {f.call}
         /\ Move(t, [f EXCEPT !.at = "unlock"])
    /\ UNCHANGED <<pending, calls>>

\* ... and the mutex is given back.  The job is over; a call that has run it inline
\* goes on to its wait, unless the task has thrown.
Unlock(t) ==
    /\ In(t, "unlock")
    /\ LET f == Head(stack[t]) IN
         /\ locked' = locked \ {f.call}
         /\ IF f.inline /\ ~f.threw THEN Move(t, [f EXCEPT !.at = "wait"]) ELSE Leave(t)
    /\ UNCHANGED <<pending, nn, calls>>

\* Mutant: the waiter looks at nn_ without the mutex.
WaitUnlocked(t) ==
    /\ In(t, "wait")
    /\ LET id == Head(stack[t]).call IN
         /\ nn[id] > 0
         /\ nn' = [nn EXCEPT ![id] = @ - 1]
    /\ Leave(t)
    /\ UNCHANGED <<pending, locked, calls>>

\* sem.wait() returns, and sync does: the Semphore is gone.
Wait(t) ==
    /\ In(t, "wait")
    /\ LET id == Head(stack[t]).call IN
         /\ nn[id] > 0 /\ id \notin locked
         /\ nn' = [nn EXCEPT ![id] = @ - 1]
    /\ Leave(t)
    /\ UNCHANGED <<pending, locked, calls>>

-----------------------------------------------------------------------------
Step(t) ==
    \/ t \in Workers /\ \E id \in Calls : Run(t, id)
    \/ \E threw \in BOOLEAN : BodyEnds(t, threw)
    \/ Post(t) \/ Unlock(t) \/ Wait(t)

\* Nothing is under way and the bound is reached.
Idle == calls = MaxCalls /\ (\A t \in Threads : stack[t] = <<>>) /\ UNCHANGED vars

Next == Idle \/ \E t \in Threads : Step(t) \/ \E e \in Executors : Sync(t, e)

\* Every thread that can go on is run, and bodies end.
Spec == Init /\ [][Next]_vars /\ \A t \in Threads : WF_vars(Step(t))
-----------------------------------------------------------------------------
Frames(t) == {stack[t][i] : i \in 1..Len(stack[t])}

TypeOK ==
    /\ pending \in [Executors -> SUBSET Calls]
    /\ \A t \in Threads : \A f \in Frames(t) :
         f \in [call : Calls, at : {"wait", "body", "post", "unlock"},
                inline : BOOLEAN, threw : BOOLEAN]
    /\ nn \in [Calls -> {0, 1}] /\ locked \subseteq Calls /\ calls \in 0..MaxCalls

\* A job that somebody may still begin, is in, or that posts the Semphore.
UnderWay(id) ==
    \/ \E e \in Executors : id \in pending[e]
    \/ \E w \in Workers : \E f \in Frames(w) : f.call = id /\ f.at # "wait" /\ ~f.inline

\* The task and the Semphore outlive the job that refers to them, up to the unlock
\* at the end of post: the caller is in sync until then, however the body is left
\* ([&] at TaskExecutor.h:45-54; Semphore.h:21-37, 46-61).
FrameOutlivesJob ==
    \A id \in Calls : UnderWay(id) =>
        \E t \in Threads : \E f \in Frames(t) : f.call = id /\ f.at = "wait" /\ ~f.inline

\* Every call of sync returns, and every worker is idle again, with bodies that throw
\* and bodies that call sync of their own executor or of others, as long as executors
\* do not call each other in a circle (TaskExecutor.h:43-69).
SyncReturns == \A t \in Threads : stack[t] # <<>> ~> stack[t] = <<>>
=============================================================================
