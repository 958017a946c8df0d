---------------------------- MODULE SyncCall_proofs ----------------------------
(***************************************************************************)
(* Proofs about SyncCall for every number of threads, executors and calls: *)
(* the stack frame of a caller of sync outlives the job that refers to it. *)
(*                                                                         *)
(* FrameOutlivesJob is not inductive: that the Semphore has been posted    *)
(* must mean that the job is over.  It does because a job is in one place  *)
(* at a time, from the queue of its executor to the end of its post.       *)
(***************************************************************************)
EXTENDS SyncCall, TLAPS

FrameType == [call : Calls, at : {"wait", "body", "post", "unlock"},
              inline : BOOLEAN, threw : BOOLEAN]

\* The variables have their types, stacks as sequences.
StackType ==
    /\ pending \in [Executors -> SUBSET Calls]
    /\ stack \in [Threads -> Seq(FrameType)]
    /\ nn \in [Calls -> {0, 1}] /\ locked \subseteq Calls /\ calls \in 0..MaxCalls

Places(t) == 1..Len(stack[t])

\* The frame of a caller that waits for a job in another thread.
Waits(f) == f.at = "wait" /\ ~f.inline

\* A call that has not been made has left no trace.
NotMade ==
    /\ \A e \in Executors : \A id \in pending[e] : id <= calls
    /\ \A t \in Threads : \A i \in Places(t) : stack[t][i].call <= calls
    /\ \A id \in Calls : id > calls => nn[id] = 0

\* A job is in the queue of one executor or in one frame.
OnePlace ==
    /\ \A e, d \in Executors : \A id \in pending[e] : id \in pending[d] => e = d
    /\ \A e \in Executors : \A id \in pending[e] : \A t \in Threads : \A i \in Places(t) :
         stack[t][i].call = id => Waits(stack[t][i])
    /\ \A t, u \in Threads : \A i \in Places(t), j \in Places(u) :
         (/\ stack[t][i].call = stack[u][j].call
          /\ ~Waits(stack[t][i]) /\ ~Waits(stack[u][j])) => t = u /\ i = j

\* All frames of a call that runs inline are inline.
OneMode ==
    \A t, u \in Threads : \A i \in Places(t), j \in Places(u) :
        (stack[t][i].call = stack[u][j].call /\ stack[t][i].inline) => stack[u][j].inline

\* The Semphore is posted by the end of the job only, and locked until the job is over.
PostsAtTheEnd ==
    /\ \A e \in Executors : \A id \in pending[e] : nn[id] = 0
    /\ \A t \in Threads : \A i \in Places(t) :
         /\ stack[t][i].at \in {"body", "post"} => nn[stack[t][i].call] = 0
         /\ stack[t][i].at = "unlock" => stack[t][i].call \in locked

\* A job that is not over, in a queue or a frame, has a caller that waits.
Waiting(id) == \E t \in Threads : \E i \in Places(t) :
                   stack[t][i].call = id /\ Waits(stack[t][i])
CallerWaits ==
    /\ \A e \in Executors : \A id \in pending[e] : Waiting(id)
    /\ \A t \in Threads : \A i \in Places(t) :
         ~stack[t][i].inline => Waiting(stack[t][i].call)

IInv == StackType /\ NotMade /\ OnePlace /\ OneMode /\ PostsAtTheEnd /\ CallerWaits

-----------------------------------------------------------------------------
\* A frame is put on a stack, taken from it, or replaced at its top.
LEMMA EnterFrame ==
  ASSUME StackType, NEW t \in Threads, NEW f \in FrameType, Enter(t, f)
  PROVE  /\ stack' \in [Threads -> Seq(FrameType)]
         /\ Len(stack'[t]) = Len(stack[t]) + 1 /\ stack'[t][1] = f
         /\ \A i \in Places(t) : stack'[t][i + 1] = stack[t][i]
         /\ \A i \in Places(t)' : i > 1 => i - 1 \in Places(t) /\ stack'[t][i] = stack[t][i - 1]
         /\ \A u \in Threads \ {t} : stack'[u] = stack[u]
<1>1. stack[t] \in Seq(FrameType)
  BY DEF StackType
<1> DEFINE s == <<f>> \o stack[t]
<1>2. /\ s \in Seq(FrameType) /\ Len(s) = Len(stack[t]) + 1 /\ s[1] = f
      /\ \A i \in 1..Len(stack[t]) : s[i + 1] = stack[t][i]
      /\ \A i \in 2..Len(s) : i - 1 \in 1..Len(stack[t]) /\ s[i] = stack[t][i - 1]
  BY <1>1
<1>3. stack' = [stack EXCEPT ![t] = s]
  BY DEF Enter
<1>4. stack'[t] = s /\ stack' \in [Threads -> Seq(FrameType)]
  BY <1>2, <1>3 DEF StackType
<1> HIDE DEF s
<1>5. \A u \in Threads \ {t} : stack'[u] = stack[u]
  BY <1>3 DEF StackType
<1> QED
  BY <1>1, <1>2, <1>4, <1>5 DEF Places

\* The stack without its top frame.
LEMMA LeaveFrame ==
  ASSUME StackType, NEW t \in Threads, stack[t] # <<>>, Leave(t)
  PROVE  /\ stack' \in [Threads -> Seq(FrameType)]
         /\ Len(stack'[t]) = Len(stack[t]) - 1
         /\ 1 \in Places(t) /\ Head(stack[t]) = stack[t][1]
         /\ \A i \in Places(t)' : i + 1 \in Places(t) /\ stack'[t][i] = stack[t][i + 1]
         /\ \A i \in Places(t) : i > 1 => i - 1 \in Places(t)' /\ stack'[t][i - 1] = stack[t][i]
         /\ \A u \in Threads \ {t} : stack'[u] = stack[u]
<1>1. stack[t] \in Seq(FrameType)
  BY DEF StackType
<1> DEFINE s == Tail(stack[t])
<1>2. /\ s \in Seq(FrameType) /\ Len(s) = Len(stack[t]) - 1 /\ 1 \in 1..Len(stack[t])
      /\ \A i \in 1..Len(s) : i + 1 \in 1..Len(stack[t]) /\ s[i] = stack[t][i + 1]
      /\ Head(stack[t]) = stack[t][1]
  BY <1>1
<1>3. stack' = [stack EXCEPT ![t] = s]
  BY DEF Leave
<1>4. stack'[t] = s /\ stack' \in [Threads -> Seq(FrameType)]
  BY <1>2, <1>3 DEF StackType
<1> HIDE DEF s
<1>5. \A u \in Threads \ {t} : stack'[u] = stack[u]
  BY <1>3 DEF StackType
<1>6. \A i \in 2..Len(stack[t]) : i - 1 \in 1..Len(s) /\ s[i - 1] = stack[t][i]
  <2> SUFFICES ASSUME NEW i \in 2..Len(stack[t])
               PROVE  i - 1 \in 1..Len(s) /\ s[i - 1] = stack[t][i]
    OBVIOUS
  <2>1. i - 1 \in 1..Len(s)
    BY <1>1, <1>2
  <2> QED
    BY <1>2, <2>1
<1> QED
  BY <1>1, <1>2, <1>4, <1>5, <1>6 DEF Places

\* The stack with another top frame.
LEMMA MoveFrame ==
  ASSUME StackType, NEW t \in Threads, stack[t] # <<>>, NEW f \in FrameType, Move(t, f)
  PROVE  /\ stack' \in [Threads -> Seq(FrameType)]
         /\ Len(stack'[t]) = Len(stack[t]) /\ stack'[t][1] = f
         /\ 1 \in Places(t) /\ Head(stack[t]) = stack[t][1]
         /\ \A i \in Places(t) : i > 1 => stack'[t][i] = stack[t][i]
         /\ \A u \in Threads \ {t} : stack'[u] = stack[u]
<1>1. stack[t] \in Seq(FrameType)
  BY DEF StackType
<1> DEFINE s == <<f>> \o Tail(stack[t])
<1>2. /\ s \in Seq(FrameType) /\ Len(s) = Len(stack[t]) /\ s[1] = f
      /\ 1 \in 1..Len(stack[t]) /\ Head(stack[t]) = stack[t][1]
      /\ \A i \in 2..Len(s) : s[i] = stack[t][i]
  <2>1. /\ Tail(stack[t]) \in Seq(FrameType) /\ Len(Tail(stack[t])) = Len(stack[t]) - 1
        /\ \A i \in 1..Len(Tail(stack[t])) : Tail(stack[t])[i] = stack[t][i + 1]
    BY <1>1
  <2> DEFINE r == Tail(stack[t])
  <2>2. /\ s \in Seq(FrameType) /\ Len(s) = Len(r) + 1 /\ s[1] = f
        /\ \A i \in 2..Len(s) : i - 1 \in 1..Len(r) /\ s[i] = r[i - 1]
    BY <2>1
  <2> QED
    BY <1>1, <2>1, <2>2
<1>3. stack' = [stack EXCEPT ![t] = s]
  BY DEF Move
<1>4. stack'[t] = s /\ stack' \in [Threads -> Seq(FrameType)]
  BY <1>2, <1>3 DEF StackType
<1> HIDE DEF s
<1>5. \A u \in Threads \ {t} : stack'[u] = stack[u]
  BY <1>3 DEF StackType
<1> QED
  BY <1>1, <1>2, <1>4, <1>5 DEF Places

\* A frame that moves on keeps its call, so it keeps its place in these invariants.
LEMMA MoveKeeps ==
  ASSUME StackType, NotMade, OnePlace, OneMode, CallerWaits,
         NEW t \in Threads, stack[t] # <<>>, NEW f \in FrameType, Move(t, f),
         f.call = Head(stack[t]).call, f.inline = Head(stack[t]).inline,
         Waits(f) <=> Waits(Head(stack[t])),
         UNCHANGED <<pending, calls>>, \A id \in Calls : id > calls => nn'[id] = 0
  PROVE  NotMade' /\ OnePlace' /\ OneMode' /\ CallerWaits'
<1>1. /\ \A u \in Threads : Places(u)' = Places(u)
      /\ \A u \in Threads : \A i \in Places(u) :
           /\ stack'[u][i].call = stack[u][i].call /\ stack'[u][i].inline = stack[u][i].inline
           /\ Waits(stack'[u][i]) <=> Waits(stack[u][i])
  <2> SUFFICES ASSUME NEW u \in Threads
               PROVE  /\ Places(u)' = Places(u)
                      /\ \A i \in Places(u) :
                           /\ stack'[u][i].call = stack[u][i].call
                           /\ stack'[u][i].inline = stack[u][i].inline
                           /\ Waits(stack'[u][i]) <=> Waits(stack[u][i])
    OBVIOUS
  <2>1. CASE u # t
    BY <2>1, MoveFrame DEF Places
  <2>2. CASE u = t
    <3>1. /\ Len(stack'[t]) = Len(stack[t]) /\ stack'[t][1] = f
          /\ Head(stack[t]) = stack[t][1]
          /\ \A i \in Places(t) : i > 1 => stack'[t][i] = stack[t][i]
      BY MoveFrame
    <3>2. \A i \in Places(t) : i = 1 \/ i > 1
      BY DEF Places
    <3> QED
      BY <2>2, <3>1, <3>2 DEF Places
  <2> QED
    BY <2>1, <2>2
<1>2. NotMade'
  BY <1>1 DEF NotMade
<1>3. OnePlace'
  BY <1>1 DEF OnePlace
<1>6. OneMode'
  BY <1>1 DEF OneMode
<1>4. \A id : Waiting(id) => Waiting(id)'
  BY <1>1 DEF Waiting
<1>5. CallerWaits'
  BY <1>1, <1>4 DEF CallerWaits
<1> QED
  BY <1>2, <1>3, <1>5, <1>6

\* What is over is that of nobody else: a frame of a job, or the caller of no job.
LEMMA LeaveKeeps ==
  ASSUME StackType, NotMade, OnePlace, OneMode, CallerWaits,
         NEW t \in Threads, stack[t] # <<>>, Leave(t),
         Waits(Head(stack[t])) =>
             /\ \A e \in Executors : Head(stack[t]).call \notin pending[e]
             /\ \A u \in Threads : \A i \in Places(u) :
                  stack[u][i].call = Head(stack[t]).call => Waits(stack[u][i]),
         UNCHANGED <<pending, calls>>, \A id \in Calls : id > calls => nn'[id] = 0
  PROVE  NotMade' /\ OnePlace' /\ OneMode' /\ CallerWaits'
<1> DEFINE Old(u, i) == IF u = t THEN i + 1 ELSE i
<1>1. \A u \in Threads : \A i \in Places(u)' :
         i \in Nat /\ Old(u, i) \in Places(u) /\ stack'[u][i] = stack[u][Old(u, i)]
  BY LeaveFrame DEF Places
<1>2. \A u \in Threads : \A i \in Places(u) : <<u, i>> # <<t, 1>> =>
         \E j \in Places(u)' : stack'[u][j] = stack[u][i]
  <2> SUFFICES ASSUME NEW u \in Threads, NEW i \in Places(u), <<u, i>> # <<t, 1>>
               PROVE  \E j \in Places(u)' : stack'[u][j] = stack[u][i]
    OBVIOUS
  <2>1. CASE u # t
    BY <2>1, LeaveFrame DEF Places
  <2>2. CASE u = t
    <3>1. i > 1
      BY <2>2 DEF Places
    <3>2. i - 1 \in Places(u)' /\ stack'[u][i - 1] = stack[u][i]
      BY <2>2, <3>1, LeaveFrame
    <3> QED
      BY <3>2
  <2> QED
    BY <2>1, <2>2
<1>3. 1 \in Places(t) /\ Head(stack[t]) = stack[t][1]
  BY LeaveFrame
<1>4. NotMade'
  BY <1>1 DEF NotMade
<1>5. OnePlace'
  <2>1. \A u \in Threads : \A i, j \in Nat : Old(u, i) = Old(u, j) => i = j
    OBVIOUS
  <2> HIDE DEF Old
  <2>2. \A e, d \in Executors : \A id \in pending[e] : id \in pending[d] => e = d
    BY DEF OnePlace
  <2>3. ASSUME NEW e \in Executors, NEW id \in pending[e], NEW u \in Threads,
               NEW i \in Places(u)', stack'[u][i].call = id
        PROVE  Waits(stack'[u][i])
    BY <1>1, <2>3 DEF OnePlace
  <2>4. ASSUME NEW u \in Threads, NEW v \in Threads,
               NEW i \in Places(u)', NEW j \in Places(v)',
               stack'[u][i].call = stack'[v][j].call,
               ~Waits(stack'[u][i]), ~Waits(stack'[v][j])
        PROVE  u = v /\ i = j
    <3>1. /\ i \in Nat /\ Old(u, i) \in Places(u) /\ stack'[u][i] = stack[u][Old(u, i)]
          /\ j \in Nat /\ Old(v, j) \in Places(v) /\ stack'[v][j] = stack[v][Old(v, j)]
      BY <1>1
    <3>2. u = v /\ Old(u, i) = Old(v, j)
      BY <2>4, <3>1 DEF OnePlace
    <3> QED
      BY <2>1, <3>1, <3>2
  <2> QED
    BY <2>2, <2>3, <2>4 DEF OnePlace
<1>8. OneMode'
  BY <1>1 DEF OneMode
<1>6. ASSUME NEW id, Waiting(id), ~(Waits(Head(stack[t])) /\ Head(stack[t]).call = id)
      PROVE  Waiting(id)'
  <2>1. PICK u \in Threads : \E i \in Places(u) : stack[u][i].call = id /\ Waits(stack[u][i])
    BY <1>6 DEF Waiting
  <2>2. PICK i \in Places(u) : stack[u][i].call = id /\ Waits(stack[u][i])
    BY <2>1
  <2>3. <<u, i>> # <<t, 1>>
    BY <1>3, <1>6, <2>2
  <2> QED
    BY <1>2, <2>2, <2>3 DEF Waiting
<1>7. CallerWaits'
  <2>1. ASSUME NEW e \in Executors, NEW id \in pending'[e] PROVE Waiting(id)'
    BY <1>6, <2>1 DEF CallerWaits
  <2>2. ASSUME NEW u \in Threads, NEW i \in Places(u)', ~stack'[u][i].inline
        PROVE  Waiting(stack[u][i].call)'
    <3>1. CASE Waits(stack'[u][i])
      BY <2>2, <3>1 DEF Waiting
    <3>2. CASE ~Waits(stack'[u][i])
      <4>1. Waiting(stack[u][Old(u, i)].call)
        BY <1>1, <2>2 DEF CallerWaits
      <4>2. ~(Waits(Head(stack[t])) /\ Head(stack[t]).call = stack[u][Old(u, i)].call)
        BY <1>1, <3>2
      <4> QED
        BY <1>1, <1>6, <4>1, <4>2
    <3> QED
      BY <3>1, <3>2
  <2> QED
    BY <2>1, <2>2 DEF CallerWaits
<1> QED
  BY <1>4, <1>5, <1>7, <1>8

-----------------------------------------------------------------------------
\* The job is given to an executor, or runs inline.
LEMMA SyncKeeps ==
  ASSUME IInv, NEW t \in Threads, NEW e \in Executors, Sync(t, e)
  PROVE  IInv'
<1> USE DEF IInv
<1>0. calls \in Nat /\ calls + 1 \in Calls
  BY ThreadAssumption DEF Sync, StackType, Calls
<1>a. PICK id \in Calls : id = calls + 1
  BY <1>0
<1>1. /\ calls \in Nat /\ id \in Calls /\ calls' = id /\ id <= MaxCalls /\ id = calls + 1
      /\ nn' = nn /\ locked' = locked
  BY <1>0, <1>a, ThreadAssumption DEF Sync, Calls
<1>2. /\ nn[id] = 0 /\ \A d \in Executors : id \notin pending[d]
      /\ \A u \in Threads : \A i \in Places(u) :
           stack[u][i].call # id /\ stack[u][i].call \in Calls
  <2>1. \A u \in Threads : \A i \in Places(u) : stack[u][i] \in FrameType
    BY DEF StackType, Places
  <2> QED
    BY <1>1, <2>1 DEF NotMade, FrameType, Calls, StackType
<1>3. PICK f \in FrameType :
        /\ Enter(t, f) /\ f.call = id /\ ~f.threw
        /\ \/ f.at = "body" /\ f.inline /\ pending' = pending
           \/ f.at = "wait" /\ ~f.inline /\ pending' = [pending EXCEPT ![e] = @ \cup {id}]
  <2>1. CASE CurrentThread(t, e)
    <3>1. Frame(id, "body", TRUE, FALSE) \in FrameType
      BY <1>1 DEF Frame, FrameType
    <3> QED
      BY <1>1, <2>1, <3>1 DEF Sync, Frame
  <2>2. CASE ~CurrentThread(t, e)
    <3>1. Frame(id, "wait", FALSE, FALSE) \in FrameType
      BY <1>1 DEF Frame, FrameType
    <3> QED
      BY <1>1, <2>2, <3>1 DEF Sync, Frame
  <2> QED
    BY <2>1, <2>2
<1>4. StackType'
  <2>1. stack' \in [Threads -> Seq(FrameType)]
    BY <1>3, EnterFrame
  <2>2. pending' \in [Executors -> SUBSET Calls]
    BY <1>1, <1>3 DEF StackType
  <2> QED
    BY <1>1, <2>1, <2>2 DEF StackType, Calls
<1>5. \A d \in Executors : \A x \in pending'[d] : x \in pending[d] \/ (x = id /\ d = e /\ Waits(f))
  BY <1>3 DEF StackType, Waits
\* Where each frame was, 0 for the one that is new.
<1> DEFINE Old(u, i) == IF u = t THEN i - 1 ELSE i
<1>6. /\ \A u \in Threads : \A i \in Places(u)' :
           \/ Old(u, i) \in Places(u) /\ stack'[u][i] = stack[u][Old(u, i)]
           \/ u = t /\ i = 1 /\ stack'[u][i] = f
      /\ \A u \in Threads : \A i \in Places(u) :
           \E j \in Places(u)' : stack'[u][j] = stack[u][i]
      /\ 1 \in Places(t)' /\ stack'[t][1] = f
  <2>1. /\ Len(stack[t]) \in Nat /\ Len(stack'[t]) = Len(stack[t]) + 1 /\ stack'[t][1] = f
        /\ \A i \in Places(t) : stack'[t][i + 1] = stack[t][i]
        /\ \A i \in Places(t)' : i > 1 => i - 1 \in Places(t) /\ stack'[t][i] = stack[t][i - 1]
        /\ \A u \in Threads \ {t} : stack'[u] = stack[u]
    BY <1>3, EnterFrame DEF StackType
  <2>2. /\ \A i \in Places(t) : i + 1 \in Places(t)'
        /\ \A i \in Places(t)' : i = 1 \/ i > 1
        /\ 1 \in Places(t)'
    BY <2>1 DEF Places
  <2>3. \A u \in Threads \ {t} : Places(u)' = Places(u)
    BY <2>1 DEF Places
  <2> QED
    BY <2>1, <2>2, <2>3
<1>b. \A u \in Threads : \A i \in Places(u)' :
         stack'[u][i].call = id => u = t /\ i = 1 /\ stack'[u][i] = f
  BY <1>2, <1>6
<1>7. \A x : Waiting(x) => Waiting(x)'
  BY <1>6 DEF Waiting
<1>8. NotMade'
  <2>1. \A d \in Executors : \A x \in pending'[d] : x \in Calls /\ x <= calls'
    BY <1>1, <1>4, <1>5 DEF NotMade, StackType, Calls
  <2>2. \A u \in Threads : \A i \in Places(u)' : stack'[u][i].call <= calls'
    BY <1>1, <1>2, <1>3, <1>6 DEF NotMade, Calls
  <2>3. \A x \in Calls : x > calls' => nn'[x] = 0
    BY <1>1 DEF NotMade, Calls
  <2> QED
    BY <2>1, <2>2, <2>3 DEF NotMade
<1>9. OnePlace'
  <2>1. \A d, c \in Executors : \A x \in pending'[d] : x \in pending'[c] => d = c
    BY <1>2, <1>5 DEF OnePlace
  <2>2. \A d \in Executors : \A x \in pending'[d] : \A u \in Threads : \A i \in Places(u)' :
           stack'[u][i].call = x => Waits(stack'[u][i])
    BY <1>2, <1>3, <1>5, <1>6 DEF OnePlace
  <2>3. ASSUME NEW u \in Threads, NEW v \in Threads, NEW i \in Places(u)', NEW j \in Places(v)',
               stack'[u][i].call = stack'[v][j].call,
               ~Waits(stack'[u][i]), ~Waits(stack'[v][j])
        PROVE  u = v /\ i = j
    <3>1. i \in Nat /\ j \in Nat
      BY DEF Places
    <3>2. CASE u = t /\ i = 1 /\ stack'[u][i] = f
      BY <1>2, <1>3, <1>6, <2>3, <3>2
    <3>3. CASE v = t /\ j = 1 /\ stack'[v][j] = f
      <4>1. stack'[u][i].call = id
        BY <1>3, <2>3, <3>3
      <4> QED
        BY <1>b, <3>3, <4>1
    <3>4. CASE /\ Old(u, i) \in Places(u) /\ stack'[u][i] = stack[u][Old(u, i)]
               /\ Old(v, j) \in Places(v) /\ stack'[v][j] = stack[v][Old(v, j)]
      <4>1. u = v /\ Old(u, i) = Old(v, j)
        BY <2>3, <3>4 DEF OnePlace
      <4> QED
        BY <3>1, <4>1
    <3> QED
      BY <1>6, <3>2, <3>3, <3>4
  <2> QED
    BY <2>1, <2>2, <2>3 DEF OnePlace
<1>12. OneMode'
  <2> SUFFICES ASSUME NEW u \in Threads, NEW v \in Threads,
                      NEW i \in Places(u)', NEW j \in Places(v)',
                      stack'[u][i].call = stack'[v][j].call, stack'[u][i].inline
               PROVE  stack'[v][j].inline
    BY DEF OneMode
  <2>1. CASE stack'[u][i].call = id
    <3>1. stack'[u][i] = f /\ stack'[v][j] = f
      BY <1>b, <2>1
    <3> QED
      BY <3>1
  <2>2. CASE stack'[u][i].call # id
    BY <1>3, <1>6, <2>2 DEF OneMode
  <2> QED
    BY <2>1, <2>2
<1>10. PostsAtTheEnd'
  <2>1. \A d \in Executors : \A x \in pending'[d] : nn'[x] = 0
    BY <1>1, <1>2, <1>5 DEF PostsAtTheEnd
  <2>2. \A u \in Threads : \A i \in Places(u)' :
           /\ stack'[u][i].at \in {"body", "post"} => nn'[stack'[u][i].call] = 0
           /\ stack'[u][i].at = "unlock" => stack'[u][i].call \in locked'
    BY <1>1, <1>2, <1>3, <1>6 DEF PostsAtTheEnd
  <2> QED
    BY <2>1, <2>2 DEF PostsAtTheEnd
<1>11. CallerWaits'
  <2>1. Waits(f) => Waiting(id)'
    BY <1>3, <1>6 DEF Waiting
  <2>2. \A d \in Executors : \A x \in pending'[d] : Waiting(x)'
    BY <1>5, <1>7, <2>1 DEF CallerWaits
  <2>3. ASSUME NEW u \in Threads, NEW i \in Places(u)', ~stack'[u][i].inline
        PROVE  Waiting(stack[u][i].call)'
    <3>1. CASE stack'[u][i] = f
      BY <1>3, <2>1, <2>3, <3>1 DEF Waits
    <3>2. CASE Old(u, i) \in Places(u) /\ stack'[u][i] = stack[u][Old(u, i)]
      BY <1>7, <2>3, <3>2 DEF CallerWaits
    <3> QED
      BY <1>6, <3>1, <3>2
  <2> QED
    BY <2>2, <2>3 DEF CallerWaits
<1> QED
  BY <1>4, <1>8, <1>9, <1>10, <1>11, <1>12

\* A worker begins a job: it was in the queue and in no frame, and is in one frame now.
LEMMA RunKeeps ==
  ASSUME IInv, NEW t \in Workers, NEW id \in Calls, Run(t, id)
  PROVE  IInv'
<1> USE DEF IInv
<1> DEFINE e == ExecutorOf[t]
           f == Frame(id, "body", FALSE, FALSE)
<1>1. t \in Threads /\ e \in Executors
  BY ThreadAssumption DEF Threads
<1>2. /\ id \in pending[e] /\ stack[t] = <<>> /\ Enter(t, f)
      /\ pending' = [pending EXCEPT ![e] = @ \ {id}]
      /\ nn' = nn /\ locked' = locked /\ calls' = calls
  BY DEF Run
<1>3. /\ f \in FrameType /\ f.call = id /\ f.at = "body" /\ ~f.inline /\ ~Waits(f)
  BY DEF Frame, FrameType, Waits
<1> HIDE DEF f
<1>4. /\ stack' \in [Threads -> Seq(FrameType)]
      /\ Places(t) = {} /\ Places(t)' = {1} /\ stack'[t][1] = f
      /\ \A u \in Threads \ {t} : Places(u)' = Places(u) /\ stack'[u] = stack[u]
  <2>1. Len(stack[t]) = 0
    BY <1>2
  <2> QED
    BY <1>1, <1>2, <1>3, <2>1, EnterFrame DEF Places
<1>5. /\ \A d \in Executors : pending'[d] \subseteq pending[d]
      /\ \A d \in Executors : id \notin pending'[d]
  BY <1>1, <1>2 DEF StackType, OnePlace
<1>6. StackType'
  BY <1>1, <1>2, <1>4 DEF StackType
<1>7. \A x : Waiting(x) => Waiting(x)'
  BY <1>4 DEF Waiting
<1>8. NotMade'
  <2>1. id <= calls
    BY <1>1, <1>2 DEF NotMade
  <2> QED
    BY <1>2, <1>3, <1>4, <1>5, <2>1 DEF NotMade
<1>9. OnePlace'
  <2>1. \A d, c \in Executors : \A x \in pending'[d] : x \in pending'[c] => d = c
    BY <1>5 DEF OnePlace
  <2>2. \A d \in Executors : \A x \in pending'[d] : \A u \in Threads : \A i \in Places(u)' :
           stack'[u][i].call = x => Waits(stack'[u][i])
    <3> SUFFICES ASSUME NEW d \in Executors, NEW x \in pending'[d],
                        NEW u \in Threads, NEW i \in Places(u)', stack'[u][i].call = x
                 PROVE  Waits(stack'[u][i])
      OBVIOUS
    <3>1. x \in pending[d] /\ x # id
      BY <1>5
    <3>2. u # t
      BY <1>3, <1>4, <3>1
    <3> QED
      BY <1>4, <3>1, <3>2 DEF OnePlace
  <2>3. \A u \in Threads : \A i \in Places(u) : stack[u][i].call = id => Waits(stack[u][i])
    BY <1>1, <1>2 DEF OnePlace
  <2>4. ASSUME NEW u \in Threads, NEW v \in Threads, NEW i \in Places(u)', NEW j \in Places(v)',
               stack'[u][i].call = stack'[v][j].call,
               ~Waits(stack'[u][i]), ~Waits(stack'[v][j])
        PROVE  u = v /\ i = j
    <3>1. CASE u = t /\ v = t
      BY <1>4, <3>1
    <3>2. CASE u # t /\ v # t
      BY <1>4, <2>4, <3>2 DEF OnePlace
    <3>3. CASE u = t /\ v # t
      BY <1>3, <1>4, <2>3, <2>4, <3>3
    <3>4. CASE u # t /\ v = t
      BY <1>3, <1>4, <2>3, <2>4, <3>4
    <3> QED
      BY <3>1, <3>2, <3>3, <3>4
  <2> QED
    BY <2>1, <2>2, <2>4 DEF OnePlace
<1>12. OneMode'
  <2> SUFFICES ASSUME NEW u \in Threads, NEW v \in Threads,
                      NEW i \in Places(u)', NEW j \in Places(v)',
                      stack'[u][i].call = stack'[v][j].call, stack'[u][i].inline
               PROVE  stack'[v][j].inline
    BY DEF OneMode
  <2>1. u # t /\ stack'[u][i] = stack[u][i] /\ i \in Places(u)
    BY <1>3, <1>4
  <2>2. stack[u][i].call # id
    BY <1>1, <1>2, <2>1 DEF OnePlace, Waits
  <2>3. v # t
    BY <1>3, <1>4, <2>1, <2>2
  <2> QED
    BY <1>4, <2>1, <2>3 DEF OneMode
<1>10. PostsAtTheEnd'
  <2>1. nn[id] = 0
    BY <1>1, <1>2 DEF PostsAtTheEnd
  <2> QED
    BY <1>2, <1>3, <1>4, <1>5, <2>1 DEF PostsAtTheEnd
<1>11. CallerWaits'
  <2>1. Waiting(id)'
    BY <1>1, <1>2, <1>7 DEF CallerWaits
  <2> QED
    BY <1>3, <1>4, <1>5, <1>7, <2>1 DEF CallerWaits
<1> QED
  BY <1>6, <1>8, <1>9, <1>10, <1>11, <1>12

\* Each step keeps the strengthened invariant.
THEOREM Inductive == Spec => []IInv
<1>1. Init => IInv
  <2> SUFFICES ASSUME Init PROVE IInv
    OBVIOUS
  <2>1. <<>> \in Seq(FrameType) /\ Len(<<>>) = 0
    OBVIOUS
  <2>2. \A t \in Threads : Places(t) = {}
    BY <2>1 DEF Init, Places
  <2>3. StackType
    BY <2>1, ThreadAssumption DEF Init, StackType
  <2> QED
    BY <2>2, <2>3 DEF Init, IInv, NotMade, OnePlace, OneMode, PostsAtTheEnd, CallerWaits
<1>2. IInv /\ [Next]_vars => IInv'
  <2> SUFFICES ASSUME IInv, [Next]_vars PROVE IInv'
    OBVIOUS
  <2> USE DEF IInv
  <2>0. \A t \in Threads : stack[t] # <<>> =>
           1 \in Places(t) /\ Head(stack[t]) = stack[t][1] /\ Head(stack[t]) \in FrameType
    BY DEF StackType, Places
  <2>1. ASSUME NEW t \in Threads, NEW e \in Executors, Sync(t, e) PROVE IInv'
    BY <2>1, SyncKeeps
  <2>2. ASSUME NEW t \in Workers, NEW id \in Calls, Run(t, id) PROVE IInv'
    BY <2>2, RunKeeps
  <2>3. ASSUME NEW t \in Threads, NEW threw \in BOOLEAN, BodyEnds(t, threw) PROVE IInv'
    <3> DEFINE h == Head(stack[t])
    <3>1. PICK f \in FrameType :
            /\ f.call = h.call /\ f.inline = h.inline /\ f.at = "post" /\ Move(t, f)
      <4>1. [h EXCEPT !.at = "post", !.threw = threw] \in FrameType
        BY <2>0, <2>3 DEF BodyEnds, In, FrameType
      <4> QED
        BY <2>0, <2>3, <4>1 DEF BodyEnds, In, FrameType
    <3>2. /\ stack[t] # <<>> /\ h.at = "body" /\ h = stack[t][1]
          /\ UNCHANGED <<pending, nn, locked, calls>>
      BY <2>0, <2>3 DEF BodyEnds, In
    <3>3. NotMade' /\ OnePlace' /\ OneMode' /\ CallerWaits'
      BY <3>1, <3>2, MoveKeeps DEF Waits, NotMade
    <3>4. /\ stack' \in [Threads -> Seq(FrameType)] /\ Len(stack'[t]) = Len(stack[t])
          /\ stack'[t][1] = f /\ \A i \in Places(t) : i > 1 => stack'[t][i] = stack[t][i]
          /\ \A u \in Threads \ {t} : stack'[u] = stack[u]
      BY <3>1, <3>2, MoveFrame
    <3>5. PostsAtTheEnd'
      <4>1. \A u \in Threads : Places(u)' = Places(u)
        BY <3>4 DEF Places
      <4>2. \A i \in Places(t) : i = 1 \/ i > 1
        BY DEF Places
      <4>3. nn[f.call] = 0
        BY <2>0, <3>1, <3>2 DEF PostsAtTheEnd
      <4> QED
        BY <3>1, <3>2, <3>4, <4>1, <4>2, <4>3 DEF PostsAtTheEnd
    <3> QED
      BY <3>2, <3>3, <3>4, <3>5 DEF StackType
  <2>4. ASSUME NEW t \in Threads, Post(t) PROVE IInv'
    <3> DEFINE h == Head(stack[t])
               f == [h EXCEPT !.at = "unlock"]
    <3>1. /\ stack[t] # <<>> /\ h.at = "post" /\ h = stack[t][1] /\ h \in FrameType
          /\ 1 \in Places(t)
      BY <2>0, <2>4 DEF Post, In
    <3>2. PICK id \in Calls : id = h.call
      BY <3>1 DEF FrameType
    <3>3. /\ f \in FrameType /\ f.call = id /\ f.inline = h.inline /\ f.at = "unlock"
          /\ Move(t, f) /\ nn' = [nn EXCEPT ![id] = @ + 1] /\ locked' = locked \cup {id}
          /\ UNCHANGED <<pending, calls>>
      BY <2>4, <3>1, <3>2 DEF Post, FrameType
    <3> HIDE DEF f
    <3>4. /\ id <= calls /\ nn[id] = 0 /\ ~Waits(h) /\ ~Waits(f)
          /\ nn' \in [Calls -> {0, 1}] /\ \A x \in Calls \ {id} : nn'[x] = nn[x]
      <4>1. nn[id] = 0 /\ id <= calls
        BY <3>1, <3>2 DEF PostsAtTheEnd, NotMade
      <4> QED
        BY <3>1, <3>3, <4>1 DEF StackType, Waits
    <3>5. NotMade' /\ OnePlace' /\ OneMode' /\ CallerWaits'
      <4>1. \A x \in Calls : x > calls => nn'[x] = 0
        BY <3>4 DEF NotMade, Calls, StackType
      <4> QED
        BY <3>1, <3>2, <3>3, <3>4, <4>1, MoveKeeps
    <3>6. /\ stack' \in [Threads -> Seq(FrameType)] /\ Len(stack'[t]) = Len(stack[t])
          /\ stack'[t][1] = f /\ \A i \in Places(t) : i > 1 => stack'[t][i] = stack[t][i]
          /\ \A u \in Threads \ {t} : stack'[u] = stack[u]
      BY <3>1, <3>3, MoveFrame
    <3>7. PostsAtTheEnd'
      <4>1. \A e \in Executors : id \notin pending[e]
        BY <3>1, <3>2, <3>4 DEF OnePlace
      <4>2. \A e \in Executors : \A x \in pending'[e] : nn'[x] = 0
        BY <3>3, <3>4, <4>1 DEF PostsAtTheEnd, StackType
      <4>3. ASSUME NEW u \in Threads, NEW i \in Places(u)', ~(u = t /\ i = 1)
            PROVE  /\ stack'[u][i] = stack[u][i] /\ i \in Places(u)
                   /\ stack[u][i].call \in Calls
        <5>1. i = 1 \/ i > 1
          BY DEF Places
        <5>2. i \in Places(u) /\ stack'[u][i] = stack[u][i]
          BY <3>6, <4>3, <5>1 DEF Places
        <5>3. stack[u][i] \in FrameType
          BY <5>2 DEF Places, StackType
        <5> QED
          BY <5>2, <5>3 DEF FrameType
      <4>4. ASSUME NEW u \in Threads, NEW i \in Places(u)'
            PROVE  /\ stack'[u][i].at \in {"body", "post"} => nn'[stack'[u][i].call] = 0
                   /\ stack'[u][i].at = "unlock" => stack'[u][i].call \in locked'
        <5>1. CASE u = t /\ i = 1
          BY <3>3, <3>6, <5>1
        <5>2. CASE ~(u = t /\ i = 1)
          <6>1. stack[u][i].at \in {"body", "post"} => stack[u][i].call # id
            BY <3>1, <3>2, <3>4, <4>3, <5>2 DEF OnePlace, Waits
          <6> QED
            BY <3>3, <3>4, <4>3, <5>2, <6>1 DEF PostsAtTheEnd
        <5> QED
          BY <5>1, <5>2
      <4> QED
        BY <4>2, <4>4 DEF PostsAtTheEnd
    <3> QED
      BY <3>3, <3>4, <3>5, <3>6, <3>7 DEF StackType
  <2>5. ASSUME NEW t \in Threads, Unlock(t) PROVE IInv'
    <3> DEFINE h == Head(stack[t])
    <3>1. /\ stack[t] # <<>> /\ h.at = "unlock" /\ h = stack[t][1] /\ h \in FrameType
          /\ 1 \in Places(t) /\ ~Waits(h)
      BY <2>0, <2>5 DEF Unlock, In, Waits
    <3>2. PICK id \in Calls : id = h.call
      BY <3>1 DEF FrameType
    <3>3. locked' = locked \ {id} /\ UNCHANGED <<pending, nn, calls>>
      BY <2>5, <3>2 DEF Unlock
    <3>4. \A u \in Threads : \A i \in Places(u) :
             ~(u = t /\ i = 1) /\ stack[u][i].call = id => Waits(stack[u][i])
      BY <3>1, <3>2 DEF OnePlace
    <3>5. CASE h.inline /\ ~h.threw
      <4> DEFINE f == [h EXCEPT !.at = "wait"]
      <4>1. /\ f \in FrameType /\ f.call = h.call /\ f.inline = h.inline /\ f.at = "wait"
            /\ Move(t, f)
        BY <2>5, <3>1, <3>5 DEF Unlock, FrameType
      <4> HIDE DEF f
      <4>2. NotMade' /\ OnePlace' /\ OneMode' /\ CallerWaits'
        BY <3>1, <3>3, <3>5, <4>1, MoveKeeps DEF Waits, NotMade
      <4>3. /\ stack' \in [Threads -> Seq(FrameType)] /\ Len(stack'[t]) = Len(stack[t])
            /\ stack'[t][1] = f /\ \A i \in Places(t) : i > 1 => stack'[t][i] = stack[t][i]
            /\ \A u \in Threads \ {t} : stack'[u] = stack[u]
        BY <3>1, <4>1, MoveFrame
      <4>4. PostsAtTheEnd'
        <5>1. \A u \in Threads : Places(u)' = Places(u)
          BY <4>3 DEF Places
        <5>2. \A i \in Places(t) : i = 1 \/ i > 1
          BY DEF Places
        <5>3. \A u \in Threads : \A i \in Places(u) : (u = t /\ i = 1) \/ stack'[u][i] = stack[u][i]
          BY <4>3, <5>2
        <5> QED
          BY <3>3, <3>4, <4>1, <4>3, <5>1, <5>3 DEF PostsAtTheEnd, Waits
      <4> QED
        BY <3>3, <4>2, <4>3, <4>4 DEF StackType
    <3>6. CASE ~(h.inline /\ ~h.threw)
      <4>1. Leave(t)
        BY <2>5, <3>6 DEF Unlock
      <4>2. NotMade' /\ OnePlace' /\ OneMode' /\ CallerWaits'
        BY <3>1, <3>3, <4>1, LeaveKeeps DEF NotMade
      <4>3. /\ stack' \in [Threads -> Seq(FrameType)]
            /\ \A i \in Places(t)' : i + 1 \in Places(t) /\ stack'[t][i] = stack[t][i + 1]
            /\ \A u \in Threads \ {t} : stack'[u] = stack[u]
        BY <3>1, <4>1, LeaveFrame
      <4>4. PostsAtTheEnd'
        <5>1. ASSUME NEW u \in Threads, NEW i \in Places(u)'
              PROVE  \E j \in Places(u) : stack'[u][i] = stack[u][j] /\ ~(u = t /\ j = 1)
          <6>1. CASE u = t
            <7>1. i + 1 # 1
              BY DEF Places
            <7> QED
              BY <4>3, <6>1, <7>1
          <6>2. CASE u # t
            BY <4>3, <6>2 DEF Places
          <6> QED
            BY <6>1, <6>2
        <5> QED
          BY <3>3, <3>4, <5>1 DEF PostsAtTheEnd, Waits
      <4> QED
        BY <3>3, <4>2, <4>3, <4>4 DEF StackType
    <3> QED
      BY <3>5, <3>6
  <2>6. ASSUME NEW t \in Threads, Wait(t) PROVE IInv'
    <3> DEFINE h == Head(stack[t])
    <3>1. /\ stack[t] # <<>> /\ h.at = "wait" /\ h = stack[t][1] /\ h \in FrameType
          /\ 1 \in Places(t)
      BY <2>0, <2>6 DEF Wait, In
    <3>2. PICK id \in Calls : id = h.call
      BY <3>1 DEF FrameType
    <3>3. /\ nn[id] > 0 /\ id \notin locked /\ nn' = [nn EXCEPT ![id] = @ - 1] /\ Leave(t)
          /\ UNCHANGED <<pending, locked, calls>>
      BY <2>6, <3>2 DEF Wait
    <3>4. /\ nn' \in [Calls -> {0, 1}] /\ \A x \in Calls : nn[x] = 0 => nn'[x] = 0
      BY <3>3 DEF StackType
\* The Semphore was posted and unlocked, so the job is over.
    <3>5. /\ \A e \in Executors : id \notin pending[e]
          /\ \A u \in Threads : \A i \in Places(u) : stack[u][i].call = id => stack[u][i].at = "wait"
      <4>1. \A e \in Executors : id \notin pending[e]
        BY <3>3 DEF PostsAtTheEnd
      <4>2. \A u \in Threads : \A i \in Places(u) : stack[u][i] \in FrameType
        BY DEF StackType, Places
      <4>3. \A u \in Threads : \A i \in Places(u) :
               stack[u][i].call = id => stack[u][i].at \notin {"body", "post", "unlock"}
        BY <3>3 DEF PostsAtTheEnd
      <4> QED
        BY <4>1, <4>2, <4>3 DEF FrameType
    <3>6. Waits(h) => \A u \in Threads : \A i \in Places(u) :
                          stack[u][i].call = id => Waits(stack[u][i])
      <4> SUFFICES ASSUME Waits(h), NEW u \in Threads, NEW i \in Places(u),
                          stack[u][i].call = id
                   PROVE  ~stack[u][i].inline
        BY <3>5 DEF Waits
      <4> QED
        BY <3>1, <3>2 DEF OneMode, Waits
    <3>7. NotMade' /\ OnePlace' /\ OneMode' /\ CallerWaits'
      BY <3>1, <3>2, <3>3, <3>4, <3>5, <3>6, LeaveKeeps DEF NotMade
    <3>8. /\ stack' \in [Threads -> Seq(FrameType)]
          /\ \A i \in Places(t)' : i + 1 \in Places(t) /\ stack'[t][i] = stack[t][i + 1]
          /\ \A u \in Threads \ {t} : stack'[u] = stack[u]
      BY <3>1, <3>3, LeaveFrame
    <3>9. PostsAtTheEnd'
      <4>1. \A u \in Threads : \A i \in Places(u)' : \E j \in Places(u) : stack'[u][i] = stack[u][j]
        BY <3>8 DEF Places
      <4>3. \A u \in Threads : \A i \in Places(u) : stack[u][i] \in FrameType
        BY DEF StackType, Places
      <4>2. \A u \in Threads : \A i \in Places(u) : stack[u][i].call \in Calls
        BY <4>3 DEF FrameType
      <4> QED
        BY <3>3, <3>4, <4>1, <4>2 DEF PostsAtTheEnd, StackType
    <3> QED
      BY <3>3, <3>4, <3>7, <3>8, <3>9 DEF StackType
  <2>7. CASE Idle \/ UNCHANGED vars
    <3>1. UNCHANGED vars
      BY <2>7 DEF Idle
    <3>2. \A t \in Threads : Places(t)' = Places(t)
      BY <3>1 DEF vars, Places
    <3>3. \A id : Waiting(id)' <=> Waiting(id)
      BY <3>1, <3>2 DEF vars, Waiting
    <3>4. StackType' /\ NotMade' /\ OnePlace' /\ OneMode' /\ PostsAtTheEnd'
      BY <3>1, <3>2 DEF vars, StackType, NotMade, OnePlace, OneMode, PostsAtTheEnd
    <3>5. CallerWaits'
      BY <3>1, <3>2, <3>3 DEF vars, CallerWaits
    <3> QED
      BY <3>4, <3>5
  <2> QED
    BY <2>1, <2>2, <2>3, <2>4, <2>5, <2>6, <2>7 DEF Next, Step
<1> QED
  BY <1>1, <1>2, PTL DEF Spec

-----------------------------------------------------------------------------
\* The variables keep their types.
THEOREM Typing == Spec => []TypeOK
<1>1. IInv => TypeOK
  <2> SUFFICES ASSUME IInv PROVE TypeOK
    OBVIOUS
  <2>1. \A t \in Threads : \A i \in 1..Len(stack[t]) : stack[t][i] \in FrameType
    BY DEF IInv, StackType
  <2> QED
    BY <2>1 DEF IInv, StackType, TypeOK, Frames, FrameType
<1> QED
  BY <1>1, Inductive, PTL

\* As long as a job may be begun, runs or posts, its caller is in sync: the Semphore and
\* the task the job refers to exist (TaskExecutor.h:45-54).
THEOREM CallerOutlivesJob == Spec => []FrameOutlivesJob
<1>1. IInv => FrameOutlivesJob
  <2> SUFFICES ASSUME IInv, NEW id \in Calls, UnderWay(id)
               PROVE  \E t \in Threads : \E f \in Frames(t) :
                          f.call = id /\ f.at = "wait" /\ ~f.inline
    BY DEF FrameOutlivesJob
  <2>1. Waiting(id)
    <3>1. CASE \E e \in Executors : id \in pending[e]
      BY <3>1 DEF IInv, CallerWaits
    <3>2. CASE \E w \in Workers : \E f \in Frames(w) : f.call = id /\ f.at # "wait" /\ ~f.inline
      <4>1. PICK w \in Workers : \E i \in Places(w) : stack[w][i].call = id /\ ~stack[w][i].inline
        BY <3>2 DEF Frames, Places
      <4> QED
        BY <4>1 DEF IInv, CallerWaits, Threads
    <3> QED
      BY <3>1, <3>2 DEF UnderWay
  <2>2. PICK t \in Threads : \E i \in Places(t) : stack[t][i].call = id /\ Waits(stack[t][i])
    BY <2>1 DEF Waiting
  <2> QED
    BY <2>2 DEF Waits, Frames, Places
<1> QED
  BY <1>1, Inductive, PTL
=============================================================================
