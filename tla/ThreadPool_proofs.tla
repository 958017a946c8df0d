-------------------------- MODULE ThreadPool_proofs --------------------------
(***************************************************************************)
(* Proofs about ThreadPool for every number of workers, clients and jobs:  *)
(* queue and semaphore keep pace, and each step is a step of a task        *)
(* executor.                                                               *)
(***************************************************************************)
EXTENDS ThreadPool, FiniteSetTheorems, SequenceTheorems, TLAPS

\* A worker that tests, calls or runs a job has one.
JobInHand == \A w \in Workers :
                 wpc[w] \in {"test", "call", "body", "npost"} => job[w] \in Tasks
TypeInv == TypeOK /\ JobInHand

\* What is put into the list are jobs, and what is left of it too.
LEMMA PushType ==
  ASSUME pedding \in Seq(Tasks), issued \subseteq Tasks,
         NEW t \in Tasks, NEW first \in BOOLEAN, Push(t, first)
  PROVE  /\ pedding' \in Seq(Tasks) /\ issued' \subseteq Tasks
         /\ Len(pedding') = Len(pedding) + 1
<1>1. <<t>> \o pedding \in Seq(Tasks) /\ Append(pedding, t) \in Seq(Tasks)
  OBVIOUS
<1>2. Len(<<t>> \o pedding) = Len(pedding) + 1 /\ Len(Append(pedding, t)) = Len(pedding) + 1
  OBVIOUS
<1> QED
  BY <1>1, <1>2 DEF Push

\* The job that is popped.
LEMMA PopType ==
  ASSUME pedding \in Seq(Tasks), pedding # <<>>
  PROVE  /\ Head(pedding) \in Tasks /\ Tail(pedding) \in Seq(Tasks)
         /\ Len(Tail(pedding)) = Len(pedding) - 1
OBVIOUS

\* The variables keep their types (ThreadPool.h:143-157).
THEOREM Typing == Spec => []TypeInv
<1> USE TasksAssumption DEF TypeInv, TypeOK, JobInHand
<1>1. Init => TypeInv
  <2> SUFFICES ASSUME Init PROVE TypeInv
    OBVIOUS
  <2>1. <<>> \in Seq(Tasks)
    OBVIOUS
  <2> QED
    BY <2>1 DEF Init, Sem!Init
<1>2. TypeInv /\ [Next]_vars => TypeInv'
  <2> SUFFICES ASSUME TypeInv, [Next]_vars PROVE TypeInv'
    OBVIOUS
  <2> USE DEF ClientAt, WorkerAt, semVars, workerVars, clientVars, jobVars, history
  <2>1. ASSUME NEW c \in Clients, NEW t \in Tasks, NEW first \in BOOLEAN, Async(c, t, first)
        PROVE  TypeInv'
    <3>1. Push(t, first)
      BY <2>1 DEF Async
    <3>2. pedding' \in Seq(Tasks) /\ issued' \subseteq Tasks
      BY <3>1, PushType
    <3> QED
      BY <2>1, <3>2 DEF Async
  <2>2. ASSUME NEW c \in Clients, InCall(c) PROVE TypeInv'
    <3>1. CASE Post(c)
      BY <3>1 DEF Post, Sem!Release
    <3>2. CASE SetExit(c)
      BY <3>2 DEF SetExit
    <3>3. CASE PostAll(c)
      <4>1. Cardinality(Workers) \in Nat
        BY WorkersAssumption, FS_CardinalityType
      <4> QED
        BY <3>3, <4>1 DEF PostAll, Sem!Release
    <3>4. CASE JoinAll(c)
      BY <3>4 DEF JoinAll
    <3> QED
      BY <2>2, <3>1, <3>2, <3>3, <3>4 DEF InCall
  <2>3. ASSUME NEW c \in Clients, Drop(c) PROVE TypeInv'
    BY <2>3 DEF Drop
  <2>4. ASSUME NEW t \in Tasks, Cancel(t) PROVE TypeInv'
    BY <2>4 DEF Cancel
  <2>5. ASSUME NEW w \in Workers, Pass(w) PROVE TypeInv'
    BY <2>5 DEF Pass, Sem!Pass
  <2>6. ASSUME NEW w \in Workers, Running(w) PROVE TypeInv'
    <3>1. CASE Top(w) \/ Test(w) \/ BodyEnds(w)
      BY <3>1 DEF Top, Test, BodyEnds
    <3>2. CASE Sleep(w)
      BY <3>2 DEF Sleep, Sem!Arrive
    <3>3. CASE Pop(w)
      <4>1. CASE pedding = <<>>
        BY <3>3, <4>1 DEF Pop
      <4>2. CASE pedding # <<>>
        <5>1. Head(pedding) \in Tasks /\ Tail(pedding) \in Seq(Tasks)
          BY <4>2, PopType
        <5> QED
          BY <3>3, <4>2, <5>1 DEF Pop
      <4> QED
        BY <4>1, <4>2
    <3>4. CASE Call(w)
      <4>1. job[w] \in Tasks
        BY <3>4 DEF Call
      <4>2. Append(begun, job[w]) \in Seq(Tasks)
        BY <4>1
      <4> QED
        BY <3>4, <4>2 DEF Call
    <3>5. ASSUME MayNest(w) PROVE job[w] \in Tasks /\ Nested[job[w]] \in Tasks
      BY <3>5 DEF MayNest
    <3>6. CASE NestedPush(w)
      <4>1. Push(Nested[job[w]], FALSE) /\ Nested[job[w]] \in Tasks
        BY <3>5, <3>6 DEF NestedPush
      <4>2. pedding' \in Seq(Tasks) /\ issued' \subseteq Tasks
        BY <4>1, PushType
      <4>3. wpc[w] = "body"
        BY <3>6 DEF NestedPush, MayNest
      <4> QED
        BY <3>6, <4>2, <4>3 DEF NestedPush
    <3>7. CASE NestedPost(w)
      BY <3>7 DEF NestedPost, Sem!Release
    <3>8. CASE NestedInline(w)
      <4>1. Nested[job[w]] \in Tasks
        BY <3>5, <3>8 DEF NestedInline
      <4>2. Append(begun, Nested[job[w]]) \in Seq(Tasks)
        BY <4>1
      <4> QED
        BY <3>8, <4>1, <4>2 DEF NestedInline
    <3> QED
      BY <2>6, <3>1, <3>2, <3>3, <3>4, <3>6, <3>7, <3>8 DEF Running
  <2>7. CASE Gone \/ UNCHANGED vars
    BY <2>7 DEF Gone, vars
  <2> QED
    BY <2>1, <2>2, <2>3, <2>4, <2>5, <2>6, <2>7 DEF Next
<1> QED
  BY <1>1, <1>2, PTL DEF Spec

-----------------------------------------------------------------------------
\* The threads between two steps are finitely many, so they can be counted.
LEMMA Counts ==
  /\ IsFiniteSet(Posting) /\ IsFiniteSet(NestedPosting) /\ IsFiniteSet(Popping)
  /\ Cardinality(Posting) \in Nat /\ Cardinality(NestedPosting) \in Nat
  /\ Cardinality(Popping) \in Nat /\ Cardinality(Workers) \in Nat
<1>1. Posting \in SUBSET Clients /\ NestedPosting \in SUBSET Workers /\ Popping \in SUBSET Workers
  BY DEF Posting, NestedPosting, Popping
<1> QED
  BY <1>1, WorkersAssumption, FS_Subset, FS_CardinalityType

\* A client that arrives at its post, or leaves it, is counted.
LEMMA ClientMoves ==
  ASSUME TypeOK, NEW c \in Clients, NEW l, ClientAt(c, l)
  PROVE  /\ l = "post" /\ pc[c] # "post" => Cardinality(Posting') = Cardinality(Posting) + 1
         /\ l # "post" /\ pc[c] = "post" => Cardinality(Posting') = Cardinality(Posting) - 1
         /\ l # "post" /\ pc[c] # "post" => Cardinality(Posting') = Cardinality(Posting)
<1>1. /\ l = "post" => Posting' = Posting \cup {c}
      /\ l # "post" => Posting' = Posting \ {c}
      /\ pc[c] = "post" <=> c \in Posting
  BY DEF Posting, ClientAt, TypeOK
<1> QED
  BY <1>1, Counts, FS_AddElement, FS_RemoveElement

\* A worker that arrives between two steps, or leaves, is counted.
LEMMA WorkerMoves ==
  ASSUME TypeOK, NEW w \in Workers, NEW l, WorkerAt(w, l)
  PROVE  /\ l = "pop" /\ wpc[w] # "pop" => Cardinality(Popping') = Cardinality(Popping) + 1
         /\ l # "pop" /\ wpc[w] = "pop" => Cardinality(Popping') = Cardinality(Popping) - 1
         /\ l # "pop" /\ wpc[w] # "pop" => Cardinality(Popping') = Cardinality(Popping)
         /\ l = "npost" /\ wpc[w] # "npost" =>
              Cardinality(NestedPosting') = Cardinality(NestedPosting) + 1
         /\ l # "npost" /\ wpc[w] = "npost" =>
              Cardinality(NestedPosting') = Cardinality(NestedPosting) - 1
         /\ l # "npost" /\ wpc[w] # "npost" =>
              Cardinality(NestedPosting') = Cardinality(NestedPosting)
<1>1. /\ l = "pop" => Popping' = Popping \cup {w}
      /\ l # "pop" => Popping' = Popping \ {w}
      /\ wpc[w] = "pop" <=> w \in Popping
  BY DEF Popping, WorkerAt, TypeOK
<1>2. /\ l = "npost" => NestedPosting' = NestedPosting \cup {w}
      /\ l # "npost" => NestedPosting' = NestedPosting \ {w}
      /\ wpc[w] = "npost" <=> w \in NestedPosting
  BY DEF NestedPosting, WorkerAt, TypeOK
<1>3. /\ l = "pop" /\ wpc[w] # "pop" => Cardinality(Popping') = Cardinality(Popping) + 1
      /\ l # "pop" /\ wpc[w] = "pop" => Cardinality(Popping') = Cardinality(Popping) - 1
      /\ l # "pop" /\ wpc[w] # "pop" => Cardinality(Popping') = Cardinality(Popping)
  BY <1>1, Counts, FS_AddElement, FS_RemoveElement
<1>4. /\ l = "npost" /\ wpc[w] # "npost" =>
           Cardinality(NestedPosting') = Cardinality(NestedPosting) + 1
      /\ l # "npost" /\ wpc[w] = "npost" =>
           Cardinality(NestedPosting') = Cardinality(NestedPosting) - 1
      /\ l # "npost" /\ wpc[w] # "npost" =>
           Cardinality(NestedPosting') = Cardinality(NestedPosting)
  BY <1>2, Counts, FS_AddElement, FS_RemoveElement
<1> QED
  BY <1>3, <1>4

\* Queue and semaphore keep pace: before shutdown posts there is a permit, or a
\* thread between its two steps, for each queued job, and never fewer afterwards
\* (ThreadPool.h:69-97, 99-132).
THEOREM PaceKept == Spec => []PermitPerJob
<1>1. Init => PermitPerJob
  <2> SUFFICES ASSUME Init PROVE PermitPerJob
    OBVIOUS
  <2>1. Posting = {} /\ NestedPosting = {} /\ Popping = {} /\ ~ShutdownPosted
    BY DEF Init, Posting, NestedPosting, Popping, ShutdownPosted
  <2>2. Len(pedding) = 0 /\ permits = 0
    BY DEF Init, Sem!Init
  <2> QED
    BY <2>1, <2>2, FS_EmptySet DEF PermitPerJob, Promised
<1>2. TypeInv /\ PermitPerJob /\ [Next]_vars => PermitPerJob'
  <2> SUFFICES ASSUME TypeInv, PermitPerJob, [Next]_vars PROVE PermitPerJob'
    OBVIOUS
  <2> USE Counts
  <2>0. TypeOK /\ permits \in Nat /\ Len(pedding) \in Nat
    BY DEF TypeInv, TypeOK
  <2>1. ASSUME NEW c \in Clients, NEW t \in Tasks, NEW first \in BOOLEAN, Async(c, t, first)
        PROVE  PermitPerJob'
    <3>1. Len(pedding') = Len(pedding) + 1
      BY <2>0, <2>1, PushType DEF Async, TypeOK
    <3>2. Cardinality(Posting') = Cardinality(Posting) + 1
      BY <2>0, <2>1, ClientMoves DEF Async
    <3>3. UNCHANGED <<permits, NestedPosting, Popping, ShutdownPosted>>
      BY <2>0, <2>1 DEF Async, semVars, workerVars, NestedPosting, Popping,
                        ShutdownPosted, ClientAt, TypeOK
    <3> QED
      BY <2>0, <3>1, <3>2, <3>3 DEF PermitPerJob, Promised
  <2>2. ASSUME NEW c \in Clients, Post(c) PROVE PermitPerJob'
    <3>1. Cardinality(Posting') = Cardinality(Posting) - 1
      BY <2>0, <2>2, ClientMoves DEF Post
    <3>2. permits' = permits + 1 /\ UNCHANGED <<pedding, NestedPosting, Popping, ShutdownPosted>>
      BY <2>0, <2>2 DEF Post, Sem!Release, workerVars, NestedPosting, Popping,
                        ShutdownPosted, ClientAt, TypeOK
    <3> QED
      BY <2>0, <3>1, <3>2 DEF PermitPerJob, Promised
  <2>3. ASSUME NEW c \in Clients, PostAll(c) PROVE PermitPerJob'
    <3>1. Cardinality(Posting') = Cardinality(Posting)
      BY <2>0, <2>3, ClientMoves DEF PostAll
    <3>2. /\ permits' = permits + Cardinality(Workers)
          /\ UNCHANGED <<pedding, NestedPosting, Popping>>
      BY <2>3 DEF PostAll, Sem!Release, workerVars, NestedPosting, Popping
    <3>3. ShutdownPosted'
      BY <2>0, <2>3 DEF PostAll, ShutdownPosted, ClientAt, TypeOK
    <3> QED
      BY <2>0, <3>1, <3>2, <3>3 DEF PermitPerJob, Promised
  <2>4. ASSUME NEW c \in Clients, SetExit(c) \/ JoinAll(c) \/ Drop(c) PROVE PermitPerJob'
    <3>1. Cardinality(Posting') = Cardinality(Posting)
      <4>1. \E l \in {"postall", "gone", "dtor", "out"} : ClientAt(c, l) /\ pc[c] # "post"
        BY <2>4 DEF SetExit, JoinAll, Drop
      <4> QED
        BY <2>0, <4>1, ClientMoves
    <3>2. UNCHANGED <<permits, pedding, NestedPosting, Popping, ShutdownPosted>>
      BY <2>0, <2>4 DEF SetExit, JoinAll, Drop, semVars, workerVars, NestedPosting, Popping,
                        ShutdownPosted, ClientAt, TypeOK
    <3> QED
      BY <2>0, <3>1, <3>2 DEF PermitPerJob, Promised
  <2>5. ASSUME NEW w \in Workers, Pass(w) PROVE PermitPerJob'
    <3>1. /\ Cardinality(Popping') = Cardinality(Popping) + 1
          /\ Cardinality(NestedPosting') = Cardinality(NestedPosting)
      BY <2>0, <2>5, WorkerMoves DEF Pass
    <3>2. permits' = permits - 1 /\ UNCHANGED <<pedding, Posting, ShutdownPosted>>
      BY <2>5 DEF Pass, Sem!Pass, clientVars, Posting, ShutdownPosted
    <3> QED
      BY <2>0, <3>1, <3>2 DEF PermitPerJob, Promised
  <2>6. ASSUME NEW w \in Workers, Pop(w) PROVE PermitPerJob'
    <3>1. /\ Cardinality(Popping') = Cardinality(Popping) - 1
          /\ Cardinality(NestedPosting') = Cardinality(NestedPosting)
          /\ Popping # {}
      <4>1. \E l \in {"top", "test"} : WorkerAt(w, l) /\ wpc[w] = "pop"
        BY <2>6 DEF Pop
      <4>2. w \in Popping
        BY <2>6 DEF Pop, Popping
      <4> QED
        BY <2>0, <4>1, <4>2, WorkerMoves
    <3>2. UNCHANGED <<permits, Posting, ShutdownPosted>>
      BY <2>6 DEF Pop, semVars, clientVars, Posting, ShutdownPosted
    <3>3. Cardinality(Popping) > 0
      BY <3>1, Counts, FS_EmptySet
    <3>4. CASE pedding = <<>>
      <4>1. Len(pedding) = 0 /\ pedding' = pedding
        BY <2>6, <3>4 DEF Pop
      <4> QED
        BY <2>0, <3>1, <3>2, <3>3, <4>1 DEF PermitPerJob, Promised
    <3>5. CASE pedding # <<>>
      <4>1. Len(pedding') = Len(pedding) - 1
        BY <2>0, <2>6, <3>5, PopType DEF Pop, TypeOK
      <4> QED
        BY <2>0, <3>1, <3>2, <4>1 DEF PermitPerJob, Promised
    <3> QED
      BY <3>4, <3>5
  <2>7. ASSUME NEW w \in Workers, NestedPush(w) PROVE PermitPerJob'
    <3>1. job[w] \in Tasks /\ Nested[job[w]] \in Tasks
      BY <2>7, TasksAssumption DEF NestedPush, MayNest, TypeInv, JobInHand
    <3>2. Len(pedding') = Len(pedding) + 1
      BY <2>0, <2>7, <3>1, PushType DEF NestedPush, TypeOK
    <3>3. /\ Cardinality(Popping') = Cardinality(Popping)
          /\ Cardinality(NestedPosting') = Cardinality(NestedPosting) + 1
      BY <2>0, <2>7, WorkerMoves DEF NestedPush, MayNest
    <3>4. UNCHANGED <<permits, Posting, ShutdownPosted>>
      BY <2>7 DEF NestedPush, semVars, clientVars, Posting, ShutdownPosted
    <3>5. Promised \in Nat /\ Promised' = Promised + 1
      BY <2>0, <3>3, <3>4 DEF Promised
    <3> QED
      BY <2>0, <3>2, <3>4, <3>5 DEF PermitPerJob
  <2>8. ASSUME NEW w \in Workers, NestedPost(w) PROVE PermitPerJob'
    <3>1. /\ Cardinality(Popping') = Cardinality(Popping)
          /\ Cardinality(NestedPosting') = Cardinality(NestedPosting) - 1
      BY <2>0, <2>8, WorkerMoves DEF NestedPost
    <3>2. permits' = permits + 1 /\ UNCHANGED <<pedding, Posting, ShutdownPosted>>
      BY <2>8 DEF NestedPost, Sem!Release, clientVars, Posting, ShutdownPosted
    <3> QED
      BY <2>0, <3>1, <3>2 DEF PermitPerJob, Promised
  <2>9. ASSUME NEW w \in Workers, Top(w) \/ Test(w) \/ Call(w) \/ BodyEnds(w)
        PROVE  PermitPerJob'
    <3>1. /\ Cardinality(Popping') = Cardinality(Popping)
          /\ Cardinality(NestedPosting') = Cardinality(NestedPosting)
      <4>1. /\ wpc[w] # "pop" /\ wpc[w] # "npost"
            /\ \E l \in {"done", "wait", "top", "call", "body"} : WorkerAt(w, l)
        BY <2>9 DEF Top, Test, Call, BodyEnds
      <4> QED
        BY <2>0, <4>1, WorkerMoves
    <3>2. UNCHANGED <<permits, pedding, Posting, ShutdownPosted>>
      BY <2>9 DEF Top, Test, Call, BodyEnds, semVars, clientVars, Posting, ShutdownPosted
    <3> QED
      BY <2>0, <3>1, <3>2 DEF PermitPerJob, Promised
  <2>10. ASSUME \/ \E w \in Workers : Sleep(w) \/ NestedInline(w)
                \/ \E t \in Tasks : Cancel(t)
                \/ Gone \/ UNCHANGED vars
         PROVE  PermitPerJob'
    <3>1. UNCHANGED <<permits, pedding, Posting, NestedPosting, Popping, ShutdownPosted>>
      BY <2>10 DEF Sleep, Sem!Arrive, NestedInline, Cancel, Gone, vars, semVars, workerVars,
                   clientVars, Posting, NestedPosting, Popping, ShutdownPosted
    <3> QED
      BY <3>1 DEF PermitPerJob, Promised
  <2> QED
    BY <2>1, <2>2, <2>3, <2>4, <2>5, <2>6, <2>7, <2>8, <2>9, <2>10
       DEF Next, InCall, Running
<1> QED
  BY <1>1, <1>2, Typing, PTL DEF Spec

-----------------------------------------------------------------------------
(* The pool as a task executor: a job is in one place. *)

\* A worker holds a job between taking it and settling what to do with it.
Holding == {w \in Workers : wpc[w] \in {"test", "call"}}
Held == {job[w] : w \in Holding}

Distinct(s) == \A i, j \in 1..Len(s) : s[i] = s[j] => i = j

\* A job waits once in the list or is held by one worker, and only what was posted is
\* anywhere or can be cancelled.
Placed(q, h, i) == /\ Distinct(q) /\ Elements(q) \subseteq i /\ h \subseteq i \ Elements(q)
OnePlace == /\ Placed(pedding, Held, issued)
            /\ \A v, w \in Holding : job[v] = job[w] => v = w
HandlesKnown == /\ handles \subseteq issued
                /\ \A c \in Clients : pc[c] = "post" => arg[c] \in issued
JobInv == OnePlace /\ HandlesKnown

\* A job at either end of a list that does not hold it, and a list without its head.
LEMMA PushPlaces ==
  ASSUME NEW s \in Seq(Tasks), NEW x \in Tasks, Distinct(s), x \notin Elements(s)
  PROVE  /\ Distinct(Append(s, x)) /\ Elements(Append(s, x)) = Elements(s) \cup {x}
         /\ Distinct(<<x>> \o s) /\ Elements(<<x>> \o s) = Elements(s) \cup {x}
<1> DEFINE a == Append(s, x)
           b == <<x>> \o s
<1>1. /\ Len(a) = Len(s) + 1 /\ a[Len(s) + 1] = x /\ \A i \in 1..Len(s) : a[i] = s[i]
      /\ Len(b) = Len(s) + 1 /\ b[1] = x /\ \A i \in 1..Len(s) : b[i + 1] = s[i]
      /\ Len(s) \in Nat
  OBVIOUS
<1> HIDE DEF a, b
<1>2. /\ \A y : y \in Elements(s) <=> \E i \in 1..Len(s) : y = s[i]
      /\ \A y : y \in Elements(a) <=> \E i \in 1..Len(s) + 1 : y = a[i]
      /\ \A y : y \in Elements(b) <=> \E i \in 1..Len(s) + 1 : y = b[i]
  BY <1>1 DEF Elements
<1>3. \A i \in 1..Len(s) : s[i] # x /\ i \in 1..Len(s) + 1 /\ i + 1 \in 1..Len(s) + 1
  BY <1>1, <1>2
<1>4. \A i \in 1..Len(s) + 1 : i = Len(s) + 1 \/ i \in 1..Len(s)
  BY <1>1
<1>5. \A i \in 1..Len(s) + 1 : i = 1 \/ (i - 1 \in 1..Len(s) /\ b[i] = s[i - 1])
  <2> SUFFICES ASSUME NEW i \in 1..Len(s) + 1, i # 1
               PROVE  i - 1 \in 1..Len(s) /\ b[i] = s[i - 1]
    OBVIOUS
  <2>1. i - 1 \in 1..Len(s) /\ (i - 1) + 1 = i
    BY <1>1
  <2> QED
    BY <1>1, <2>1
<1>6. 1 \in 1..Len(s) + 1 /\ Len(s) + 1 \in 1..Len(s) + 1
  BY <1>1
<1>7. Distinct(a)
  BY <1>1, <1>3, <1>4 DEF Distinct
<1>8. Distinct(b)
  <2> SUFFICES ASSUME NEW i \in 1..Len(s) + 1, NEW j \in 1..Len(s) + 1, b[i] = b[j]
               PROVE  i = j
    BY <1>1 DEF Distinct
  <2>1. CASE i = 1 /\ j = 1
    BY <2>1
  <2>2. CASE i - 1 \in 1..Len(s) /\ b[i] = s[i - 1] /\ j - 1 \in 1..Len(s) /\ b[j] = s[j - 1]
    <3>1. i - 1 = j - 1
      BY <2>2 DEF Distinct
    <3> QED
      BY <3>1
  <2> QED
    BY <1>1, <1>3, <1>5, <2>1, <2>2
<1>9. Elements(a) = Elements(s) \cup {x}
  BY <1>1, <1>2, <1>3, <1>4, <1>6
<1>10. Elements(b) = Elements(s) \cup {x}
  <2>1. ASSUME NEW y \in Elements(b) PROVE y \in Elements(s) \cup {x}
    <3>1. PICK i \in 1..Len(s) + 1 : y = b[i]
      BY <1>2, <2>1
    <3> QED
      BY <1>1, <1>2, <1>5, <3>1
  <2>2. ASSUME NEW y \in Elements(s) PROVE y \in Elements(b)
    BY <1>1, <1>2, <1>3, <2>2
  <2>3. x \in Elements(b)
    BY <1>1, <1>2, <1>6
  <2> QED
    BY <2>1, <2>2, <2>3
<1> QED
  BY <1>7, <1>8, <1>9, <1>10 DEF a, b

\* The job that is popped is in the queue no more.
LEMMA PopPlaces ==
  ASSUME NEW s \in Seq(Tasks), s # <<>>, Distinct(s)
  PROVE  /\ Distinct(Tail(s)) /\ Head(s) \in Elements(s)
         /\ Elements(Tail(s)) = Elements(s) \ {Head(s)}
<1> DEFINE a == Tail(s)
<1>1. /\ a \in Seq(Tasks) /\ Len(a) = Len(s) - 1 /\ Len(s) \in Nat
      /\ 1 \in 1..Len(s) /\ Head(s) = s[1]
      /\ \A i \in 1..Len(a) : i + 1 \in 1..Len(s) /\ a[i] = s[i + 1]
  OBVIOUS
<1> HIDE DEF a
<1>2. /\ \A y : y \in Elements(s) <=> \E i \in 1..Len(s) : y = s[i]
      /\ \A y : y \in Elements(a) <=> \E i \in 1..Len(a) : y = a[i]
  BY DEF Elements
<1>3. \A i \in 1..Len(s) : i = 1 \/ (i - 1 \in 1..Len(a) /\ a[i - 1] = s[i])
  <2> SUFFICES ASSUME NEW i \in 1..Len(s), i # 1
               PROVE  i - 1 \in 1..Len(a) /\ a[i - 1] = s[i]
    OBVIOUS
  <2>1. i - 1 \in 1..Len(a) /\ (i - 1) + 1 = i
    BY <1>1
  <2> QED
    BY <1>1, <2>1
<1>4. Distinct(a)
  <2> SUFFICES ASSUME NEW i \in 1..Len(a), NEW j \in 1..Len(a), a[i] = a[j]
               PROVE  i = j
    BY DEF Distinct
  <2>1. i + 1 = j + 1
    BY <1>1 DEF Distinct
  <2> QED
    BY <2>1
<1>5. Head(s) \notin Elements(a)
  <2>1. ASSUME NEW i \in 1..Len(a), a[i] = Head(s) PROVE FALSE
    <3>1. i + 1 = 1
      BY <1>1, <2>1 DEF Distinct
    <3> QED
      BY <3>1
  <2> QED
    BY <1>2, <2>1
<1>6. Elements(a) = Elements(s) \ {Head(s)}
  BY <1>1, <1>2, <1>3, <1>5
<1> QED
  BY <1>1, <1>2, <1>4, <1>6 DEF a

\* The job that begins is begun.
LEMMA BegunPlaces ==
  ASSUME NEW x \in Tasks, begun \in Seq(Tasks), begun' = Append(begun, x)
  PROVE  Elements(begun)' = Elements(begun) \cup {x}
<1>1. /\ Len(begun') = Len(begun) + 1 /\ begun'[Len(begun) + 1] = x
      /\ \A i \in 1..Len(begun) : begun'[i] = begun[i]
      /\ Len(begun) \in Nat
  OBVIOUS
<1>2. /\ \A i \in 1..Len(begun) + 1 : i = Len(begun) + 1 \/ i \in 1..Len(begun)
      /\ \A i \in 1..Len(begun) : i \in 1..Len(begun) + 1
      /\ Len(begun) + 1 \in 1..Len(begun) + 1
  BY <1>1
<1>3. \A y : y \in Elements(begun) <=> \E i \in 1..Len(begun) : y = begun[i]
  BY DEF Elements
<1>4. \A y : y \in Elements(begun)' <=> \E i \in 1..Len(begun) + 1 : y = begun'[i]
  BY <1>1 DEF Elements
<1> QED
  BY <1>1, <1>2, <1>3, <1>4

\* What the workers hold, when one goes on, settles its job, or takes one.
LEMMA HoldOn ==
  ASSUME TypeInv, NEW w \in Workers, NEW l, wpc' = [wpc EXCEPT ![w] = l],
         w \in Holding <=> l \in {"test", "call"}, UNCHANGED job
  PROVE  UNCHANGED <<Holding, Held>>
<1>1. Holding' = Holding
  BY DEF TypeInv, TypeOK, Holding
<1> QED
  BY <1>1 DEF Held

\* A worker lets its job go.
LEMMA LetGo ==
  ASSUME TypeInv, OnePlace, NEW w \in Holding, NEW l, wpc' = [wpc EXCEPT ![w] = l],
         l \notin {"test", "call"}, UNCHANGED job
  PROVE  Holding' = Holding \ {w} /\ Held' = Held \ {job[w]} /\ job[w] \in Held
<1>1. Holding' = Holding \ {w}
  BY DEF TypeInv, TypeOK, Holding
<1> QED
  BY <1>1 DEF Held, OnePlace

\* A worker takes a job.
LEMMA TakeHold ==
  ASSUME TypeInv, NEW w \in Workers \ Holding, NEW x, NEW l \in {"test", "call"},
         wpc' = [wpc EXCEPT ![w] = l], job' = [job EXCEPT ![w] = x]
  PROVE  /\ Holding' = Holding \cup {w} /\ Held' = Held \cup {x}
         /\ job'[w] = x /\ \A v \in Holding : job'[v] = job[v]
<1>1. Holding' = Holding \cup {w}
  BY DEF TypeInv, TypeOK, Holding
<1>2. Holding \subseteq Workers
  BY DEF Holding
<1>3. job'[w] = x /\ \A v \in Holding : job'[v] = job[v]
  BY <1>2 DEF TypeInv, TypeOK
<1> QED
  BY <1>1, <1>3 DEF Held

\* A step leaves each job in one place, and is a step of the task executor or leaves it
\* alone.
LEMMA JobStep ==
  ASSUME TypeInv, JobInv, [Next]_vars
  PROVE  JobInv' /\ [Executor!Next]_(Executor!vars)
<1>0. /\ pedding \in Seq(Tasks) /\ begun \in Seq(Tasks) /\ issued \subseteq Tasks
      /\ wpc \in [Workers -> {"top", "wait", "pop", "test", "call", "body", "npost", "done"}]
      /\ arg \in [Clients -> Tasks \cup {NoTask}] /\ job \in [Workers -> Tasks \cup {NoTask}]
      /\ pc \in [Clients -> {"out", "post", "dtor", "postall", "join", "gone"}]
  BY DEF TypeInv, TypeOK
<1>a. /\ Distinct(pedding) /\ Elements(pedding) \subseteq issued
      /\ Held \subseteq issued \ Elements(pedding)
      /\ \A v, w \in Holding : job[v] = job[w] => v = w
      /\ handles \subseteq issued
  BY DEF JobInv, OnePlace, Placed, HandlesKnown
<1>b. ASSUME Placed(pedding', Held', issued'),
             \A v, w \in Holding' : job'[v] = job'[w] => v = w,
             HandlesKnown'
      PROVE  JobInv'
  BY <1>b DEF JobInv, OnePlace, Placed, Distinct, Elements
<1>c. /\ Held = {job[w] : w \in {v \in Workers : wpc[v] \in {"test", "call"}}}
      /\ Held' = {job'[w] : w \in {v \in Workers : wpc'[v] \in {"test", "call"}}}
  BY DEF Held, Holding
<1> USE DEF semVars, workerVars, clientVars, jobVars, history, ClientAt, WorkerAt
\* Steps that are none of the jobs' business.
<1>1. ASSUME UNCHANGED <<pedding, begun, issued, cancelled, job, Holding, Held>>, HandlesKnown'
      PROVE  JobInv' /\ [Executor!Next]_(Executor!vars)
  <2>1. Elements(begun)' = Elements(begun)
    BY <1>1 DEF Elements
  <2>2. UNCHANGED Executor!vars
    BY <1>1, <1>c, <2>1 DEF Executor!vars
  <2>3. Placed(pedding', Held', issued')
    BY <1>1, <1>a DEF Placed
  <2> QED
    BY <1>1, <1>a, <1>b, <2>2, <2>3
<1>2. ASSUME UNCHANGED <<pc, arg, handles>>, issued \subseteq issued' PROVE HandlesKnown'
  BY <1>2 DEF JobInv, HandlesKnown
<1>3. CASE UNCHANGED vars \/ Gone
  <2>1. UNCHANGED vars
    BY <1>3 DEF Gone
  <2> QED
    BY <1>1, <1>2, <2>1 DEF vars, Holding, Held
<1>4. ASSUME NEW c \in Clients, InCall(c) \/ Drop(c)
      PROVE  JobInv' /\ [Executor!Next]_(Executor!vars)
  <2>1. HandlesKnown'
    BY <1>0, <1>4 DEF InCall, Post, SetExit, PostAll, JoinAll, Drop, JobInv, HandlesKnown
  <2>2. UNCHANGED <<pedding, begun, issued, cancelled, job, wpc>>
    BY <1>4 DEF InCall, Post, SetExit, PostAll, JoinAll, Drop
  <2> QED
    BY <1>1, <2>1, <2>2 DEF Holding, Held
<1>5. ASSUME NEW w \in Workers, Top(w) \/ Sleep(w) \/ Pass(w) \/ NestedPost(w) \/ BodyEnds(w)
      PROVE  JobInv' /\ [Executor!Next]_(Executor!vars)
  <2>1. UNCHANGED <<pedding, begun, issued, cancelled, job, pc, arg, handles>>
    BY <1>5 DEF Top, Sleep, Pass, NestedPost, BodyEnds
  <2>2. UNCHANGED <<Holding, Held>>
    <3>1. CASE Sleep(w)
      BY <3>1 DEF Sleep, Holding, Held
    <3>2. CASE ~Sleep(w)
      <4>1. PICK l \in {"done", "wait", "pop", "body", "top"} : wpc' = [wpc EXCEPT ![w] = l]
        BY <1>5, <3>2 DEF Top, Pass, NestedPost, BodyEnds
      <4>2. w \notin Holding
        BY <1>5, <3>2 DEF Top, Pass, NestedPost, BodyEnds, Holding
      <4> QED
        BY <2>1, <4>1, <4>2, HoldOn
    <3> QED
      BY <3>1, <3>2
  <2> QED
    BY <1>1, <1>2, <2>1, <2>2
\* A job that nobody had posted is put into the list.
<1>6. ASSUME NEW t \in Tasks, NEW first \in BOOLEAN, t \notin issued, Push(t, first),
             UNCHANGED <<begun, cancelled, job, Holding, Held>>, HandlesKnown'
      PROVE  JobInv' /\ [Executor!Next]_(Executor!vars)
  <2>1. /\ pedding' = IF first THEN <<t>> \o pedding ELSE Append(pedding, t)
        /\ issued' = issued \cup {t}
    BY <1>6 DEF Push
  <2>2. Distinct(pedding') /\ Elements(pedding') = Elements(pedding) \cup {t}
    <3>1. t \notin Elements(pedding)
      BY <1>6, <1>a
    <3> QED
      BY <1>0, <1>a, <2>1, <3>1, PushPlaces
  <2>3. Placed(pedding', Held', issued')
    BY <1>6, <1>a, <2>1, <2>2 DEF Placed
  <2>4. Executor!Post(t, first)
    <3>1. Elements(begun)' = Elements(begun)
      BY <1>6 DEF Elements
    <3> QED
      BY <1>6, <1>c, <2>1, <3>1 DEF Executor!Post
  <2>5. Executor!Next
    BY <2>4 DEF Executor!Next
  <2> QED
    BY <1>6, <1>a, <1>b, <2>3, <2>5
<1>7. ASSUME NEW c \in Clients, NEW t \in Tasks, NEW first \in BOOLEAN, Async(c, t, first)
      PROVE  JobInv' /\ [Executor!Next]_(Executor!vars)
  <2>1. HandlesKnown'
    BY <1>0, <1>7 DEF Async, Push, JobInv, HandlesKnown
  <2>2. UNCHANGED <<Holding, Held>>
    BY <1>7 DEF Async, Holding, Held
  <2> QED
    BY <1>6, <1>7, <2>1, <2>2 DEF Async
<1>8. ASSUME NEW t \in Tasks, Cancel(t) PROVE JobInv' /\ [Executor!Next]_(Executor!vars)
  <2>1. /\ UNCHANGED <<pedding, begun, issued, job, wpc, pc, arg, handles>>
        /\ t \in handles /\ cancelled' = cancelled \cup {t}
    BY <1>8 DEF Cancel
  <2>2. UNCHANGED <<Holding, Held>> /\ Elements(begun)' = Elements(begun)
    BY <2>1 DEF Holding, Held, Elements
  <2>3. Placed(pedding', Held', issued')
    BY <1>a, <2>1, <2>2 DEF Placed
  <2>4. Executor!Cancel(t)
    BY <1>a, <1>c, <2>1, <2>2 DEF Executor!Cancel
  <2>5. Executor!Next
    BY <2>4 DEF Executor!Next
  <2> QED
    BY <1>2, <1>a, <1>b, <2>1, <2>2, <2>3, <2>5
\* The first job of the list is taken.
<1>9. ASSUME NEW w \in Workers, Pop(w) PROVE JobInv' /\ [Executor!Next]_(Executor!vars)
  <2>1. w \notin Holding
    BY <1>9 DEF Pop, Holding
  <2>2. CASE pedding = <<>>
    <3>1. /\ UNCHANGED <<pedding, begun, issued, cancelled, job, pc, arg, handles>>
          /\ wpc' = [wpc EXCEPT ![w] = "top"]
      BY <1>9, <2>2 DEF Pop
    <3> QED
      BY <1>1, <1>2, <2>1, <3>1, HoldOn
  <2>3. CASE pedding # <<>>
    <3>1. PICK x : x = Head(pedding)
      OBVIOUS
    <3>2. /\ UNCHANGED <<begun, issued, cancelled, pc, arg, handles>> /\ pedding' = Tail(pedding)
          /\ job' = [job EXCEPT ![w] = x] /\ wpc' = [wpc EXCEPT ![w] = "test"]
      BY <1>9, <2>3, <3>1 DEF Pop
    <3>3. /\ Distinct(pedding') /\ Elements(pedding') = Elements(pedding) \ {x}
          /\ x \in Elements(pedding)
      BY <1>0, <1>a, <2>3, <3>1, <3>2, PopPlaces
    <3>4. /\ Holding' = Holding \cup {w} /\ Held' = Held \cup {x}
          /\ job'[w] = x /\ \A v \in Holding : job'[v] = job[v]
      BY <2>1, <3>2, TakeHold
    <3>5. \A v \in Holding : job[v] \in Held
      BY DEF Held
    <3>6. \A u, v \in Holding' : job'[u] = job'[v] => u = v
      BY <1>a, <3>3, <3>4, <3>5
    <3>7. Placed(pedding', Held', issued')
      BY <1>a, <3>2, <3>3, <3>4 DEF Placed
    <3>8. Executor!Claim(1)
      <4>1. Tail(pedding) = SubSeq(pedding, 1 + 1, Len(pedding)) /\ x = pedding[1]
        BY <1>0, <2>3, <3>1
      <4>2. {pedding[i] : i \in 1..1} = {x}
        BY <4>1
      <4>3. Elements(begun)' = Elements(begun)
        BY <3>2 DEF Elements
      <4> QED
        BY <1>c, <3>2, <3>4, <4>1, <4>2, <4>3 DEF Executor!Claim
    <3>9. 1 \in 1..Len(pedding)
      BY <1>0, <2>3
    <3>10. Executor!Next
      BY <3>8, <3>9 DEF Executor!Next
    <3> QED
      BY <1>2, <1>b, <3>2, <3>6, <3>7, <3>10
  <2> QED
    BY <2>2, <2>3
\* A worker gives its job up, begins it, or keeps it.
<1>10. ASSUME NEW w \in Workers, Test(w) \/ Call(w), job[w] \in cancelled
       PROVE  JobInv' /\ [Executor!Next]_(Executor!vars)
  <2>1. /\ UNCHANGED <<pedding, begun, issued, cancelled, job, pc, arg, handles>>
        /\ wpc' = [wpc EXCEPT ![w] = "top"] /\ w \in Holding
    BY <1>10 DEF Test, Call, Holding
  <2>2. /\ Holding' = Holding \ {w} /\ Held' = Held \ {job[w]} /\ job[w] \in Held
    <3>1. "top" \notin {"test", "call"} /\ "body" \notin {"test", "call"} /\ OnePlace
      BY DEF JobInv
    <3> QED
      BY <2>1, <3>1, LetGo
  <2>3. Placed(pedding', Held', issued') /\ \A u, v \in Holding' : job'[u] = job'[v] => u = v
    BY <1>a, <2>1, <2>2 DEF Placed
  <2>4. PICK x \in Tasks : x = job[w]
    BY <1>0, <1>a, <2>2
  <2>5. Executor!Skip(x)
    <3>1. Elements(begun)' = Elements(begun)
      BY <2>1 DEF Elements
    <3> QED
      BY <1>10, <1>c, <2>1, <2>2, <2>4, <3>1 DEF Executor!Skip
  <2>6. Executor!Next
    BY <2>5 DEF Executor!Next, Executor!Settle
  <2> QED
    BY <1>2, <1>b, <2>1, <2>3, <2>6
<1>11. ASSUME NEW w \in Workers, Test(w), job[w] \notin cancelled
       PROVE  JobInv' /\ [Executor!Next]_(Executor!vars)
  <2>1. /\ UNCHANGED <<pedding, begun, issued, cancelled, job, pc, arg, handles>>
        /\ wpc' = [wpc EXCEPT ![w] = "call"] /\ w \in Holding
    BY <1>11 DEF Test, Holding
  <2>2. UNCHANGED <<Holding, Held>>
    BY <2>1, HoldOn
  <2> QED
    BY <1>1, <1>2, <2>1, <2>2
<1>12. ASSUME NEW w \in Workers, Call(w), job[w] \notin cancelled
       PROVE  JobInv' /\ [Executor!Next]_(Executor!vars)
  <2>1. /\ UNCHANGED <<pedding, issued, cancelled, job, pc, arg, handles>>
        /\ wpc' = [wpc EXCEPT ![w] = "body"] /\ w \in Holding
        /\ begun' = Append(begun, job[w])
    BY <1>12 DEF Call, Holding
  <2>2. /\ Holding' = Holding \ {w} /\ Held' = Held \ {job[w]} /\ job[w] \in Held
    <3>1. "top" \notin {"test", "call"} /\ "body" \notin {"test", "call"} /\ OnePlace
      BY DEF JobInv
    <3> QED
      BY <2>1, <3>1, LetGo
  <2>3. Placed(pedding', Held', issued') /\ \A u, v \in Holding' : job'[u] = job'[v] => u = v
    BY <1>a, <2>1, <2>2 DEF Placed
  <2>4. PICK x \in Tasks : x = job[w]
    BY <1>0, <1>a, <2>2
  <2>5. Elements(begun)' = Elements(begun) \cup {x}
    BY <1>0, <2>1, <2>4, BegunPlaces
  <2>6. Executor!Begin(x)
    BY <1>12, <1>c, <2>1, <2>2, <2>4, <2>5 DEF Executor!Begin
  <2>7. Executor!Next
    BY <2>6 DEF Executor!Next, Executor!Settle
  <2> QED
    BY <1>2, <1>b, <2>1, <2>3, <2>7
\* The body of a job posts another, or runs it within its own call.
<1>13. ASSUME NEW w \in Workers, NestedPush(w)
       PROVE  JobInv' /\ [Executor!Next]_(Executor!vars)
  <2>1. PICK t : t = Nested[job[w]]
    OBVIOUS
  <2>2. /\ t \in Tasks \ issued /\ Push(t, FALSE) /\ w \notin Holding
        /\ UNCHANGED <<begun, cancelled, job, pc, arg, handles>>
        /\ wpc' = [wpc EXCEPT ![w] = "npost"]
    <3>1. job[w] \in Tasks
      BY <1>13 DEF NestedPush, MayNest, TypeInv, JobInHand
    <3> QED
      BY <1>13, <2>1, <3>1, TasksAssumption DEF NestedPush, MayNest, Holding
  <2>3. UNCHANGED <<Holding, Held>> /\ issued \subseteq issued'
    BY <2>2, HoldOn DEF Push
  <2> QED
    BY <1>2, <1>6, <2>2, <2>3
<1>14. ASSUME NEW w \in Workers, NestedInline(w)
       PROVE  JobInv' /\ [Executor!Next]_(Executor!vars)
  <2>1. PICK t : t = Nested[job[w]]
    OBVIOUS
  <2>2. /\ t \in Tasks \ issued /\ issued' = issued \cup {t} /\ begun' = Append(begun, t)
        /\ UNCHANGED <<pedding, cancelled, job, wpc, pc, arg, handles>>
    <3>1. job[w] \in Tasks
      BY <1>14 DEF NestedInline, MayNest, TypeInv, JobInHand
    <3> QED
      BY <1>14, <2>1, <3>1, TasksAssumption DEF NestedInline, MayNest
  <2>3. UNCHANGED <<Holding, Held>>
    BY <2>2 DEF Holding, Held
  <2>4. Elements(begun)' = Elements(begun) \cup {t}
    BY <1>0, <2>2, BegunPlaces
  <2>5. Placed(pedding', Held', issued')
    BY <1>a, <2>2, <2>3 DEF Placed
  <2>6. Executor!RunInline(t)
    BY <1>c, <2>2, <2>3, <2>4 DEF Executor!RunInline
  <2>7. Executor!Next
    BY <2>2, <2>6 DEF Executor!Next
  <2> QED
    BY <1>2, <1>a, <1>b, <2>2, <2>3, <2>5, <2>7
<1> QED
  BY <1>3, <1>4, <1>5, <1>7, <1>8, <1>9, <1>10, <1>11, <1>12, <1>13, <1>14 DEF Next, Running

\* Each job is in one place, and only what was posted can be cancelled
\* (ThreadPool.h:43-97, 108-132; TaskExecutor.h:29-52).
THEOREM JobsKept == Spec => []JobInv
<1>1. Init => JobInv
  <2> SUFFICES ASSUME Init PROVE JobInv
    OBVIOUS
  <2>1. Len(pedding) = 0 /\ Holding = {}
    BY DEF Init, Holding
  <2> QED
    BY <2>1 DEF Init, JobInv, OnePlace, Placed, Distinct, Elements, Held, HandlesKnown
<1> QED
  BY <1>1, JobStep, Typing, PTL DEF Spec

\* The safety part of what TaskExecutor promises.
ExecutorSafety == Executor!Init /\ [][Executor!Next]_(Executor!vars)

\* Each step of the pool and its clients is a step of the task executor or leaves its
\* queue, its taken jobs and its history alone: jobs are taken from the head of the list,
\* each by one worker, which begins it once, unless it was cancelled, and then never
\* (ThreadPool.h:43-97, 108-132; TaskExecutor.h:29-78).
THEOREM StepsAreExecutorSteps == Spec => ExecutorSafety
<1>1. Init => Executor!Init
  <2> SUFFICES ASSUME Init PROVE Executor!Init
    OBVIOUS
  <2>1. Elements(begun) = {} /\ {v \in Workers : wpc[v] \in {"test", "call"}} = {}
    BY DEF Init, Elements
  <2> QED
    BY <2>1 DEF Init, Executor!Init
<1> QED
  BY <1>1, JobStep, Typing, JobsKept, PTL DEF Spec, ExecutorSafety
=============================================================================
