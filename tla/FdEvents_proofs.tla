-------------------------- MODULE FdEvents_proofs --------------------------
(***************************************************************************)
(* Theorems about the event records of a poller and the sockets that use   *)
(* them (FdEvents.tla), for any number of sockets, descriptors and         *)
(* threads.                                                                *)
(*                                                                         *)
(* That epoll and event_records_ agree is proved as it stands.  That a     *)
(* callback reads from its own descriptor is proved of sockets that are    *)
(* bound once; that a bound socket gets its events is proved of those that *)
(* are not bound, changed or dropped in a callback either: without these   *)
(* hypotheses both are false of the code (see README.md).                  *)
(***************************************************************************)
EXTENDS FdEvents, SequenceTheorems, TLAPS

Ops == {"attach", "detach", "modify"}
JobSet == [op : Ops, fd : Fds, socket : Sockets,
           events : SUBSET Events]
CallSet == [fd : Fds, socket : Sockets, event : Events]

\* t closes a descriptor.
Ending(t) == pc[t] \in {"detach", "close"}

Requested ==
    /\ DOMAIN epoll \subseteq Fds /\ \A n \in DOMAIN epoll : epoll[n] \subseteq Events
    /\ DOMAIN records \subseteq Fds /\ \A n \in DOMAIN records : records[n] \in Record

Data ==
    /\ file \in [Fds -> Sockets \cup {NoSocket}] /\ Requested
    /\ queue \in Seq(JobSet) /\ tasks \in Seq(JobSet)
    /\ ppc \in {"wait", "batch", "tasks", "call", "return"} /\ piped \in BOOLEAN
    /\ batch \subseteq CallSet
    /\ IF ppc = "call" THEN call \in CallSet ELSE call = NoRecord
    /\ held \subseteq Sockets /\ fd \in [Sockets -> Fds \cup {NoFd}]
    /\ asked \in [Sockets -> SUBSET Events] /\ binds \in [Sockets -> 0..MaxBinds]
    /\ pc \in [Threads -> {"out", "detach", "close", "attach"}]
    /\ obj \in [Threads -> Sockets \cup {NoSocket}]
    /\ new \in [Threads -> Fds \cup {NoFd}]

\* One thread at a time uses a Socket, with the descriptor that its call is about.
Calls ==
    /\ \A t \in Threads : pc[t] # "out" => obj[t] \in Sockets
    /\ \A t \in Threads : pc[t] = "out" => new[t] = NoFd
    /\ \A t \in Threads : pc[t] = "attach" => new[t] # NoFd
    /\ \A t \in Threads : Ending(t) => fd[obj[t]] # NoFd
    /\ \A t, u \in Threads : pc[t] # "out" /\ pc[u] # "out" /\ obj[t] = obj[u] => t = u
    /\ ppc = "call" /\ call.socket \notin held =>
         \A t \in Threads : pc[t] # "out" => obj[t] # call.socket

FType == Data /\ Calls

-----------------------------------------------------------------------------
(* Who owns a descriptor, when sockets are bound once. *)

\* A Socket that is being bound is held and one that is being closed is not; an open
\* descriptor belongs to one Socket.
Owned ==
    /\ \A t \in Threads : Ending(t) => obj[t] \notin held /\ new[t] = NoFd
    /\ \A t \in Threads : pc[t] = "attach" =>
         obj[t] \in held /\ fd[obj[t]] = NoFd /\ binds[obj[t]] # 0 /\ file[new[t]] = obj[t]
    /\ \A s \in Sockets : fd[s] # NoFd => file[fd[s]] = s /\ binds[s] # 0
    /\ \A s \in held : binds[s] # 0 => \/ fd[s] # NoFd
                                       \/ \E t \in Threads : pc[t] = "attach" /\ obj[t] = s

BoundOnce == MaxBinds <= 1

\* s has got the number n, and no other ever.
Spent(n, s) ==
    /\ binds[s] # 0 /\ fd[s] \in {n, NoFd}
    /\ \A t \in Threads : pc[t] = "attach" => obj[t] # s

\* Jobs, records, events and callbacks are of numbers that their Socket has or had,
\* and the Socket of a callback still has it.
Numbers ==
    /\ \A q \in {queue, tasks} : \A i \in 1..Len(q) : Spent(q[i].fd, q[i].socket)
    /\ \A n \in DOMAIN records : Spent(n, records[n].socket)
    /\ \A r \in batch : Spent(r.fd, r.socket)
    /\ ppc = "call" => /\ fd[call.socket] = call.fd /\ binds[call.socket] # 0
                       /\ \A t \in Threads : Ending(t) => obj[t] # call.socket

-----------------------------------------------------------------------------
(* The jobs on their way, in the order in which they will be run. *)

Pending == tasks \o queue

On(P, k, n, op) == P[k].fd = n /\ P[k].op = op

OnlyModifies(P, i, n) == \A k \in i..Len(P) : P[k].fd = n => P[k].op = "modify"

\* The registration of s for n is on its way, and no other request for n behind it.
Waits(P, n, s) ==
    \E i \in 1..Len(P) : /\ On(P, i, n, "attach") /\ P[i].socket = s
                         /\ OnlyModifies(P, i + 1, n)

\* It has been made, and will not be undone.
Made(P, n, s, e, r) == OnlyModifies(P, 1, n) /\ n \in DOMAIN e /\ r[n].socket = s

\* The last request for n is for these events, or the record has them.
LastSays(P, n, events) ==
    \A k \in 1..Len(P) :
        P[k].fd = n /\ (\A l \in (k + 1)..Len(P) : P[l].fd # n) => P[k].events = events

Standing(P, n, s, e, r, events) ==
    /\ Waits(P, n, s) \/ Made(P, n, s, e, r)
    /\ LastSays(P, n, events)
    /\ (\A k \in 1..Len(P) : P[k].fd # n) => r[n].events = events

\* A registration of n that nobody wants any more is undone by a job on its way.
Released(P, n, e) ==
    /\ n \in DOMAIN e => \E k \in 1..Len(P) : On(P, k, n, "detach")
    /\ \A i \in 1..Len(P) : On(P, i, n, "attach") =>
         \E k \in (i + 1)..Len(P) : On(P, k, n, "detach")

\* When a registration is made, the one before it has been undone.
Clear(P, n, e) ==
    \A i \in 1..Len(P) : On(P, i, n, "attach") =>
        /\ n \in DOMAIN e => \E k \in 1..(i - 1) : On(P, k, n, "detach")
        /\ \A h \in 1..(i - 1) : On(P, h, n, "attach") =>
             \E k \in (h + 1)..(i - 1) : On(P, k, n, "detach")

\* s has its descriptor and has not asked to be forgotten.
Live(s) == fd[s] # NoFd /\ \A t \in Threads : pc[t] = "close" => obj[t] # s

\* s has been registered: an event, a callback or a record shows it.
Seen(s) ==
    \/ \E n \in DOMAIN records : records[n].socket = s
    \/ \E r \in batch : r.socket = s
    \/ call.socket = s
    \/ pc[Poller] = "detach" /\ obj[Poller] = s

Unborn(P, s) == \A i \in 1..Len(P) : P[i].op = "attach" => P[i].socket # s

\* A Socket registers once.
Distinct(P) == \A i, k \in 1..Len(P) :
    P[i].op = "attach" /\ P[k].op = "attach" /\ i # k => P[i].socket # P[k].socket

\* Jobs are run from the pipe's callback, sockets closed when a callback has returned.
Turns ==
    /\ tasks # <<>> => ppc = "tasks"
    /\ pc[Poller] # "out" => ppc = "return" /\ pc[Poller] # "attach"

Way ==
    /\ \A n \in Fds : Clear(Pending, n, epoll)
    /\ \A n \in Fds : (\A s \in Sockets : Live(s) => fd[s] # n) => Released(Pending, n, epoll)
    /\ \A s \in Sockets : Live(s) => Standing(Pending, fd[s], s, epoll, records, asked[s])
    /\ \A s \in Sockets : Seen(s) => Unborn(Pending, s)
    /\ Distinct(Pending)

Requests == Turns /\ Way
-----------------------------------------------------------------------------
(* Sequences of jobs. *)

\* A sequence with one element more behind.
LEMMA AppendAt ==
    ASSUME NEW S, NEW P \in Seq(S), NEW j \in S
    PROVE  /\ Append(P, j) \in Seq(S) /\ Len(Append(P, j)) = Len(P) + 1 /\ Len(P) \in Nat
           /\ Append(P, j)[Len(P) + 1] = j
           /\ \A i \in 1..Len(P) : Append(P, j)[i] = P[i]
  OBVIOUS

\* A sequence without its first element.
LEMMA TailAt ==
    ASSUME NEW S, NEW P \in Seq(S), P # <<>>
    PROVE  /\ Tail(P) \in Seq(S) /\ Len(Tail(P)) = Len(P) - 1 /\ Len(P) \in Nat
           /\ 1 \in 1..Len(P) /\ Head(P) = P[1]
           /\ \A i \in 1..Len(Tail(P)) : i + 1 \in 1..Len(P) /\ Tail(P)[i] = P[i + 1]
  OBVIOUS

\* Taking from the first of two sequences, or adding to the second, is doing so to both.
LEMMA Concatenated ==
    ASSUME NEW S, NEW t \in Seq(S), NEW q \in Seq(S), NEW j \in S
    PROVE  /\ t \o q \in Seq(S)
           /\ t \o Append(q, j) = Append(t \o q, j)
           /\ t # <<>> => /\ t \o q # <<>> /\ Head(t \o q) = Head(t)
                          /\ Tail(t) \o q = Tail(t \o q)
           /\ <<>> \o q = q /\ q \o <<>> = q
<1>1. t \o q \in Seq(S) /\ t \o Append(q, j) \in Seq(S) /\ Append(t \o q, j) \in Seq(S)
  OBVIOUS
<1>2. t \o Append(q, j) = Append(t \o q, j)
  <2>1. Len(t \o Append(q, j)) = Len(Append(t \o q, j))
    OBVIOUS
  <2>2. \A i \in 1..Len(t \o Append(q, j)) : (t \o Append(q, j))[i] = Append(t \o q, j)[i]
    OBVIOUS
  <2> QED  BY <1>1, <2>1, <2>2, SeqEqual
<1>3. ASSUME t # <<>>
      PROVE  /\ t \o q # <<>> /\ Head(t \o q) = Head(t)
             /\ Tail(t) \o q = Tail(t \o q)
  <2>1. t \o q # <<>> /\ Head(t \o q) = Head(t)
    BY <1>3
  <2>2. Tail(t) \o q \in Seq(S) /\ Tail(t \o q) \in Seq(S)
    BY <1>1, <1>3, <2>1
  <2>3. Len(Tail(t) \o q) = Len(Tail(t \o q))
    BY <1>3, <2>1
  <2>4. \A i \in 1..Len(Tail(t) \o q) : (Tail(t) \o q)[i] = Tail(t \o q)[i]
    BY <1>3, <2>1
  <2> QED  BY <2>1, <2>2, <2>3, <2>4, SeqEqual
<1>4. <<>> \o q = q /\ q \o <<>> = q
  BY ConcatEmptySeq
<1> QED  BY <1>1, <1>2, <1>3, <1>4

\* What is in two sequences is in one of them.
LEMMA ConcatElement ==
    ASSUME NEW S, NEW t \in Seq(S), NEW q \in Seq(S), NEW i \in 1..Len(t \o q)
    PROVE  \/ \E k \in 1..Len(t) : (t \o q)[i] = t[k]
           \/ \E k \in 1..Len(q) : (t \o q)[i] = q[k]
<1>1. CASE i <= Len(t)
  BY <1>1
<1>2. CASE i > Len(t)
  <2>1. i - Len(t) \in 1..Len(q) /\ (t \o q)[i] = q[i - Len(t)]
    BY <1>2
  <2> QED  BY <2>1
<1> QED  BY <1>1, <1>2
-----------------------------------------------------------------------------
(* Types. *)

\* What a request does, number by number.
LEMMA Applied ==
    ASSUME NEW j \in JobSet, Apply(j), Requested
    PROVE  /\ \A n : n # j.fd => /\ n \in DOMAIN epoll' <=> n \in DOMAIN epoll
                                 /\ n \in DOMAIN records' <=> n \in DOMAIN records
                                 /\ n \in DOMAIN epoll => epoll'[n] = epoll[n]
                                 /\ n \in DOMAIN records => records'[n] = records[n]
           /\ j.op = "attach" =>
                IF file[j.fd] = NoSocket \/ j.fd \in DOMAIN epoll
                THEN UNCHANGED <<epoll, records>>
                ELSE /\ j.fd \in DOMAIN epoll' /\ j.fd \in DOMAIN records'
                     /\ epoll'[j.fd] = ToEpoll(j.events)
                     /\ records'[j.fd] = [socket |-> j.socket, events |-> j.events]
           /\ j.op = "detach" => j.fd \notin DOMAIN epoll' /\ j.fd \notin DOMAIN records'
           /\ j.op = "modify" =>
                /\ j.fd \in DOMAIN epoll' <=> j.fd \in DOMAIN epoll
                /\ j.fd \in DOMAIN records' <=> j.fd \in DOMAIN records
                /\ j.fd \in DOMAIN epoll => epoll'[j.fd] = ToEpoll(j.events)
                /\ j.fd \in DOMAIN records =>
                     records'[j.fd] = [socket |-> records[j.fd].socket, events |-> j.events]
<1>1. CASE j.op = "attach"
  <2>1. CASE file[j.fd] = NoSocket \/ j.fd \in DOMAIN epoll
    BY <1>1, <2>1 DEF Apply, ApplyAttach
  <2>2. CASE ~(file[j.fd] = NoSocket \/ j.fd \in DOMAIN epoll)
    <3>1. /\ epoll' = With(epoll, j.fd, ToEpoll(j.events))
          /\ records' = With(records, j.fd, [socket |-> j.socket, events |-> j.events])
      BY <1>1, <2>2 DEF Apply, ApplyAttach
    <3> QED  BY <1>1, <2>2, <3>1 DEF With
  <2> QED  BY <2>1, <2>2
<1>2. CASE j.op = "detach"
  <2>1. epoll' = Without(epoll, j.fd) /\ records' = Without(records, j.fd)
    BY <1>2 DEF Apply, ApplyDetach
  <2> QED  BY <1>2, <2>1 DEF Without, Restrict
<1>3. CASE j.op = "modify"
  <2>1. /\ epoll' = IF j.fd \in DOMAIN epoll THEN With(epoll, j.fd, ToEpoll(j.events))
                    ELSE epoll
        /\ records' = IF j.fd \in DOMAIN records
                      THEN [records EXCEPT ![j.fd].events = j.events] ELSE records
    BY <1>3 DEF Apply, ApplyModify
  <2>2. \A n : n # j.fd => /\ n \in DOMAIN epoll' <=> n \in DOMAIN epoll
                           /\ n \in DOMAIN records' <=> n \in DOMAIN records
                           /\ n \in DOMAIN epoll => epoll'[n] = epoll[n]
                           /\ n \in DOMAIN records => records'[n] = records[n]
    BY <2>1 DEF With
  <2>3. /\ j.fd \in DOMAIN epoll' <=> j.fd \in DOMAIN epoll
        /\ j.fd \in DOMAIN records' <=> j.fd \in DOMAIN records
        /\ j.fd \in DOMAIN epoll => epoll'[j.fd] = ToEpoll(j.events)
    BY <2>1 DEF With
  <2>4. ASSUME j.fd \in DOMAIN records
        PROVE  records'[j.fd] = [socket |-> records[j.fd].socket, events |-> j.events]
    <3>1. records[j.fd] \in [socket : Sockets, events : SUBSET Events]
      BY <2>4 DEF Requested, Record
    <3>2. records'[j.fd] = [records[j.fd] EXCEPT !.events = j.events]
      BY <2>1, <2>4
    <3> QED  BY <3>1, <3>2
  <2> QED  BY <1>3, <2>2, <2>3, <2>4
<1> QED  BY <1>1, <1>2, <1>3 DEF JobSet, Ops

\* epoll is asked for events that exist.
LEMMA ToEpollEvents == ASSUME NEW e \in SUBSET Events PROVE ToEpoll(e) \subseteq Events
  BY DEF ToEpoll, FirstOf, Events

\* A request that is applied keeps what is recorded of requests.
LEMMA AppliedTypes ==
    ASSUME NEW j \in JobSet, Apply(j), Requested
    PROVE  Requested'
<1>1. j.fd \in Fds /\ ToEpoll(j.events) \subseteq Events
      /\ [socket |-> j.socket, events |-> j.events] \in Record
  BY ToEpollEvents DEF JobSet, Ops, Record
<1>a. \A n : n # j.fd => /\ n \in DOMAIN epoll' <=> n \in DOMAIN epoll
                         /\ n \in DOMAIN records' <=> n \in DOMAIN records
                         /\ n \in DOMAIN epoll => epoll'[n] = epoll[n]
                         /\ n \in DOMAIN records => records'[n] = records[n]
  BY Applied
<1>2. \A n \in DOMAIN epoll' : n # j.fd => n \in Fds /\ epoll'[n] \subseteq Events
  BY <1>a DEF Requested
<1>3. \A n \in DOMAIN records' : n # j.fd => n \in Fds /\ records'[n] \in Record
  BY <1>a DEF Requested
<1>4. j.fd \in DOMAIN epoll' => epoll'[j.fd] \subseteq Events
  <2>1. CASE j.op = "attach"
    <3>1. epoll' = epoll \/ epoll'[j.fd] = ToEpoll(j.events)
      BY <2>1, Applied
    <3> QED  BY <1>1, <3>1 DEF Requested
  <2>2. CASE j.op = "modify"
    BY <1>1, <2>2, Applied
  <2>3. CASE j.op = "detach"
    BY <2>3, Applied
  <2> QED  BY <2>1, <2>2, <2>3 DEF JobSet, Ops
<1>5. j.fd \in DOMAIN records' => records'[j.fd] \in Record
  <2>1. CASE j.op = "attach"
    BY <1>1, <2>1, Applied DEF Requested
  <2>2. CASE j.op = "modify"
    <3>1. j.fd \in DOMAIN records =>
            [socket |-> records[j.fd].socket, events |-> j.events] \in Record
      BY DEF Requested, Record, JobSet, Ops
    <3> QED  BY <2>2, <3>1, Applied
  <2>3. CASE j.op = "detach"
    BY <2>3, Applied
  <2> QED  BY <2>1, <2>2, <2>3 DEF JobSet, Ops
<1> QED  BY <1>1, <1>2, <1>3, <1>4, <1>5 DEF Requested

\* A request of a thread is made at once or put at the end.
LEMMA DoTypes ==
    ASSUME NEW t, NEW j \in JobSet, Do(t, j), Requested, queue \in Seq(JobSet)
    PROVE  /\ Requested' /\ queue' \in Seq(JobSet)
           /\ t = Poller => Apply(j) /\ queue' = queue
           /\ t # Poller => queue' = Append(queue, j) /\ UNCHANGED <<epoll, records>>
<1>1. CASE t = Poller
  <2>1. Apply(j) /\ queue' = queue
    BY <1>1 DEF Do
  <2>2. Requested'
    BY <2>1, AppliedTypes
  <2> QED  BY <1>1, <2>1, <2>2
<1>2. CASE t # Poller
  <2>1. queue' = Append(queue, j) /\ UNCHANGED <<epoll, records>>
    BY <1>2 DEF Do
  <2>2. Requested'
    BY <2>1 DEF Requested
  <2> QED  BY <1>2, <2>1, <2>2
<1> QED  BY <1>1, <1>2

\* The types hold at first.
LEMMA TypesInit == Init => FType
<1> SUFFICES ASSUME Init PROVE FType
  OBVIOUS
<1>1. \A S : <<>> \in Seq(S) /\ DOMAIN <<>> = {}
  OBVIOUS
<1>2. /\ file \in [Fds -> Sockets \cup {NoSocket}]
      /\ DOMAIN epoll \subseteq Fds /\ \A n \in DOMAIN epoll : epoll[n] \subseteq Events
      /\ DOMAIN records \subseteq Fds /\ \A n \in DOMAIN records : records[n] \in Record
      /\ queue \in Seq(JobSet) /\ tasks \in Seq(JobSet)
  BY <1>1 DEF Init
<1>3. /\ ppc \in {"wait", "batch", "tasks", "call", "return"} /\ piped \in BOOLEAN
      /\ batch \subseteq CallSet
      /\ IF ppc = "call" THEN call \in CallSet ELSE call = NoRecord
      /\ held \subseteq Sockets /\ fd \in [Sockets -> Fds \cup {NoFd}]
  BY DEF Init
<1>4. /\ asked \in [Sockets -> SUBSET Events] /\ binds \in [Sockets -> 0..MaxBinds]
      /\ pc \in [Threads -> {"out", "detach", "close", "attach"}]
      /\ obj \in [Threads -> Sockets \cup {NoSocket}]
      /\ new \in [Threads -> Fds \cup {NoFd}]
  BY MasksAssumption DEF Init
<1>5. /\ \A t \in Threads : pc[t] = "out" /\ new[t] = NoFd
  BY DEF Init
<1>6. Data
  BY <1>2, <1>3, <1>4 DEF Data, Requested
<1>7. Calls
  BY <1>3, <1>5 DEF Init, Calls, Ending
<1> QED  BY <1>6, <1>7 DEF FType

\* A thread gets into a call on s, or out of one.
LEMMA CallBegins ==
    ASSUME NEW t \in Threads, NEW s \in Sockets, NEW l \in {"detach", "close", "attach"},
           Data, Calls, pc' = [pc EXCEPT ![t] = l], obj' = [obj EXCEPT ![t] = s],
           \A u \in Threads : pc[u] # "out" => obj[u] # s,
           \A u \in Threads : u # t => new'[u] = new[u],
           l = "attach" => new'[t] # NoFd, l \in {"detach", "close"} => fd[s] # NoFd,
           UNCHANGED fd,
           ppc' = "call" => /\ UNCHANGED <<ppc, call>> /\ (held' = held \/ held' = held \ {s})
                            /\ s \in held /\ (call.socket = s => s \in held')
    PROVE  Calls'
<1>1. \A u \in Threads : u # t => pc'[u] = pc[u] /\ obj'[u] = obj[u] /\ new'[u] = new[u]
  BY DEF Data
<1>2. pc'[t] = l /\ obj'[t] = s
  BY DEF Data
<1>3. \A u \in Threads : pc'[u] # "out" => obj'[u] \in Sockets
  BY <1>1, <1>2 DEF Calls
<1>4. /\ \A u \in Threads : pc'[u] = "out" => new'[u] = NoFd
      /\ \A u \in Threads : pc'[u] = "attach" => new'[u] # NoFd
  BY <1>1, <1>2 DEF Calls
<1>5. \A u \in Threads : Ending(u)' => fd'[obj'[u]] # NoFd
  BY <1>1, <1>2 DEF Calls, Ending
<1>6. \A u, v \in Threads : pc'[u] # "out" /\ pc'[v] # "out" /\ obj'[u] = obj'[v] => u = v
  BY <1>1, <1>2 DEF Calls
<1>7. ASSUME ppc' = "call", call'.socket \notin held', NEW u \in Threads, pc'[u] # "out"
      PROVE  obj'[u] # call'.socket
  <2>1. /\ ppc = "call" /\ call' = call /\ (held' = held \/ held' = held \ {s})
        /\ s \in held /\ (call.socket = s => s \in held')
    BY <1>7
  <2>2. call.socket # s
    BY <1>7, <2>1
  <2>3. call.socket \notin held
    BY <1>7, <2>1, <2>2
  <2> QED  BY <1>1, <1>2, <1>7, <2>1, <2>2, <2>3 DEF Calls
<1> QED  BY <1>3, <1>4, <1>5, <1>6, <1>7 DEF Calls

\* A thread that goes on in a call, or leaves it, keeps what is known of calls.
LEMMA CallGoesOn ==
    ASSUME NEW t \in Threads, NEW l \in {"out", "close", "attach"},
           Data, Calls, pc[t] # "out", pc' = [pc EXCEPT ![t] = l],
           \A u \in Threads : u # t => new'[u] = new[u],
           l = "out" => new'[t] = NoFd, l = "attach" => new'[t] # NoFd,
           \A s \in Sockets : s # obj[t] => fd'[s] = fd[s],
           l = "close" => fd'[obj[t]] # NoFd,
           UNCHANGED <<ppc, call, held, obj>>
    PROVE  Calls'
<1>1. /\ \A u \in Threads : u # t => pc'[u] = pc[u] /\ new'[u] = new[u]
      /\ pc'[t] = l /\ obj' = obj
  BY DEF Data
<1>2. \A u \in Threads : pc'[u] # "out" => pc[u] # "out" /\ obj[u] \in Sockets
  BY <1>1 DEF Calls
<1>3. /\ \A u \in Threads : pc'[u] = "out" => new'[u] = NoFd
      /\ \A u \in Threads : pc'[u] = "attach" => new'[u] # NoFd
  BY <1>1 DEF Calls
<1>4. ASSUME NEW u \in Threads, Ending(u)' PROVE fd'[obj'[u]] # NoFd
  <2>1. CASE u = t
    BY <1>1, <1>4, <2>1 DEF Ending
  <2>2. CASE u # t
    <3>1. obj[u] # obj[t] /\ obj[u] \in Sockets /\ fd[obj[u]] # NoFd
      BY <1>1, <1>4, <2>2 DEF Calls, Ending
    <3> QED  BY <1>1, <3>1
  <2> QED  BY <2>1, <2>2
<1>5. \A u, v \in Threads : pc'[u] # "out" /\ pc'[v] # "out" /\ obj'[u] = obj'[v] => u = v
  BY <1>1, <1>2 DEF Calls
<1>6. ppc' = "call" /\ call'.socket \notin held' =>
        \A u \in Threads : pc'[u] # "out" => obj'[u] # call'.socket
  BY <1>1, <1>2 DEF Calls
<1> QED  BY <1>1, <1>2, <1>3, <1>4, <1>5, <1>6 DEF Calls

\* A step that leaves the calls alone keeps what is known of them.
LEMMA CallsUntouched ==
    ASSUME Calls, UNCHANGED <<pc, obj, new, fd>>,
           ppc' = "call" => /\ ppc = "call" /\ call' = call
                            /\ held' = held \/ \E s : /\ held' = held \ {s} /\ s \in held
                                                      /\ \A u \in Threads : pc[u] # "out" => obj[u] # s
    PROVE  Calls'
<1>1. ASSUME ppc' = "call", call'.socket \notin held', NEW u \in Threads, pc'[u] # "out"
      PROVE  obj'[u] # call'.socket
  BY <1>1 DEF Calls
<1>2. \A u \in Threads : Ending(u)' <=> Ending(u)
  BY DEF Ending
<1> QED  BY <1>1, <1>2 DEF Calls

\* The event that a callback is told is one event.
LEMMA SignalledEvent ==
    ASSUME NEW e \in Events PROVE Signalled({e}) \in Events
<1>1. FirstOf({e}) = {e}
  BY DEF FirstOf, Events
<1>2. (CHOOSE x \in {e} : TRUE) \in {e}
  OBVIOUS
<1> QED  BY <1>1, <1>2 DEF Signalled

\* Each step keeps the types.
LEMMA TypesStep == FType /\ [Next]_vars => FType'
<1> SUFFICES ASSUME Data, Calls, [Next]_vars PROVE Data' /\ Calls'
  BY DEF FType
<1>p. Poller \in Threads
  BY DEF Threads

\* The calls of a Socket.
<1>1. ASSUME NEW t \in Threads, NEW s \in Sockets, Bind(t, s) PROVE Data' /\ Calls'
  <2>1. PICK n \in Fds : /\ file[n] = NoSocket /\ file' = [file EXCEPT ![n] = s]
                         /\ new' = [new EXCEPT ![t] = n]
    BY <1>1 DEF Bind
  <2>2. PICK l \in {"attach", "detach"} : /\ l = (IF fd[s] = NoFd THEN "attach" ELSE "detach")
                                          /\ pc' = [pc EXCEPT ![t] = l]
    BY <1>1 DEF Bind, Goto
  <2>3. /\ s \in held /\ \A u \in Threads : pc[u] # "out" => obj[u] # s
        /\ obj' = [obj EXCEPT ![t] = s] /\ binds' = [binds EXCEPT ![s] = @ + 1]
        /\ binds[s] < MaxBinds
        /\ UNCHANGED <<epoll, records, queue, ppc, tasks, batch, piped, call, held, fd, asked>>
    BY <1>1 DEF Bind, MayUse, loopVars
  <2>4. binds' \in [Sockets -> 0..MaxBinds]
    BY <2>3, MasksAssumption DEF Data
  <2>5. Data'
    BY <2>1, <2>2, <2>3, <2>4 DEF Data, Requested
  <2>6. new'[t] # NoFd /\ \A u \in Threads : u # t => new'[u] = new[u]
    BY <2>1, FdsAssumption DEF Data
  <2>7. Calls'
    BY <2>2, <2>3, <2>6, CallBegins
  <2> QED  BY <2>5, <2>7
<1>2. ASSUME NEW t \in Threads, Detach(t) PROVE Data' /\ Calls'
  <2>1. /\ pc[t] = "detach" /\ pc' = [pc EXCEPT ![t] = "close"]
        /\ Do(t, Job("detach", fd[obj[t]], obj[t], {}))
        /\ UNCHANGED <<file, ppc, tasks, batch, piped, call, held, fd, asked, binds, obj, new>>
    BY <1>2 DEF Detach, Goto, loopVars, socketVars
  <2>2. obj[t] \in Sockets /\ fd[obj[t]] \in Fds
    BY <2>1 DEF Calls, Data, Ending
  <2>3. Job("detach", fd[obj[t]], obj[t], {}) \in JobSet
    BY <2>2 DEF Job, JobSet, Ops
  <2>4. Requested' /\ queue' \in Seq(JobSet)
    BY <2>1, <2>3, DoTypes DEF Data
  <2>5. Data'
    BY <2>1, <2>4 DEF Data
  <2>6. Calls'
    BY <2>1, CallGoesOn DEF Calls, Ending
  <2> QED  BY <2>5, <2>6
<1>3. ASSUME NEW t \in Threads, Close(t) PROVE Data' /\ Calls'
  <2>1. PICK l \in {"out", "attach"} : /\ l = (IF new[t] = NoFd THEN "out" ELSE "attach")
                                       /\ pc' = [pc EXCEPT ![t] = l]
    BY <1>3 DEF Close, Goto
  <2>2. /\ pc[t] = "close" /\ file' = [file EXCEPT ![fd[obj[t]]] = NoSocket]
        /\ epoll' = Without(epoll, fd[obj[t]]) /\ fd' = [fd EXCEPT ![obj[t]] = NoFd]
        /\ UNCHANGED <<records, queue, ppc, tasks, batch, piped, call, held, asked, binds, obj, new>>
    BY <1>3 DEF Close, loopVars
  <2>3. obj[t] \in Sockets /\ fd[obj[t]] \in Fds
    BY <2>2 DEF Calls, Data, Ending
  <2>4. Requested'
    BY <2>2 DEF Data, Requested, Without, Restrict
  <2>5. Data'
    BY <2>1, <2>2, <2>3, <2>4 DEF Data
  <2>6. Calls'
    BY <2>1, <2>2, <2>3, CallGoesOn DEF Data
  <2> QED  BY <2>5, <2>6
<1>4. ASSUME NEW t \in Threads, Attach(t) PROVE Data' /\ Calls'
  <2>1. /\ pc[t] = "attach" /\ pc' = [pc EXCEPT ![t] = "out"]
        /\ fd' = [fd EXCEPT ![obj[t]] = new[t]] /\ asked' = [asked EXCEPT ![obj[t]] = Events]
        /\ new' = [new EXCEPT ![t] = NoFd]
        /\ Do(t, Job("attach", new[t], obj[t], Events))
        /\ UNCHANGED <<file, ppc, tasks, batch, piped, call, held, binds, obj>>
    BY <1>4 DEF Attach, AttachEvent, Goto, loopVars
  <2>2. obj[t] \in Sockets /\ new[t] \in Fds
    BY <2>1 DEF Calls, Data
  <2>3. Job("attach", new[t], obj[t], Events) \in JobSet
    BY <2>2 DEF Job, JobSet, Ops
  <2>4. Requested' /\ queue' \in Seq(JobSet)
    BY <2>1, <2>3, DoTypes DEF Data
  <2>5. Data'
    BY <2>1, <2>2, <2>4 DEF Data
  <2>6. Calls'
    BY <2>1, <2>2, CallGoesOn DEF Data
  <2> QED  BY <2>5, <2>6
<1>5. ASSUME NEW t \in Threads, NEW s \in Sockets, NEW e \in Masks, Modify(t, s, e)
      PROVE  Data' /\ Calls'
  <2>1. /\ fd[s] # NoFd /\ Do(t, Job("modify", fd[s], s, e)) /\ asked' = [asked EXCEPT ![s] = e]
        /\ UNCHANGED <<file, ppc, tasks, batch, piped, call, held, fd, binds, pc, obj, new>>
    BY <1>5 DEF Modify, loopVars, threadVars
  <2>2. Job("modify", fd[s], s, e) \in JobSet /\ e \in SUBSET Events
    BY <2>1, MasksAssumption DEF Job, JobSet, Ops, Data
  <2>3. Requested' /\ queue' \in Seq(JobSet)
    BY <2>1, <2>2, DoTypes DEF Data
  <2>4. Data'
    BY <2>1, <2>2, <2>3 DEF Data
  <2> QED  BY <2>1, <2>4, CallsUntouched
<1>6. ASSUME NEW t \in Threads, NEW s \in Sockets, Drop(t, s) PROVE Data' /\ Calls'
  <2>1. /\ s \in held /\ held' = held \ {s} /\ \A u \in Threads : pc[u] # "out" => obj[u] # s
        /\ UNCHANGED <<file, epoll, records, queue, ppc, tasks, batch, piped, call, fd, asked,
                       binds, new>>
    BY <1>6 DEF Drop, MayUse, kernel, loopVars
  <2>2. CASE fd[s] = NoFd \/ call.socket = s
    <3>1. UNCHANGED <<pc, obj>>
      BY <1>6, <2>2 DEF Drop
    <3>2. Data'
      BY <2>1, <3>1 DEF Data, Requested
    <3> QED  BY <2>1, <3>1, <3>2, CallsUntouched
  <2>3. CASE ~(fd[s] = NoFd \/ call.socket = s)
    <3>1. pc' = [pc EXCEPT ![t] = "detach"] /\ obj' = [obj EXCEPT ![t] = s]
      BY <1>6, <2>3 DEF Drop, Goto
    <3>2. Data'
      BY <2>1, <3>1 DEF Data, Requested
    <3>3. Calls'
      BY <2>1, <2>3, <3>1, CallBegins
    <3> QED  BY <3>2, <3>3
  <2> QED  BY <2>2, <2>3

\* The loop.
<1>7. CASE Wait
  <2>1. batch' \subseteq CallSet
    <3>1. PICK ready \in SUBSET DOMAIN epoll : \E ev \in [ready -> Events] :
            batch' = {[fd |-> n, socket |-> records[n].socket, event |-> Signalled({ev[n]})] :
                         n \in ready \cap DOMAIN records}
      BY <1>7 DEF Wait
    <3> PICK ev \in [ready -> Events] :
            batch' = {[fd |-> n, socket |-> records[n].socket, event |-> Signalled({ev[n]})] :
                         n \in ready \cap DOMAIN records}
      BY <3>1
    <3>2. \A n \in ready \cap DOMAIN records :
            [fd |-> n, socket |-> records[n].socket, event |-> Signalled({ev[n]})] \in CallSet
      BY SignalledEvent DEF CallSet, Data, Requested, Record
    <3> QED  BY <3>2
  <2>2. /\ ppc = "wait" /\ ppc' = "batch" /\ piped' \in BOOLEAN
        /\ UNCHANGED <<file, epoll, records, queue, tasks, call, held, fd, asked, binds, pc, obj, new>>
    BY <1>7 DEF Wait, kernel, socketVars, threadVars
  <2>3. Data'
    BY <2>1, <2>2 DEF Data, Requested
  <2> QED  BY <2>2, <2>3, CallsUntouched
<1>8. CASE TakeTasks
  <2>1. <<>> \in Seq(JobSet)
    OBVIOUS
  <2>2. Data'
    BY <1>8, <2>1 DEF TakeTasks, Data, Requested, kernel, socketVars, threadVars
  <2> QED  BY <1>8, <2>2, CallsUntouched DEF TakeTasks, socketVars, threadVars
<1>9. CASE RunTask
  <2>1. /\ ppc = "tasks" /\ tasks # <<>> /\ Apply(Head(tasks)) /\ tasks' = Tail(tasks)
        /\ UNCHANGED <<file, queue, ppc, batch, piped, call, held, fd, asked, binds, pc, obj, new>>
    BY <1>9 DEF RunTask, socketVars, threadVars
  <2>2. Head(tasks) \in JobSet /\ Tail(tasks) \in Seq(JobSet)
    BY <2>1 DEF Data
  <2>3. Requested'
    BY <2>1, <2>2, AppliedTypes DEF Data
  <2>4. Data'
    BY <2>1, <2>2, <2>3 DEF Data
  <2> QED  BY <2>1, <2>4, CallsUntouched
<1>10. CASE TasksEnd
  <2>1. Data'
    BY <1>10 DEF TasksEnd, Data, Requested, kernel, socketVars, threadVars
  <2> QED  BY <1>10, <2>1, CallsUntouched DEF TasksEnd, socketVars, threadVars
<1>11. ASSUME NEW r \in batch, Call(r) PROVE Data' /\ Calls'
  <2>1. /\ ppc = "batch" /\ batch' = batch \ {r}
        /\ UNCHANGED <<file, epoll, records, queue, tasks, piped, held, fd, asked, binds, pc, obj, new>>
    BY <1>11 DEF Call, kernel, socketVars, threadVars
  <2>2. CASE r.socket \in held
    <3>1. ppc' = "call" /\ call' = r
      BY <1>11, <2>2 DEF Call
    <3>2. Data'
      BY <2>1, <3>1 DEF Data, Requested
    <3>3. \A t \in Threads : Ending(t)' <=> Ending(t)
      BY <2>1 DEF Ending
    <3> QED  BY <2>1, <2>2, <3>1, <3>2, <3>3 DEF Calls
  <2>3. CASE r.socket \notin held
    <3>1. UNCHANGED <<ppc, call>>
      BY <1>11, <2>3 DEF Call
    <3>2. Data'
      BY <2>1, <3>1 DEF Data, Requested
    <3> QED  BY <2>1, <3>1, <3>2, CallsUntouched
  <2> QED  BY <2>2, <2>3
<1>12. CASE CallEnds
  <2>1. /\ ppc = "call" /\ pc[Poller] = "out" /\ call' = NoRecord /\ ppc' = "return"
        /\ UNCHANGED <<file, epoll, records, queue, tasks, batch, piped, held, fd, asked, binds, new>>
    BY <1>12 DEF CallEnds, kernel, socketVars
  <2>2. CASE call.socket \in held \/ fd[call.socket] = NoFd
    <3>1. UNCHANGED <<pc, obj>>
      BY <1>12, <2>2 DEF CallEnds
    <3>2. Data'
      BY <2>1, <3>1 DEF Data, Requested
    <3> QED  BY <2>1, <3>1, <3>2, CallsUntouched
  <2>3. CASE ~(call.socket \in held \/ fd[call.socket] = NoFd)
    <3>1. PICK s : s = call.socket
      OBVIOUS
    <3>2. s \in Sockets
      BY <2>1, <3>1 DEF Data, CallSet
    <3>3. pc' = [pc EXCEPT ![Poller] = "detach"] /\ obj' = [obj EXCEPT ![Poller] = s]
      BY <1>12, <2>3, <3>1 DEF CallEnds, Goto
    <3>4. Data'
      BY <1>p, <2>1, <3>2, <3>3 DEF Data, Requested
    <3>5. \A u \in Threads : pc[u] # "out" => obj[u] # s
      BY <2>1, <2>3, <3>1 DEF Calls
    <3>6. fd[s] # NoFd /\ ppc' # "call"
      BY <2>1, <2>3, <3>1
    <3>7. Calls'
      BY <1>p, <2>1, <3>2, <3>3, <3>5, <3>6, CallBegins
    <3> QED  BY <3>4, <3>7
  <2> QED  BY <2>2, <2>3
<1>13. CASE CallReturned
  <2>1. Data'
    BY <1>13 DEF CallReturned, Data, Requested, kernel, socketVars, threadVars
  <2> QED  BY <1>13, <2>1, CallsUntouched DEF CallReturned, socketVars, threadVars
<1>14. CASE BatchEnds
  <2>1. Data'
    BY <1>14 DEF BatchEnds, Data, Requested, kernel, socketVars, threadVars
  <2> QED  BY <1>14, <2>1, CallsUntouched DEF BatchEnds, socketVars, threadVars
<1>15. CASE UNCHANGED vars
  <2>1. UNCHANGED <<file, epoll, records, queue, ppc, tasks, batch, piped, call, held, fd, asked,
                    binds, pc, obj, new>>
    BY <1>15 DEF vars, kernel, loopVars, socketVars, threadVars
  <2>2. Data'
    BY <2>1 DEF Data, Requested
  <2> QED  BY <2>1, <2>2, CallsUntouched
<1> QED
  BY <1>1, <1>2, <1>3, <1>4, <1>5, <1>6, <1>7, <1>8, <1>9, <1>10, <1>11, <1>12, <1>13,
     <1>14, <1>15 DEF Next, Loop, InCall, Idle

\* The types always hold.
LEMMA TypesKept == Spec => []FType
<1>1. Init => FType
  BY TypesInit
<1>2. FType /\ [Next]_vars => FType'
  BY TypesStep
<1> QED  BY <1>1, <1>2, PTL DEF Spec

\* A request is a job; nothing else changes what is registered.
LEMMA RequestsAreJobs ==
    ASSUME FType, [Next]_vars
    PROVE  \/ UNCHANGED <<epoll, records>>
           \/ \E j \in JobSet : Apply(j)
           \/ \E t \in Threads : Close(t)
<1>d. Data /\ Calls
  BY DEF FType
<1>1. ASSUME NEW t \in Threads, Detach(t)
      PROVE  UNCHANGED <<epoll, records>> \/ \E j \in JobSet : Apply(j)
  <2>1. Job("detach", fd[obj[t]], obj[t], {}) \in JobSet
    BY <1>1, <1>d DEF Detach, Calls, Ending, Data, Job, JobSet, Ops
  <2> QED  BY <1>1, <2>1 DEF Detach, Do
<1>2. ASSUME NEW t \in Threads, Attach(t)
      PROVE  UNCHANGED <<epoll, records>> \/ \E j \in JobSet : Apply(j)
  <2>1. Job("attach", new[t], obj[t], Events) \in JobSet
    BY <1>2, <1>d DEF Attach, Calls, Data, Job, JobSet, Ops
  <2> QED  BY <1>2, <2>1 DEF Attach, AttachEvent, Do
<1>3. ASSUME NEW t \in Threads, NEW s \in Sockets, NEW e \in Masks, Modify(t, s, e)
      PROVE  UNCHANGED <<epoll, records>> \/ \E j \in JobSet : Apply(j)
  <2>1. Job("modify", fd[s], s, e) \in JobSet
    BY <1>3, <1>d, MasksAssumption DEF Modify, Data, Job, JobSet, Ops
  <2> QED  BY <1>3, <2>1 DEF Modify, Do
<1>4. CASE RunTask
  <2>1. Head(tasks) \in JobSet
    BY <1>4, <1>d DEF RunTask, Data
  <2> QED  BY <1>4, <2>1 DEF RunTask
<1> QED
  BY <1>1, <1>2, <1>3, <1>4
  DEF vars, kernel, loopVars, socketVars, threadVars, Next, Loop, InCall, Idle, Bind, Drop, Wait, TakeTasks, TasksEnd,
      Call, CallEnds, CallReturned, BatchEnds

\* Each step keeps records and epoll in agreement.
LEMMA MatchStep == FType /\ RecordsMatchEpoll /\ [Next]_vars => RecordsMatchEpoll'
<1> SUFFICES ASSUME FType, RecordsMatchEpoll, [Next]_vars PROVE RecordsMatchEpoll'
  OBVIOUS
<1>1. CASE UNCHANGED <<epoll, records>>
  BY <1>1 DEF RecordsMatchEpoll
<1>2. ASSUME NEW t \in Threads, Close(t) PROVE RecordsMatchEpoll'
  BY <1>2 DEF Close, Without, Restrict, RecordsMatchEpoll
<1>3. ASSUME NEW j \in JobSet, Apply(j) PROVE RecordsMatchEpoll'
  <2>r. Requested
    BY DEF FType, Data
  <2>1. \A n : n # j.fd => /\ n \in DOMAIN epoll' <=> n \in DOMAIN epoll
                           /\ n \in DOMAIN records' <=> n \in DOMAIN records
                           /\ n \in DOMAIN epoll => epoll'[n] = epoll[n]
                           /\ n \in DOMAIN records => records'[n] = records[n]
    BY <1>3, <2>r, Applied
  <2>2. j.fd \in DOMAIN epoll' => /\ j.fd \in DOMAIN records'
                                  /\ epoll'[j.fd] = ToEpoll(records'[j.fd].events)
    <3>1. CASE j.op = "attach"
      <4>1. \/ UNCHANGED <<epoll, records>>
            \/ /\ j.fd \in DOMAIN records' /\ epoll'[j.fd] = ToEpoll(j.events)
               /\ records'[j.fd] = [socket |-> j.socket, events |-> j.events]
        BY <1>3, <2>r, <3>1, Applied
      <4> QED  BY <4>1 DEF RecordsMatchEpoll
    <3>2. CASE j.op = "detach"
      BY <1>3, <2>r, <3>2, Applied
    <3>3. CASE j.op = "modify"
      <4>1. /\ j.fd \in DOMAIN epoll' <=> j.fd \in DOMAIN epoll
            /\ j.fd \in DOMAIN records' <=> j.fd \in DOMAIN records
            /\ j.fd \in DOMAIN epoll => epoll'[j.fd] = ToEpoll(j.events)
            /\ j.fd \in DOMAIN records =>
                 records'[j.fd] = [socket |-> records[j.fd].socket, events |-> j.events]
        BY <1>3, <2>r, <3>3, Applied
      <4>2. j.fd \in DOMAIN records => records'[j.fd].events = j.events
        BY <4>1
      <4> QED  BY <4>1, <4>2 DEF RecordsMatchEpoll
    <3> QED  BY <3>1, <3>2, <3>3 DEF JobSet, Ops
  <2>3. ASSUME NEW n \in DOMAIN epoll', n # j.fd
        PROVE  n \in DOMAIN records' /\ epoll'[n] = ToEpoll(records'[n].events)
    <3>1. n \in DOMAIN epoll /\ n \in DOMAIN records /\ epoll[n] = ToEpoll(records[n].events)
      BY <2>1, <2>3 DEF RecordsMatchEpoll
    <3> QED  BY <2>1, <2>3, <3>1
  <2> QED  BY <2>2, <2>3 DEF RecordsMatchEpoll
<1> QED  BY <1>1, <1>2, <1>3, RequestsAreJobs

\* Sockets, descriptors and requests keep to their types, and no call of bindUdpSocket,
\* modifyEvent or ~Socket is about a descriptor its Socket does not have
\* (Socket.cc:314-352, Socket.h:50-60).
THEOREM Typing == Spec => []TypeOK
<1>1. FType => TypeOK
  <2> SUFFICES ASSUME FType PROVE TypeOK
    OBVIOUS
  <2>1. Data
    BY DEF FType
  <2>2. \A q \in {queue, tasks} : \A i \in 1..Len(q) : q[i] \in JobSet
    BY <2>1 DEF Data
  <2>3. \A q \in {queue, tasks} : \A i \in 1..Len(q) : q[i].fd \in Fds /\ q[i].socket \in Sockets
    BY <2>2 DEF JobSet, Ops
  <2>4. \A r \in batch : r.fd \in Fds /\ r.socket \in Sockets /\ r.event \in Events
    BY <2>1 DEF Data, CallSet
  <2> QED  BY <2>1, <2>3, <2>4 DEF Data, Requested, TypeOK
<1> QED  BY <1>1, TypesKept, PTL

\* What epoll watches and what event_records_ says agree, over requests that are made
\* at once, requests that are posted, and descriptors that are closed between the two
\* (EventPoller.cc:56-63, 160-240).
THEOREM EpollAgrees == Spec => []RecordsMatchEpoll
<1>1. Init => RecordsMatchEpoll
  <2>1. DOMAIN <<>> = {}
    OBVIOUS
  <2> QED  BY <2>1 DEF Init, RecordsMatchEpoll
<1>2. FType /\ RecordsMatchEpoll /\ [Next]_vars => RecordsMatchEpoll'
  BY MatchStep
<1> QED  BY <1>1, <1>2, TypesKept, PTL DEF Spec
-----------------------------------------------------------------------------
(* Sockets that are bound once. *)

\* A Socket that can be bound has no descriptor.
LEMMA Unbound ==
    ASSUME BoundOnce, FType, Owned, NEW s \in Sockets, binds[s] < MaxBinds
    PROVE  binds[s] = 0 /\ fd[s] = NoFd
<1>1. binds[s] = 0
  BY MasksAssumption DEF BoundOnce, FType, Data
<1> QED  BY <1>1 DEF Owned

\* Each step keeps who has which descriptor.
LEMMA OwnedStep == BoundOnce /\ FType /\ Owned /\ [Next]_vars => Owned'
<1> SUFFICES ASSUME BoundOnce, FType, Owned, [Next]_vars PROVE Owned'
  OBVIOUS
<1>d. Data /\ Calls
  BY DEF FType
<1>p. Poller \in Threads
  BY DEF Threads
<1>0. CASE UNCHANGED <<file, held, fd, binds, pc, obj, new>>
  BY <1>0 DEF Owned, Ending
<1>1. ASSUME NEW t \in Threads, NEW s \in Sockets, Bind(t, s) PROVE Owned'
  <2>1. binds[s] = 0 /\ fd[s] = NoFd
    BY <1>1, Unbound DEF Bind
  <2>2. PICK n \in Fds : /\ file[n] = NoSocket /\ file' = [file EXCEPT ![n] = s]
                         /\ new' = [new EXCEPT ![t] = n]
    BY <1>1 DEF Bind
  <2>3. /\ s \in held /\ pc[t] = "out" /\ \A u \in Threads : pc[u] # "out" => obj[u] # s
        /\ pc' = [pc EXCEPT ![t] = "attach"] /\ obj' = [obj EXCEPT ![t] = s]
        /\ binds' = [binds EXCEPT ![s] = @ + 1] /\ UNCHANGED <<held, fd>>
    BY <1>1, <2>1 DEF Bind, MayUse, Goto
  <2>4. /\ \A u \in Threads : u # t => pc'[u] = pc[u] /\ obj'[u] = obj[u] /\ new'[u] = new[u]
        /\ pc'[t] = "attach" /\ obj'[t] = s /\ new'[t] = n
    BY <1>d, <2>2, <2>3 DEF Data
  <2>5. \A r \in Sockets : r # s => binds'[r] = binds[r]
    BY <1>d, <2>3 DEF Data
  <2>6. binds'[s] = 1
    BY <1>d, <2>1, <2>3 DEF Data
  <2>7. file'[n] = s /\ \A m \in Fds : m # n => file'[m] = file[m]
    BY <1>d, <2>2 DEF Data
  <2>8. \A u \in Threads : Ending(u)' => obj'[u] \notin held' /\ new'[u] = NoFd
    BY <2>3, <2>4 DEF Owned, Ending
  <2>9. ASSUME NEW u \in Threads, pc'[u] = "attach"
        PROVE  /\ obj'[u] \in held' /\ fd'[obj'[u]] = NoFd /\ binds'[obj'[u]] # 0
               /\ file'[new'[u]] = obj'[u]
    <3>1. CASE u = t
      BY <2>1, <2>3, <2>4, <2>6, <2>7, <3>1
    <3>2. CASE u # t
      <4>1. /\ pc[u] = "attach" /\ obj[u] # s /\ obj[u] \in Sockets /\ new[u] \in Fds
            /\ file[new[u]] = obj[u]
        BY <1>d, <2>3, <2>4, <2>9, <3>2 DEF Calls, Data, Owned
      <4>2. new[u] # n
        BY <2>2, <4>1, FdsAssumption
      <4> QED  BY <2>3, <2>4, <2>5, <2>7, <3>2, <4>1, <4>2 DEF Owned
    <3> QED  BY <3>1, <3>2
  <2>10. ASSUME NEW r \in Sockets, fd'[r] # NoFd PROVE file'[fd'[r]] = r /\ binds'[r] # 0
    <3>1. r # s /\ fd[r] \in Fds /\ file[fd[r]] = r /\ binds[r] # 0
      BY <1>d, <2>1, <2>3, <2>10 DEF Data, Owned
    <3>2. fd[r] # n
      BY <2>2, <3>1, FdsAssumption
    <3> QED  BY <2>3, <2>5, <2>7, <3>1, <3>2
  <2>11. ASSUME NEW r \in held', binds'[r] # 0
         PROVE  fd'[r] # NoFd \/ \E u \in Threads : pc'[u] = "attach" /\ obj'[u] = r
    <3>1. CASE r = s
      BY <2>4, <3>1
    <3>2. CASE r # s
      <4>1. r \in held /\ binds[r] # 0
        BY <1>d, <2>3, <2>5, <2>11, <3>2 DEF Data
      <4>2. fd[r] # NoFd \/ \E u \in Threads : u # t /\ pc[u] = "attach" /\ obj[u] = r
        BY <2>3, <4>1 DEF Owned
      <4> QED  BY <2>3, <2>4, <4>2
    <3> QED  BY <3>1, <3>2
  <2> QED  BY <2>8, <2>9, <2>10, <2>11 DEF Owned
<1>2. ASSUME NEW t \in Threads, Detach(t) PROVE Owned'
  <2>1. /\ pc[t] = "detach" /\ pc' = [pc EXCEPT ![t] = "close"]
        /\ UNCHANGED <<file, held, fd, binds, obj, new>>
    BY <1>2 DEF Detach, Goto, socketVars
  <2>2. pc'[t] = "close" /\ \A u \in Threads : u # t => pc'[u] = pc[u]
    BY <1>d, <2>1 DEF Data
  <2>3. \A u \in Threads : /\ Ending(u)' <=> Ending(u)
                           /\ pc'[u] = "attach" <=> pc[u] = "attach"
    BY <2>1, <2>2 DEF Ending
  <2> QED  BY <2>1, <2>3 DEF Owned
<1>3. ASSUME NEW t \in Threads, Close(t) PROVE Owned'
  <2>1. pc[t] = "close" /\ new[t] = NoFd /\ obj[t] \notin held /\ obj[t] \in Sockets
    BY <1>3, <1>d DEF Close, Owned, Ending, Calls
  <2>2. PICK s \in Sockets : s = obj[t]
    BY <2>1
  <2>3. /\ file' = [file EXCEPT ![fd[s]] = NoSocket] /\ fd' = [fd EXCEPT ![s] = NoFd]
        /\ pc' = [pc EXCEPT ![t] = "out"] /\ UNCHANGED <<held, binds, obj, new>>
    BY <1>3, <2>1, <2>2 DEF Close, Goto
  <2>4. /\ pc'[t] = "out" /\ \A u \in Threads : u # t => pc'[u] = pc[u]
        /\ fd'[s] = NoFd /\ \A r \in Sockets : r # s => fd'[r] = fd[r]
        /\ \A m \in Fds : m # fd[s] => file'[m] = file[m]
        /\ fd[s] # NoFd /\ file[fd[s]] = s
    BY <1>d, <2>1, <2>2, <2>3 DEF Data, Calls, Ending, Owned
  <2>5. \A u \in Threads : Ending(u)' => obj'[u] \notin held' /\ new'[u] = NoFd
    BY <2>3, <2>4 DEF Owned, Ending
  <2>6. ASSUME NEW u \in Threads, pc'[u] = "attach"
        PROVE  /\ obj'[u] \in held' /\ fd'[obj'[u]] = NoFd /\ binds'[obj'[u]] # 0
               /\ file'[new'[u]] = obj'[u]
    <3>1. /\ pc[u] = "attach" /\ obj[u] \in Sockets /\ new[u] \in Fds /\ obj[u] \in held
          /\ file[new[u]] = obj[u] /\ fd[obj[u]] = NoFd /\ binds[obj[u]] # 0
      BY <1>d, <2>4, <2>6 DEF Calls, Data, Owned
    <3>2. obj[u] # s /\ new[u] # fd[s]
      BY <2>1, <2>2, <2>4, <3>1
    <3> QED  BY <2>3, <2>4, <3>1, <3>2
  <2>7. ASSUME NEW r \in Sockets, fd'[r] # NoFd PROVE file'[fd'[r]] = r /\ binds'[r] # 0
    <3>1. r # s /\ fd'[r] = fd[r] /\ fd[r] \in Fds /\ file[fd[r]] = r /\ binds[r] # 0
      BY <1>d, <2>4, <2>7 DEF Data, Owned
    <3>2. fd[r] # fd[s]
      BY <2>4, <3>1
    <3> QED  BY <2>3, <2>4, <3>1, <3>2
  <2>8. ASSUME NEW r \in held', binds'[r] # 0
        PROVE  fd'[r] # NoFd \/ \E u \in Threads : pc'[u] = "attach" /\ obj'[u] = r
    <3>1. r \in held /\ r \in Sockets /\ r # s /\ binds[r] # 0
      BY <1>d, <2>1, <2>2, <2>3, <2>8 DEF Data
    <3>2. fd[r] # NoFd \/ \E u \in Threads : u # t /\ pc[u] = "attach" /\ obj[u] = r
      BY <2>1, <3>1 DEF Owned
    <3> QED  BY <2>3, <2>4, <3>1, <3>2
  <2> QED  BY <2>5, <2>6, <2>7, <2>8 DEF Owned
<1>4. ASSUME NEW t \in Threads, Attach(t) PROVE Owned'
  <2>1. pc[t] = "attach" /\ obj[t] \in Sockets /\ new[t] \in Fds
    BY <1>4, <1>d DEF Attach, Calls, Data
  <2>2. PICK s \in Sockets : s = obj[t]
    BY <2>1
  <2>3. /\ fd' = [fd EXCEPT ![s] = new[t]] /\ new' = [new EXCEPT ![t] = NoFd]
        /\ pc' = [pc EXCEPT ![t] = "out"] /\ UNCHANGED <<file, held, binds, obj>>
    BY <1>4, <2>2 DEF Attach, Goto
  <2>4. /\ pc'[t] = "out" /\ \A u \in Threads : u # t => pc'[u] = pc[u] /\ new'[u] = new[u]
        /\ fd'[s] = new[t] /\ \A r \in Sockets : r # s => fd'[r] = fd[r]
    BY <1>d, <2>3 DEF Data
  <2>5. s \in held /\ binds[s] # 0 /\ file[new[t]] = s
    BY <2>1, <2>2 DEF Owned
  <2>6. \A u \in Threads : Ending(u)' => obj'[u] \notin held' /\ new'[u] = NoFd
    BY <2>3, <2>4 DEF Owned, Ending
  <2>7. ASSUME NEW u \in Threads, pc'[u] = "attach"
        PROVE  /\ obj'[u] \in held' /\ fd'[obj'[u]] = NoFd /\ binds'[obj'[u]] # 0
               /\ file'[new'[u]] = obj'[u]
    <3>1. u # t /\ pc[u] = "attach" /\ obj[u] \in Sockets
      BY <1>d, <2>4, <2>7 DEF Calls
    <3>2. obj[u] # s
      BY <1>d, <2>1, <2>2, <3>1 DEF Calls
    <3> QED  BY <2>3, <2>4, <3>1, <3>2 DEF Owned
  <2>8. \A r \in Sockets : fd'[r] # NoFd => file'[fd'[r]] = r /\ binds'[r] # 0
    BY <2>3, <2>4, <2>5 DEF Owned
  <2>9. ASSUME NEW r \in held', binds'[r] # 0
        PROVE  fd'[r] # NoFd \/ \E u \in Threads : pc'[u] = "attach" /\ obj'[u] = r
    <3>1. CASE r = s
      BY <2>1, <2>4, <3>1, FdsAssumption
    <3>2. CASE r # s
      <4>1. r \in held /\ r \in Sockets /\ binds[r] # 0
        BY <1>d, <2>3, <2>9 DEF Data
      <4>2. fd[r] # NoFd \/ \E u \in Threads : u # t /\ pc[u] = "attach" /\ obj[u] = r
        BY <2>2, <3>2, <4>1 DEF Owned
      <4> QED  BY <2>3, <2>4, <3>2, <4>1, <4>2
    <3> QED  BY <3>1, <3>2
  <2> QED  BY <2>6, <2>7, <2>8, <2>9 DEF Owned
<1>5. ASSUME NEW t \in Threads, NEW s \in Sockets, pc[t] = "out",
             \A u \in Threads : pc[u] # "out" => obj[u] # s,
             UNCHANGED <<file, fd, binds, new>>, held' = held \ {s},
             \/ UNCHANGED <<pc, obj>>
             \/ pc' = [pc EXCEPT ![t] = "detach"] /\ obj' = [obj EXCEPT ![t] = s]
      PROVE  Owned'
  <2>1. \A u \in Threads : u # t => pc'[u] = pc[u] /\ obj'[u] = obj[u]
    BY <1>d, <1>5 DEF Data
  <2>2. (pc'[t] = pc[t] /\ obj'[t] = obj[t]) \/ (pc'[t] = "detach" /\ obj'[t] = s)
    BY <1>d, <1>5 DEF Data
  <2>3. \A u \in Threads : Ending(u)' => obj'[u] \notin held' /\ new'[u] = NoFd
    BY <1>d, <1>5, <2>1, <2>2 DEF Owned, Ending, Calls
  <2>4. \A u \in Threads : pc'[u] = "attach" => pc[u] = "attach" /\ obj'[u] = obj[u] /\ obj[u] # s
    BY <1>5, <2>1, <2>2
  <2>5. \A u \in Threads : pc[u] = "attach" => pc'[u] = "attach" /\ obj'[u] = obj[u]
    BY <1>5, <2>1
  <2> QED  BY <1>5, <2>3, <2>4, <2>5 DEF Owned
<1>6. ASSUME NEW t \in Threads, NEW s \in Sockets, Drop(t, s) PROVE Owned'
  <2>1. /\ pc[t] = "out" /\ \A u \in Threads : pc[u] # "out" => obj[u] # s
        /\ UNCHANGED <<file, fd, binds, new>> /\ held' = held \ {s}
    BY <1>6 DEF Drop, MayUse, kernel
  <2>2. \/ UNCHANGED <<pc, obj>>
        \/ pc' = [pc EXCEPT ![t] = "detach"] /\ obj' = [obj EXCEPT ![t] = s]
    BY <1>6 DEF Drop, Goto
  <2> QED  BY <1>5, <2>1, <2>2
<1>7. CASE CallEnds
  <2>1. PICK s : s = call.socket
    OBVIOUS
  <2>2. /\ pc[Poller] = "out" /\ s \in Sockets /\ ppc = "call"
        /\ UNCHANGED <<file, held, fd, binds, new>>
    BY <1>7, <1>d, <2>1 DEF CallEnds, Data, CallSet, kernel, socketVars
  <2>3. CASE s \in held \/ fd[s] = NoFd
    <3>1. UNCHANGED <<pc, obj>>
      BY <1>7, <2>1, <2>3 DEF CallEnds
    <3> QED  BY <1>0, <2>2, <3>1
  <2>4. CASE ~(s \in held \/ fd[s] = NoFd)
    <3>1. pc' = [pc EXCEPT ![Poller] = "detach"] /\ obj' = [obj EXCEPT ![Poller] = s]
      BY <1>7, <2>1, <2>4 DEF CallEnds, Goto
    <3>2. \A u \in Threads : pc[u] # "out" => obj[u] # s
      BY <1>d, <2>1, <2>2, <2>4 DEF Calls
    <3>3. held' = held \ {s}
      BY <2>2, <2>4
    <3> QED  BY <1>5, <1>p, <2>2, <3>1, <3>2, <3>3
  <2> QED  BY <2>3, <2>4
<1>8. ASSUME NEW t \in Threads, NEW s \in Sockets, NEW e \in Masks, Modify(t, s, e) PROVE Owned'
  BY <1>0, <1>8 DEF Modify, threadVars
<1>9. CASE Wait \/ TakeTasks \/ RunTask \/ TasksEnd \/ CallReturned \/ BatchEnds \/ UNCHANGED vars
  BY <1>0, <1>9 DEF Wait, TakeTasks, RunTask, TasksEnd, CallReturned, BatchEnds,
                    vars, kernel, socketVars, threadVars
<1>10. ASSUME NEW r \in batch, Call(r) PROVE Owned'
  BY <1>0, <1>10 DEF Call, kernel, socketVars, threadVars
<1> QED
  BY <1>1, <1>2, <1>3, <1>4, <1>6, <1>7, <1>8, <1>9, <1>10 DEF Next, Loop, InCall, Idle

\* The number that a Socket has now.
LEMMA HasNumber ==
    ASSUME Owned, NEW s \in Sockets, fd[s] # NoFd PROVE Spent(fd[s], s)
  BY DEF Owned, Spent

\* A number that a Socket has or had stays the only one.
LEMMA SpentStays ==
    ASSUME BoundOnce, FType, Owned, [Next]_vars,
           NEW n \in Fds, NEW s \in Sockets, Spent(n, s)
    PROVE  Spent(n, s)'
<1>d. Data /\ Calls
  BY DEF FType
<1>1. ASSUME NEW t \in Threads, NEW r \in Sockets, Bind(t, r) PROVE Spent(n, s)'
  <2>1. binds[r] = 0 /\ fd[r] = NoFd
    BY <1>1, Unbound DEF Bind
  <2>2. r # s
    BY <2>1 DEF Spent
  <2>3. /\ pc' = [pc EXCEPT ![t] = "attach"] /\ obj' = [obj EXCEPT ![t] = r]
        /\ binds' = [binds EXCEPT ![r] = @ + 1] /\ fd' = fd
    BY <1>1, <2>1 DEF Bind, Goto
  <2>4. binds'[s] = binds[s]
    BY <1>d, <2>2, <2>3 DEF Data
  <2>5. \A u \in Threads : pc'[u] = "attach" => obj'[u] # s
    BY <1>d, <2>2, <2>3 DEF Data, Spent
  <2> QED  BY <2>3, <2>4, <2>5 DEF Spent
<1>2. ASSUME NEW t \in Threads, NEW l \in {"out", "close", "detach"}, pc' = [pc EXCEPT ![t] = l],
             UNCHANGED <<fd, binds>>, \A u \in Threads : u # t => obj'[u] = obj[u]
      PROVE  Spent(n, s)'
  <2>1. \A u \in Threads : pc'[u] = "attach" => pc[u] = "attach" /\ obj'[u] = obj[u]
    BY <1>d, <1>2 DEF Data
  <2> QED  BY <1>2, <2>1 DEF Spent
<1>3. ASSUME NEW t \in Threads, Close(t) PROVE Spent(n, s)'
  <2>1. /\ pc[t] = "close" /\ new[t] = NoFd
    BY <1>3 DEF Close, Owned, Ending
  <2>2. /\ fd' = [fd EXCEPT ![obj[t]] = NoFd] /\ pc' = [pc EXCEPT ![t] = "out"]
        /\ UNCHANGED <<binds, obj>>
    BY <1>3, <2>1 DEF Close, Goto
  <2>3. fd'[s] \in {n, NoFd}
    BY <1>d, <2>2 DEF Data, Spent
  <2>4. \A u \in Threads : pc'[u] = "attach" => pc[u] = "attach"
    BY <1>d, <2>2 DEF Data
  <2> QED  BY <2>2, <2>3, <2>4 DEF Spent
<1>4. ASSUME NEW t \in Threads, Attach(t) PROVE Spent(n, s)'
  <2>1. obj[t] # s
    BY <1>4 DEF Attach, Spent
  <2>2. /\ fd' = [fd EXCEPT ![obj[t]] = new[t]] /\ pc' = [pc EXCEPT ![t] = "out"]
        /\ UNCHANGED <<binds, obj>>
    BY <1>4 DEF Attach, Goto
  <2>3. fd'[s] = fd[s]
    BY <1>d, <2>1, <2>2 DEF Data
  <2>4. \A u \in Threads : pc'[u] = "attach" => pc[u] = "attach"
    BY <1>d, <2>2 DEF Data
  <2> QED  BY <2>2, <2>3, <2>4 DEF Spent
<1>5. ASSUME NEW t \in Threads, Detach(t) PROVE Spent(n, s)'
  BY <1>2, <1>5 DEF Detach, Goto, socketVars
<1>6. ASSUME UNCHANGED <<fd, binds, pc, obj>> PROVE Spent(n, s)'
  BY <1>6 DEF Spent
<1>7. ASSUME NEW t \in Threads, UNCHANGED <<fd, binds>>, NEW r,
             \/ UNCHANGED <<pc, obj>>
             \/ pc' = [pc EXCEPT ![t] = "detach"] /\ obj' = [obj EXCEPT ![t] = r]
      PROVE  Spent(n, s)'
  <2>1. CASE UNCHANGED <<pc, obj>>
    BY <1>6, <1>7, <2>1
  <2>2. CASE pc' = [pc EXCEPT ![t] = "detach"] /\ obj' = [obj EXCEPT ![t] = r]
    BY <1>2, <1>d, <1>7, <2>2 DEF Data
  <2> QED  BY <1>7, <2>1, <2>2
<1>8. ASSUME NEW t \in Threads, NEW r \in Sockets, Drop(t, r) PROVE Spent(n, s)'
  <2>1. \/ UNCHANGED <<pc, obj>>
        \/ pc' = [pc EXCEPT ![t] = "detach"] /\ obj' = [obj EXCEPT ![t] = r]
    BY <1>8 DEF Drop, Goto
  <2> QED  BY <1>7, <1>8, <2>1 DEF Drop
<1>9. CASE CallEnds
  <2>1. \/ UNCHANGED <<pc, obj>>
        \/ pc' = [pc EXCEPT ![Poller] = "detach"] /\ obj' = [obj EXCEPT ![Poller] = call.socket]
    BY <1>9 DEF CallEnds, Goto
  <2>2. UNCHANGED <<fd, binds>> /\ Poller \in Threads
    BY <1>9 DEF CallEnds, socketVars, Threads
  <2>3. CASE UNCHANGED <<pc, obj>>
    BY <1>6, <2>2, <2>3
  <2>4. CASE pc' = [pc EXCEPT ![Poller] = "detach"] /\ obj' = [obj EXCEPT ![Poller] = call.socket]
    BY <1>2, <1>d, <2>2, <2>4 DEF Data
  <2> QED  BY <2>1, <2>3, <2>4
<1>10. ASSUME NEW t \in Threads, NEW r \in Sockets, NEW e \in Masks, Modify(t, r, e)
       PROVE  Spent(n, s)'
  BY <1>6, <1>10 DEF Modify, threadVars
<1>11. CASE Wait \/ TakeTasks \/ RunTask \/ TasksEnd \/ CallReturned \/ BatchEnds \/ UNCHANGED vars
  BY <1>6, <1>11 DEF Wait, TakeTasks, RunTask, TasksEnd, CallReturned, BatchEnds,
                     vars, socketVars, threadVars
<1>12. ASSUME NEW r \in batch, Call(r) PROVE Spent(n, s)'
  BY <1>6, <1>12 DEF Call, socketVars, threadVars
<1> QED
  BY <1>1, <1>3, <1>4, <1>5, <1>8, <1>9, <1>10, <1>11, <1>12 DEF Next, Loop, InCall, Idle

\* In a step, jobs, records and signalled events come from those that were, from a
\* record, or from a request for a number that its Socket has.
LEMMA NumbersCome ==
    ASSUME BoundOnce, FType, Owned, Numbers, [Next]_vars,
           \/ queue' = queue \/ queue' = <<>>
           \/ \E j \in JobSet : queue' = Append(queue, j) /\ Spent(j.fd, j.socket)',
           tasks' = tasks \/ tasks' = queue \/ (tasks # <<>> /\ tasks' = Tail(tasks)),
           records' = records \/ \E j \in JobSet : Apply(j) /\ Spent(j.fd, j.socket)',
           \A r \in batch' : \/ r \in batch
                             \/ r.fd \in DOMAIN records /\ r.socket = records[r.fd].socket,
           ppc' = "call" => /\ fd'[call'.socket] = call'.fd /\ binds'[call'.socket] # 0
                            /\ \A t \in Threads : Ending(t)' => obj'[t] # call'.socket
    PROVE  Numbers'
<1>d. Data /\ Requested
  BY DEF FType, Data
<1>a. ASSUME \A i \in 1..Len(queue') : \E n \in Fds, s \in Sockets :
               n = queue'[i].fd /\ s = queue'[i].socket /\ Spent(n, s)',
             \A i \in 1..Len(tasks') : \E n \in Fds, s \in Sockets :
               n = tasks'[i].fd /\ s = tasks'[i].socket /\ Spent(n, s)',
             \A m \in DOMAIN records' : \E n \in Fds, s \in Sockets :
               n = m /\ s = records'[m].socket /\ Spent(n, s)',
             \A r \in batch' : \E n \in Fds, s \in Sockets :
               n = r.fd /\ s = r.socket /\ Spent(n, s)'
      PROVE  Numbers'
  <2>1. \A q \in {queue', tasks'} : \A i \in 1..Len(q) : Spent(q[i].fd, q[i].socket)'
    BY <1>a DEF Spent
  <2>2. ASSUME NEW m \in DOMAIN records'
        PROVE  /\ binds'[records'[m].socket] # 0 /\ fd'[records'[m].socket] \in {m, NoFd}
               /\ \A t \in Threads : pc'[t] = "attach" => obj'[t] # records'[m].socket
    BY <1>a DEF Spent
  <2>3. \A r \in batch' : Spent(r.fd, r.socket)'
    BY <1>a DEF Spent
  <2> QED  BY <2>1, <2>2, <2>3 DEF Numbers, Spent
<1>s. \A n \in Fds, s \in Sockets : Spent(n, s) => Spent(n, s)'
  BY SpentStays
<1>q. ASSUME NEW q \in {queue, tasks}, NEW i \in 1..Len(q)
      PROVE  \E n \in Fds, s \in Sockets : n = q[i].fd /\ s = q[i].socket /\ Spent(n, s)'
  <2>1. q \in Seq(JobSet)
    BY <1>d DEF Data
  <2>2. q[i] \in JobSet
    BY <2>1
  <2>3. q[i].fd \in Fds /\ q[i].socket \in Sockets
    BY <2>2 DEF JobSet, Ops
  <2>4. Spent(q[i].fd, q[i].socket)
    BY DEF Numbers
  <2> QED  BY <1>s, <2>3, <2>4
<1>r. ASSUME NEW m \in DOMAIN records
      PROVE  \E n \in Fds, s \in Sockets : n = m /\ s = records[m].socket /\ Spent(n, s)'
  <2>1. m \in Fds /\ records[m].socket \in Sockets
    BY <1>d DEF Requested, Record
  <2>2. Spent(m, records[m].socket)
    BY DEF Numbers
  <2> QED  BY <1>s, <2>1, <2>2
<1>b. ASSUME NEW r \in batch
      PROVE  \E n \in Fds, s \in Sockets : n = r.fd /\ s = r.socket /\ Spent(n, s)'
  <2>1. r.fd \in Fds /\ r.socket \in Sockets
    BY <1>d DEF Data, CallSet
  <2>2. Spent(r.fd, r.socket)
    BY DEF Numbers
  <2> QED  BY <1>s, <2>1, <2>2
<1>1. ASSUME NEW i \in 1..Len(queue')
      PROVE  \E n \in Fds, s \in Sockets : n = queue'[i].fd /\ s = queue'[i].socket /\ Spent(n, s)'
  <2>1. CASE queue' = queue
    BY <1>q, <1>1, <2>1
  <2>2. CASE queue' = <<>>
    BY <1>1, <2>2
  <2>3. ASSUME NEW j \in JobSet, queue' = Append(queue, j), Spent(j.fd, j.socket)'
        PROVE  \E n \in Fds, s \in Sockets : n = queue'[i].fd /\ s = queue'[i].socket /\ Spent(n, s)'
    <3>1. queue \in Seq(JobSet)
      BY <1>d DEF Data
    <3>2. queue'[i] = j \/ (i \in 1..Len(queue) /\ queue'[i] = queue[i])
      BY <1>1, <2>3, <3>1, AppendAt
    <3>3. j.fd \in Fds /\ j.socket \in Sockets
      BY DEF JobSet, Ops
    <3> QED  BY <1>q, <2>3, <3>2, <3>3
  <2> QED  BY <2>1, <2>2, <2>3
<1>2. ASSUME NEW i \in 1..Len(tasks')
      PROVE  \E n \in Fds, s \in Sockets : n = tasks'[i].fd /\ s = tasks'[i].socket /\ Spent(n, s)'
  <2>1. CASE tasks' = tasks
    BY <1>q, <1>2, <2>1
  <2>2. CASE tasks' = queue
    BY <1>q, <1>2, <2>2
  <2>3. CASE tasks # <<>> /\ tasks' = Tail(tasks)
    <3>1. tasks \in Seq(JobSet)
      BY <1>d DEF Data
    <3>2. i + 1 \in 1..Len(tasks) /\ tasks'[i] = tasks[i + 1]
      BY <1>2, <2>3, <3>1, TailAt
    <3> QED  BY <1>q, <3>2
  <2> QED  BY <2>1, <2>2, <2>3
<1>3. ASSUME NEW m \in DOMAIN records'
      PROVE  \E n \in Fds, s \in Sockets : n = m /\ s = records'[m].socket /\ Spent(n, s)'
  <2>1. CASE records' = records
    BY <1>r, <1>3, <2>1
  <2>2. ASSUME NEW j \in JobSet, Apply(j), Spent(j.fd, j.socket)'
        PROVE  \E n \in Fds, s \in Sockets : n = m /\ s = records'[m].socket /\ Spent(n, s)'
    <3>1. CASE m # j.fd
      <4>1. \A n : n # j.fd => /\ n \in DOMAIN epoll' <=> n \in DOMAIN epoll
                               /\ n \in DOMAIN records' <=> n \in DOMAIN records
                               /\ n \in DOMAIN epoll => epoll'[n] = epoll[n]
                               /\ n \in DOMAIN records => records'[n] = records[n]
        BY <1>d, <2>2, Applied
      <4> QED  BY <1>3, <1>r, <3>1, <4>1
    <3>2. CASE m = j.fd
      <4>1. j.op = "attach" \/ j.op = "modify"
        <5>1. j.op = "detach" => m \notin DOMAIN records'
          BY <1>d, <2>2, <3>2, Applied
        <5> QED  BY <1>3, <5>1 DEF JobSet, Ops
      <4>2. j.op = "attach" =>
              records' = records \/ records'[m] = [socket |-> j.socket, events |-> j.events]
        BY <1>d, <2>2, <3>2, Applied
      <4>3. j.op = "modify" =>
              m \in DOMAIN records
              /\ records'[m] = [socket |-> records[m].socket, events |-> j.events]
        BY <1>3, <1>d, <2>2, <3>2, Applied
      <4>4. records'[m].socket = j.socket \/ (m \in DOMAIN records /\ records'[m].socket = records[m].socket)
        BY <1>3, <4>1, <4>2, <4>3
      <4>5. j.fd \in Fds /\ j.socket \in Sockets
        BY DEF JobSet, Ops
      <4> QED  BY <1>r, <2>2, <3>2, <4>4, <4>5
    <3> QED  BY <3>1, <3>2
  <2> QED  BY <2>1, <2>2
<1>4. ASSUME NEW r \in batch'
      PROVE  \E n \in Fds, s \in Sockets : n = r.fd /\ s = r.socket /\ Spent(n, s)'
  BY <1>b, <1>r
<1> QED  BY <1>1, <1>2, <1>3, <1>4, <1>a

\* Each step keeps the numbers that jobs, records and events are of.
LEMMA NumbersStep == BoundOnce /\ FType /\ FType' /\ Owned /\ Numbers /\ [Next]_vars => Numbers'
<1> SUFFICES ASSUME BoundOnce, FType, FType', Owned, Numbers, [Next]_vars PROVE Numbers'
  OBVIOUS
<1>d. Data /\ Calls /\ Requested
  BY DEF FType, Data
<1>s. \A n \in Fds, s \in Sockets : Spent(n, s) => Spent(n, s)'
  BY SpentStays

\* The callback that runs keeps its Socket's number.
<1>c. ASSUME ppc' = "call", ppc = "call", call' = call, UNCHANGED binds,
             fd'[call.socket] = fd[call.socket],
             \A t \in Threads : Ending(t)' => \/ Ending(t) /\ obj'[t] = obj[t]
                                              \/ obj'[t] # call.socket
      PROVE  /\ fd'[call'.socket] = call'.fd /\ binds'[call'.socket] # 0
             /\ \A t \in Threads : Ending(t)' => obj'[t] # call'.socket
  BY <1>c DEF Numbers
<1>1. ASSUME NEW t \in Threads, NEW s \in Sockets, Bind(t, s) PROVE Numbers'
  <2>1. binds[s] = 0 /\ fd[s] = NoFd
    BY <1>1, Unbound DEF Bind
  <2>2. /\ UNCHANGED <<queue, tasks, records, batch, ppc, call, fd>>
        /\ binds' = [binds EXCEPT ![s] = @ + 1] /\ obj' = [obj EXCEPT ![t] = s]
        /\ pc' = [pc EXCEPT ![t] = "attach"]
    BY <1>1, <2>1 DEF Bind, Goto, loopVars
  <2>3. ASSUME ppc' = "call"
        PROVE  /\ fd'[call'.socket] = call'.fd /\ binds'[call'.socket] # 0
               /\ \A u \in Threads : Ending(u)' => obj'[u] # call'.socket
    <3>1. /\ fd[call.socket] = call.fd /\ binds[call.socket] # 0 /\ call.socket \in Sockets
          /\ \A u \in Threads : Ending(u) => obj[u] # call.socket
      BY <1>d, <2>2, <2>3 DEF Numbers, Data, CallSet
    <3>2. call.socket # s
      BY <2>1, <3>1
    <3>3. binds'[call.socket] = binds[call.socket]
      BY <1>d, <2>2, <3>1, <3>2 DEF Data
    <3>4. \A u \in Threads : Ending(u)' => Ending(u) /\ obj'[u] = obj[u]
      BY <1>d, <2>2 DEF Data, Ending
    <3> QED  BY <2>2, <3>1, <3>3, <3>4
  <2> QED  BY <2>2, <2>3, NumbersCome
<1>2. ASSUME NEW t \in Threads, Detach(t) PROVE Numbers'
  <2>1. /\ pc[t] = "detach" /\ pc' = [pc EXCEPT ![t] = "close"]
        /\ UNCHANGED <<tasks, batch, ppc, call, fd, binds, obj>>
    BY <1>2 DEF Detach, Goto, loopVars, socketVars
  <2>2. PICK n \in Fds, s \in Sockets : n = fd[obj[t]] /\ s = obj[t] /\ fd[s] # NoFd
    BY <1>d, <2>1 DEF Calls, Ending, Data
  <2>3. Spent(n, s)'
    BY <1>s, <2>2, HasNumber
  <2>4. PICK j \in JobSet : Do(t, j) /\ j.fd = n /\ j.socket = s
    <3>1. Job("detach", n, s, {}) \in JobSet
      BY DEF Job, JobSet, Ops
    <3> QED  BY <1>2, <2>2, <3>1 DEF Detach, Job
  <2>5. \A u \in Threads : Ending(u)' => Ending(u) /\ obj'[u] = obj[u]
    BY <1>d, <2>1 DEF Data, Ending
  <2>6. Spent(j.fd, j.socket)'
    BY <2>3, <2>4
  <2>7. /\ queue' = queue \/ \E i \in JobSet : queue' = Append(queue, i) /\ Spent(i.fd, i.socket)'
        /\ records' = records \/ \E i \in JobSet : Apply(i) /\ Spent(i.fd, i.socket)'
    BY <2>4, <2>6 DEF Do
  <2> QED  BY <1>c, <2>1, <2>5, <2>7, NumbersCome
<1>3. ASSUME NEW t \in Threads, Close(t) PROVE Numbers'
  <2>1. /\ pc[t] = "close" /\ new[t] = NoFd /\ obj[t] \in Sockets
    BY <1>3, <1>d DEF Close, Owned, Ending, Calls
  <2>2. /\ fd' = [fd EXCEPT ![obj[t]] = NoFd] /\ pc' = [pc EXCEPT ![t] = "out"]
        /\ UNCHANGED <<queue, tasks, records, batch, ppc, call, binds, obj>>
    BY <1>3, <2>1 DEF Close, Goto, loopVars
  <2>3. \A u \in Threads : Ending(u)' => Ending(u) /\ obj'[u] = obj[u]
    BY <1>d, <2>2 DEF Data, Ending
  <2>4. ppc = "call" => fd'[call.socket] = fd[call.socket]
    BY <1>d, <2>1, <2>2 DEF Numbers, Ending, Data, CallSet
  <2> QED  BY <1>c, <2>2, <2>3, <2>4, NumbersCome
<1>4. ASSUME NEW t \in Threads, Attach(t) PROVE Numbers'
  <2>1. /\ pc[t] = "attach" /\ obj[t] \in Sockets /\ new[t] \in Fds /\ fd[obj[t]] = NoFd
        /\ binds[obj[t]] # 0
    BY <1>4, <1>d DEF Attach, Owned, Calls, Data
  <2>2. /\ fd' = [fd EXCEPT ![obj[t]] = new[t]] /\ pc' = [pc EXCEPT ![t] = "out"]
        /\ UNCHANGED <<tasks, batch, ppc, call, binds, obj>>
    BY <1>4 DEF Attach, Goto, loopVars
  <2>3. PICK n \in Fds, s \in Sockets : n = new[t] /\ s = obj[t]
    BY <2>1
  <2>4. Spent(n, s)'
    <3>1. fd'[s] = n
      BY <1>d, <2>2, <2>3 DEF Data
    <3>2. \A u \in Threads : pc'[u] = "attach" => u # t /\ pc[u] = "attach"
      BY <1>d, <2>2 DEF Data
    <3>3. \A u \in Threads : pc'[u] = "attach" => obj'[u] # s
      BY <1>d, <2>1, <2>2, <2>3, <3>2 DEF Calls
    <3> QED  BY <2>1, <2>2, <2>3, <3>1, <3>3 DEF Spent
  <2>5. PICK j \in JobSet : Do(t, j) /\ j.fd = n /\ j.socket = s
    <3>1. Job("attach", n, s, Events) \in JobSet
      BY DEF Job, JobSet, Ops
    <3> QED  BY <1>4, <2>3, <3>1 DEF Attach, AttachEvent, Job
  <2>6. \A u \in Threads : Ending(u)' => Ending(u) /\ obj'[u] = obj[u]
    BY <1>d, <2>2 DEF Data, Ending
  <2>7. ppc = "call" => fd'[call.socket] = fd[call.socket]
    BY <1>d, <2>1, <2>2, FdsAssumption DEF Numbers, Data, CallSet
  <2>8. Spent(j.fd, j.socket)'
    BY <2>4, <2>5
  <2>9. /\ queue' = queue \/ \E i \in JobSet : queue' = Append(queue, i) /\ Spent(i.fd, i.socket)'
        /\ records' = records \/ \E i \in JobSet : Apply(i) /\ Spent(i.fd, i.socket)'
    BY <2>5, <2>8 DEF Do
  <2> QED  BY <1>c, <2>2, <2>6, <2>7, <2>9, NumbersCome
<1>5. ASSUME NEW t \in Threads, NEW s \in Sockets, NEW e \in Masks, Modify(t, s, e) PROVE Numbers'
  <2>1. /\ fd[s] # NoFd /\ UNCHANGED <<tasks, batch, ppc, call, fd, binds, pc, obj>>
    BY <1>5 DEF Modify, loopVars, threadVars
  <2>2. PICK n \in Fds : n = fd[s]
    BY <1>d, <2>1 DEF Data
  <2>3. Spent(n, s)'
    BY <1>s, <2>1, <2>2, HasNumber
  <2>4. PICK j \in JobSet : Do(t, j) /\ j.fd = n /\ j.socket = s
    <3>1. Job("modify", n, s, e) \in JobSet
      BY MasksAssumption DEF Job, JobSet, Ops
    <3> QED  BY <1>5, <2>2, <3>1 DEF Modify, Job
  <2>5. \A u \in Threads : Ending(u)' => Ending(u) /\ obj'[u] = obj[u]
    BY <2>1 DEF Ending
  <2>6. Spent(j.fd, j.socket)'
    BY <2>3, <2>4
  <2>7. /\ queue' = queue \/ \E i \in JobSet : queue' = Append(queue, i) /\ Spent(i.fd, i.socket)'
        /\ records' = records \/ \E i \in JobSet : Apply(i) /\ Spent(i.fd, i.socket)'
    BY <2>4, <2>6 DEF Do
  <2> QED  BY <1>c, <2>1, <2>5, <2>7, NumbersCome
<1>6. ASSUME NEW t \in Threads, NEW s \in Sockets, Drop(t, s) PROVE Numbers'
  <2>1. /\ UNCHANGED <<queue, tasks, records, batch, ppc, call, fd, binds>>
        /\ \/ UNCHANGED <<pc, obj>>
           \/ /\ call.socket # s
              /\ pc' = [pc EXCEPT ![t] = "detach"] /\ obj' = [obj EXCEPT ![t] = s]
    BY <1>6 DEF Drop, Goto, loopVars
  <2>2. \A u \in Threads : Ending(u)' => \/ Ending(u) /\ obj'[u] = obj[u]
                                         \/ obj'[u] # call.socket
    BY <1>d, <2>1 DEF Data, Ending
  <2> QED  BY <1>c, <2>1, <2>2, NumbersCome
<1>7. CASE Wait
  <2>1. /\ UNCHANGED <<queue, tasks, records>> /\ ppc' = "batch"
    BY <1>7 DEF Wait
  <2>2. \A r \in batch' : r.fd \in DOMAIN records /\ r.socket = records[r.fd].socket
    <3>1. PICK ready \in SUBSET DOMAIN epoll : \E ev \in [ready -> Events] :
            batch' = {[fd |-> n, socket |-> records[n].socket, event |-> Signalled({ev[n]})] :
                         n \in ready \cap DOMAIN records}
      BY <1>7 DEF Wait
    <3>2. PICK ev \in [ready -> Events] :
            batch' = {[fd |-> n, socket |-> records[n].socket, event |-> Signalled({ev[n]})] :
                         n \in ready \cap DOMAIN records}
      BY <3>1
    <3>3. ASSUME NEW r \in batch'
          PROVE  r.fd \in DOMAIN records /\ r.socket = records[r.fd].socket
      <4>1. PICK n \in ready \cap DOMAIN records :
              r = [fd |-> n, socket |-> records[n].socket, event |-> Signalled({ev[n]})]
        BY <3>2, <3>3
      <4>2. r.fd = n /\ r.socket = records[n].socket
        BY <4>1
      <4> QED  BY <4>2
    <3> QED  BY <3>3
  <2> QED  BY <2>1, <2>2, NumbersCome
<1>8. CASE TakeTasks
  BY <1>8, NumbersCome DEF TakeTasks
<1>9. CASE RunTask
  <2>1. /\ ppc = "tasks" /\ ppc' = ppc /\ tasks # <<>> /\ Apply(Head(tasks))
        /\ tasks' = Tail(tasks) /\ UNCHANGED <<queue, batch>>
    BY <1>9 DEF RunTask
  <2>2. Head(tasks) \in JobSet /\ 1 \in 1..Len(tasks) /\ Head(tasks) = tasks[1]
    BY <1>d, <2>1 DEF Data
  <2>3. PICK j \in JobSet : j = Head(tasks)
    BY <2>2
  <2>4. Spent(j.fd, j.socket)
    BY <2>2, <2>3 DEF Numbers
  <2>5. j.fd \in Fds /\ j.socket \in Sockets
    BY DEF JobSet, Ops
  <2>6. Apply(j) /\ Spent(j.fd, j.socket)'
    BY <1>s, <2>1, <2>3, <2>4, <2>5
  <2> QED  BY <2>1, <2>6, NumbersCome
<1>10. CASE TasksEnd \/ CallReturned \/ BatchEnds
  BY <1>10, NumbersCome DEF TasksEnd, CallReturned, BatchEnds
<1>11. ASSUME NEW r \in batch, Call(r) PROVE Numbers'
  <2>1. /\ UNCHANGED <<queue, tasks, records, fd, binds, pc, obj>> /\ batch' \subseteq batch
        /\ ppc = "batch"
        /\ IF r.socket \in held THEN ppc' = "call" /\ call' = r ELSE UNCHANGED <<ppc, call>>
    BY <1>11 DEF Call, socketVars, threadVars
  <2>2. ASSUME ppc' = "call"
        PROVE  /\ fd'[call'.socket] = call'.fd /\ binds'[call'.socket] # 0
               /\ \A t \in Threads : Ending(t)' => obj'[t] # call'.socket
    <3>1. r.socket \in held /\ call' = r
      BY <2>1, <2>2
    <3>2. Spent(r.fd, r.socket)
      BY DEF Numbers
    <3>3. fd[r.socket] = r.fd /\ binds[r.socket] # 0
      BY <3>1, <3>2 DEF Spent, Owned
    <3>4. \A t \in Threads : Ending(t)' => obj'[t] # r.socket
      BY <2>1, <3>1 DEF Ending, Owned
    <3> QED  BY <2>1, <3>1, <3>3, <3>4
  <2> QED  BY <2>1, <2>2, NumbersCome
<1>12. CASE CallEnds
  BY <1>12, NumbersCome DEF CallEnds
<1>13. CASE UNCHANGED vars
  <2>1. UNCHANGED <<queue, tasks, records, batch, ppc, call, fd, binds, pc, obj>>
    BY <1>13 DEF vars, loopVars, socketVars, threadVars
  <2>2. \A u \in Threads : Ending(u)' => Ending(u) /\ obj'[u] = obj[u]
    BY <2>1 DEF Ending
  <2> QED  BY <1>c, <2>1, <2>2, NumbersCome
<1> QED
  BY <1>1, <1>2, <1>3, <1>4, <1>5, <1>6, <1>7, <1>8, <1>9, <1>10, <1>11, <1>12, <1>13
  DEF Next, Loop, InCall, Idle

\* Both hold at first.
LEMMA OnceInit == Init => Owned /\ Numbers
<1> SUFFICES ASSUME Init PROVE Owned /\ Numbers
  OBVIOUS
<1>1. DOMAIN <<>> = {} /\ Len(<<>>) = 0
  OBVIOUS
<1>2. Owned
  BY DEF Init, Owned, Ending
<1>3. Numbers
  BY <1>1 DEF Init, Numbers
<1> QED  BY <1>2, <1>3

\* Both always hold if no Socket is bound twice.
LEMMA OnceKept == BoundOnce /\ Spec => [](FType /\ Owned /\ Numbers)
<1>1. Init => FType /\ Owned /\ Numbers
  BY TypesInit, OnceInit
<1>2. BoundOnce /\ FType /\ Owned /\ Numbers /\ [Next]_vars => (FType /\ Owned /\ Numbers)'
  BY TypesStep, OwnedStep, NumbersStep
<1> QED
  <2>1. CASE BoundOnce
    BY <1>1, <1>2, <2>1, PTL DEF Spec
  <2>2. CASE ~BoundOnce
    BY <2>2
  <2> QED  BY <2>1, <2>2

\* When no Socket is bound a second time, a callback that reads does so from the
\* descriptor of the Socket it has locked, whatever was closed and opened again since
\* epoll_wait returned (Socket.cc:336-348).
THEOREM ReadsItsOwn == BoundOnce /\ Spec => []NoForeignRead
<1>1. FType /\ Owned /\ Numbers => NoForeignRead
  <2> SUFFICES ASSUME FType, Owned, Numbers, call.event = "read"
               PROVE  file[call.fd] \in {call.socket, NoSocket}
    BY DEF NoForeignRead
  <2>1. ppc = "call" /\ call.socket \in Sockets /\ call.fd \in Fds
    BY DEF FType, Data, NoRecord, CallSet
  <2>2. fd[call.socket] = call.fd
    BY <2>1 DEF Numbers
  <2> QED  BY <2>1, <2>2, FdsAssumption DEF Owned
<1> QED  BY <1>1, OnceKept, PTL
-----------------------------------------------------------------------------
(* The jobs on their way: what a new job and the next one change.            *)

\* A job of another number changes nothing for this one.
LEMMA AddOther ==
    ASSUME NEW P \in Seq(JobSet), NEW j \in JobSet, NEW n, j.fd # n,
           NEW s, NEW e, NEW r, NEW x
    PROVE  /\ Clear(P, n, e) => Clear(Append(P, j), n, e)
           /\ Released(P, n, e) => Released(Append(P, j), n, e)
           /\ Standing(P, n, s, e, r, x) => Standing(Append(P, j), n, s, e, r, x)
<1> USE DEF Ops
<1>q. PICK Q \in Seq(JobSet) : Q = Append(P, j)
  BY AppendAt
<1>a. /\ Len(Q) = Len(P) + 1 /\ Len(P) \in Nat /\ Q[Len(P) + 1] = j
      /\ \A i \in 1..Len(P) : Q[i] = P[i]
  BY <1>q, AppendAt
<1>i. \A i \in 1..Len(Q), op \in Ops : Q[i].fd = n => i \in 1..Len(P) /\ (On(Q, i, n, op) <=> On(P, i, n, op))
  BY <1>a DEF On
<1>o. \A i \in 1..Len(P), op \in Ops : i \in 1..Len(Q) /\ (On(Q, i, n, op) <=> On(P, i, n, op))
  BY <1>a DEF On
<1>1. ASSUME Clear(P, n, e) PROVE Clear(Q, n, e)
  <2>1. ASSUME NEW i \in 1..Len(Q), On(Q, i, n, "attach")
        PROVE  i \in 1..Len(P) /\ On(P, i, n, "attach")
    BY <1>i, <2>1 DEF On
  <2>2. \A i \in 1..Len(P) : \A k \in 1..(i - 1), op \in Ops : On(Q, k, n, op) <=> On(P, k, n, op)
    BY <1>a, <1>o
  <2>3. \A i \in 1..Len(P) : \A h \in 1..(i - 1) : \A k \in (h + 1)..(i - 1), op \in Ops :
          On(Q, k, n, op) <=> On(P, k, n, op)
    BY <1>a, <1>o
  <2> QED  BY <1>1, <2>1, <2>2, <2>3 DEF Clear
<1>2. ASSUME Released(P, n, e) PROVE Released(Q, n, e)
  <2>1. n \in DOMAIN e => \E k \in 1..Len(Q) : On(Q, k, n, "detach")
    BY <1>2, <1>o DEF Released
  <2>2. ASSUME NEW i \in 1..Len(Q), On(Q, i, n, "attach")
        PROVE  \E k \in (i + 1)..Len(Q) : On(Q, k, n, "detach")
    <3>1. i \in 1..Len(P) /\ On(P, i, n, "attach")
      BY <1>i, <2>2 DEF On
    <3>2. PICK k \in (i + 1)..Len(P) : On(P, k, n, "detach")
      BY <1>2, <3>1 DEF Released
    <3>3. k \in (i + 1)..Len(Q) /\ On(Q, k, n, "detach")
      BY <1>a, <1>o, <3>2
    <3> QED  BY <3>3
  <2> QED  BY <2>1, <2>2 DEF Released
<1>3. ASSUME Standing(P, n, s, e, r, x) PROVE Standing(Q, n, s, e, r, x)
  <2>1. ASSUME NEW i \in Nat \ {0}, OnlyModifies(P, i, n) PROVE OnlyModifies(Q, i, n)
    BY <1>a, <2>1 DEF OnlyModifies
  <2>2. Waits(P, n, s) => Waits(Q, n, s)
    <3> SUFFICES ASSUME NEW i \in 1..Len(P), On(P, i, n, "attach"), P[i].socket = s,
                        OnlyModifies(P, i + 1, n)
                 PROVE  Waits(Q, n, s)
      BY DEF Waits
    <3>1. i \in 1..Len(Q) /\ On(Q, i, n, "attach") /\ Q[i].socket = s
      BY <1>a, <1>o
    <3>2. OnlyModifies(Q, i + 1, n)
      BY <2>1
    <3> QED  BY <3>1, <3>2 DEF Waits
  <2>3. Made(P, n, s, e, r) => Made(Q, n, s, e, r)
    BY <2>1 DEF Made
  <2>4. LastSays(Q, n, x)
    <3> SUFFICES ASSUME NEW k \in 1..Len(Q), Q[k].fd = n, \A l \in (k + 1)..Len(Q) : Q[l].fd # n
                 PROVE  Q[k].events = x
      BY DEF LastSays
    <3>1. k \in 1..Len(P) /\ Q[k] = P[k]
      BY <1>a
    <3>2. \A l \in (k + 1)..Len(P) : P[l].fd # n
      BY <1>a
    <3> QED  BY <1>3, <3>1, <3>2 DEF Standing, LastSays
  <2>5. (\A k \in 1..Len(Q) : Q[k].fd # n) => \A k \in 1..Len(P) : P[k].fd # n
    BY <1>a
  <2> QED  BY <1>3, <2>2, <2>3, <2>4, <2>5 DEF Standing
<1> QED  BY <1>q, <1>1, <1>2, <1>3

\* What a job of this number adds to the ones on their way.
LEMMA AddOn ==
    ASSUME NEW P \in Seq(JobSet), NEW j \in JobSet, NEW n, j.fd = n,
           NEW s, NEW e, NEW r, NEW x
    PROVE  /\ j.op = "detach" => Released(Append(P, j), n, e)
           /\ j.op = "modify" /\ Released(P, n, e) => Released(Append(P, j), n, e)
           /\ j.op \in {"detach", "modify"} /\ Clear(P, n, e) => Clear(Append(P, j), n, e)
           /\ j.op = "attach" /\ Clear(P, n, e) /\ Released(P, n, e) => Clear(Append(P, j), n, e)
           /\ j.op = "attach" => Standing(Append(P, j), n, j.socket, e, r, j.events)
           /\ j.op = "modify" /\ Standing(P, n, s, e, r, x)
              => Standing(Append(P, j), n, s, e, r, j.events)
<1> USE DEF Ops
<1>q. PICK Q \in Seq(JobSet) : Q = Append(P, j)
  BY AppendAt
<1>a. /\ Len(Q) = Len(P) + 1 /\ Len(P) \in Nat /\ Q[Len(P) + 1] = j
      /\ \A i \in 1..Len(P) : Q[i] = P[i]
  BY <1>q, AppendAt
<1>o. \A i \in 1..Len(P), op \in Ops : i \in 1..Len(Q) /\ (On(Q, i, n, op) <=> On(P, i, n, op))
  BY <1>a DEF On
<1>l. \A op \in Ops : On(Q, Len(P) + 1, n, op) <=> op = j.op
  BY <1>a DEF On
<1>i. \A i \in 1..Len(Q) : i \in 1..Len(P) \/ i = Len(P) + 1
  BY <1>a
<1>m. Len(P) + 1 \in 1..Len(Q)
  BY <1>a
<1>b. \A i \in 1..Len(P) : Len(P) + 1 \in (i + 1)..Len(Q)
  BY <1>a
<1>s. \A i \in 1..Len(P) : \A k \in (i + 1)..Len(P), op \in Ops :
        k \in (i + 1)..Len(Q) /\ (On(Q, k, n, op) <=> On(P, k, n, op))
  BY <1>a, <1>o
<1>u. \A i \in 1..Len(P) : \A h \in 0..(i - 1) : \A k \in (h + 1)..(i - 1), op \in Ops :
        On(Q, k, n, op) <=> On(P, k, n, op)
  BY <1>a, <1>o
<1>1. ASSUME j.op = "detach" PROVE Released(Q, n, e)
  <2>1. \A i \in 1..Len(Q) : On(Q, i, n, "attach") => i \in 1..Len(P)
    BY <1>1, <1>i, <1>l
  <2> QED  BY <1>1, <1>l, <1>m, <1>b, <2>1 DEF Released
<1>2. ASSUME j.op = "modify", Released(P, n, e) PROVE Released(Q, n, e)
  <2>1. \A i \in 1..Len(Q) : On(Q, i, n, "attach") => i \in 1..Len(P) /\ On(P, i, n, "attach")
    BY <1>2, <1>i, <1>l, <1>o
  <2> QED  BY <1>2, <1>o, <1>s, <2>1 DEF Released
<1>3. ASSUME Clear(P, n, e) PROVE \A i \in 1..Len(P) : On(Q, i, n, "attach") =>
        /\ n \in DOMAIN e => \E k \in 1..(i - 1) : On(Q, k, n, "detach")
        /\ \A h \in 1..(i - 1) : On(Q, h, n, "attach") =>
             \E k \in (h + 1)..(i - 1) : On(Q, k, n, "detach")
  <2> SUFFICES ASSUME NEW i \in 1..Len(P), On(Q, i, n, "attach")
               PROVE  /\ n \in DOMAIN e => \E k \in 1..(i - 1) : On(Q, k, n, "detach")
                      /\ \A h \in 1..(i - 1) : On(Q, h, n, "attach") =>
                           \E k \in (h + 1)..(i - 1) : On(Q, k, n, "detach")
    OBVIOUS
  <2>1. On(P, i, n, "attach")
    BY <1>o
  <2>2. \A k \in 1..(i - 1), op \in Ops : On(Q, k, n, op) <=> On(P, k, n, op)
    BY <1>a, <1>o
  <2>3. \A h \in 1..(i - 1) : \A k \in (h + 1)..(i - 1) : k \in 1..(i - 1)
    BY <1>a
  <2> QED  BY <1>3, <2>1, <2>2, <2>3 DEF Clear
<1>4. ASSUME j.op \in {"detach", "modify"}, Clear(P, n, e) PROVE Clear(Q, n, e)
  <2>1. \A i \in 1..Len(Q) : On(Q, i, n, "attach") => i \in 1..Len(P)
    BY <1>4, <1>i, <1>l
  <2> QED  BY <1>3, <1>4, <2>1 DEF Clear
<1>5. ASSUME j.op = "attach", Clear(P, n, e), Released(P, n, e) PROVE Clear(Q, n, e)
  <2>1. n \in DOMAIN e => \E k \in 1..Len(P) : On(Q, k, n, "detach")
    BY <1>5, <1>o DEF Released
  <2>2. ASSUME NEW h \in 1..Len(P), On(Q, h, n, "attach")
        PROVE  \E k \in (h + 1)..Len(P) : On(Q, k, n, "detach")
    BY <1>5, <1>o, <1>s, <2>2 DEF Released
  <2>3. (Len(P) + 1) - 1 = Len(P)
    BY <1>a
  <2> QED  BY <1>3, <1>5, <1>i, <2>1, <2>2, <2>3 DEF Clear
<1>w. ASSUME j.op \in {"attach", "modify"} PROVE LastSays(Q, n, j.events)
  <2> SUFFICES ASSUME NEW k \in 1..Len(Q), Q[k].fd = n, \A l \in (k + 1)..Len(Q) : Q[l].fd # n
               PROVE  Q[k].events = j.events
    BY DEF LastSays
  <2>1. k = Len(P) + 1
    BY <1>a, <1>b, <1>i
  <2> QED  BY <1>a, <2>1
<1>6. ASSUME j.op = "attach" PROVE Standing(Q, n, j.socket, e, r, j.events)
  <2>1. OnlyModifies(Q, (Len(P) + 1) + 1, n)
    BY <1>a DEF OnlyModifies
  <2>2. Waits(Q, n, j.socket)
    BY <1>6, <1>a, <1>l, <1>m, <2>1 DEF Waits
  <2> QED  BY <1>6, <1>a, <1>m, <1>w, <2>2 DEF Standing
<1>7. ASSUME j.op = "modify", Standing(P, n, s, e, r, x) PROVE Standing(Q, n, s, e, r, j.events)
  <2>1. ASSUME NEW i \in Nat \ {0}, OnlyModifies(P, i, n) PROVE OnlyModifies(Q, i, n)
    BY <1>7, <1>a, <2>1 DEF OnlyModifies
  <2>2. Waits(P, n, s) => Waits(Q, n, s)
    <3> SUFFICES ASSUME NEW i \in 1..Len(P), On(P, i, n, "attach"), P[i].socket = s,
                        OnlyModifies(P, i + 1, n)
                 PROVE  Waits(Q, n, s)
      BY DEF Waits
    <3>1. i \in 1..Len(Q) /\ On(Q, i, n, "attach") /\ Q[i].socket = s
      BY <1>a, <1>o
    <3>2. OnlyModifies(Q, i + 1, n)
      BY <2>1
    <3> QED  BY <3>1, <3>2 DEF Waits
  <2>3. Made(P, n, s, e, r) => Made(Q, n, s, e, r)
    BY <2>1 DEF Made
  <2> QED  BY <1>7, <1>a, <1>m, <1>w, <2>2, <2>3 DEF Standing
<1> QED  BY <1>q, <1>1, <1>2, <1>4, <1>5, <1>6, <1>7

\* Taking a job shifts the others by one.
LEMMA Shifted ==
    ASSUME NEW P \in Seq(JobSet), P # <<>>, NEW n
    PROVE  /\ \A k \in 1..Len(Tail(P)) : k + 1 \in 1..Len(P) /\ Tail(P)[k] = P[k + 1]
           /\ \A k \in 1..Len(P) : k = 1 \/ (k - 1 \in 1..Len(Tail(P)) /\ Tail(P)[k - 1] = P[k])
           /\ \A i \in 1..Len(P), op \in Ops :
                (\E k \in (i + 1)..Len(P) : On(P, k, n, op))
                => \E k \in i..Len(Tail(P)) : On(Tail(P), k, n, op)
           /\ \A i \in 1..Len(P) : OnlyModifies(P, i + 1, n) => OnlyModifies(Tail(P), i, n)
           /\ \A x : LastSays(P, n, x) => LastSays(Tail(P), n, x)
           /\ \A i \in 1..Len(Tail(P)) :
                (\E k \in (i + 2)..Len(P) : On(P, k, n, "detach"))
                => \E k \in (i + 1)..Len(Tail(P)) : On(Tail(P), k, n, "detach")
<1>q. PICK Q \in Seq(JobSet) : Q = Tail(P)
  BY TailAt
<1>a. /\ Len(Q) = Len(P) - 1 /\ Len(P) \in Nat /\ 1 \in 1..Len(P)
      /\ \A k \in 1..Len(Q) : k + 1 \in 1..Len(P) /\ Q[k] = P[k + 1]
  BY <1>q, TailAt
<1>b. ASSUME NEW k \in 1..Len(P), k # 1 PROVE k - 1 \in 1..Len(Q) /\ Q[k - 1] = P[k]
  <2>1. k - 1 \in 1..Len(Q) /\ (k - 1) + 1 = k
    BY <1>a, <1>b
  <2> QED  BY <1>a, <2>1
<1>1. ASSUME NEW i \in 1..Len(P), NEW op, NEW k \in (i + 1)..Len(P), On(P, k, n, op)
      PROVE  \E m \in i..Len(Q) : On(Q, m, n, op)
  <2>1. k \in 1..Len(P) /\ k # 1 /\ k - 1 \in i..Len(Q)
    BY <1>a
  <2> QED  BY <1>1, <1>b, <2>1 DEF On
<1>2. ASSUME NEW i \in 1..Len(P), OnlyModifies(P, i + 1, n) PROVE OnlyModifies(Q, i, n)
  <2>1. \A k \in i..Len(Q) : k \in 1..Len(Q) /\ k + 1 \in (i + 1)..Len(P)
    BY <1>a
  <2> QED  BY <1>2, <1>a, <2>1 DEF OnlyModifies
<1>3. ASSUME NEW x, LastSays(P, n, x) PROVE LastSays(Q, n, x)
  <2> SUFFICES ASSUME NEW k \in 1..Len(Q), Q[k].fd = n, \A l \in (k + 1)..Len(Q) : Q[l].fd # n
               PROVE  Q[k].events = x
    BY DEF LastSays
  <2>1. k + 1 \in 1..Len(P) /\ Q[k] = P[k + 1]
    BY <1>a
  <2>2. ASSUME NEW l \in ((k + 1) + 1)..Len(P) PROVE P[l].fd # n
    <3>1. l \in 1..Len(P) /\ l # 1 /\ l - 1 \in (k + 1)..Len(Q)
      BY <1>a
    <3> QED  BY <1>b, <3>1
  <2> QED  BY <1>3, <2>1, <2>2 DEF LastSays
<1>4. ASSUME NEW i \in 1..Len(Q), NEW k \in (i + 2)..Len(P), On(P, k, n, "detach")
      PROVE  \E m \in (i + 1)..Len(Q) : On(Q, m, n, "detach")
  <2>1. k \in 1..Len(P) /\ k # 1 /\ k - 1 \in (i + 1)..Len(Q)
    BY <1>a
  <2> QED  BY <1>4, <1>b, <2>1 DEF On
<1> QED  BY <1>q, <1>a, <1>b, <1>1, <1>2, <1>3, <1>4

\* What is undone, and what is clear, after the next job P[1].
LEMMA TakeReleased ==
    ASSUME NEW P \in Seq(JobSet), P # <<>>, NEW n, NEW e, NEW f, Released(P, n, e),
           \/ On(P, 1, n, "attach")
           \/ On(P, 1, n, "detach") /\ n \notin DOMAIN f
           \/ ~On(P, 1, n, "detach") /\ (n \in DOMAIN f => n \in DOMAIN e)
    PROVE  Released(Tail(P), n, f)
<1>q. PICK Q \in Seq(JobSet) : Q = Tail(P)
  BY TailAt
<1>a. /\ \A k \in 1..Len(Q) : k + 1 \in 1..Len(P) /\ Q[k] = P[k + 1]
      /\ \A k \in 1..Len(P) : k = 1 \/ (k - 1 \in 1..Len(Q) /\ Q[k - 1] = P[k])
      /\ 1 \in 1..Len(P) /\ Len(P) \in Nat
  BY <1>q, Shifted, TailAt
<1>s. /\ (\E k \in (1 + 1)..Len(P) : On(P, k, n, "detach"))
         => \E k \in 1..Len(Q) : On(Q, k, n, "detach")
      /\ \A i \in 1..Len(Q) : (\E k \in (i + 2)..Len(P) : On(P, k, n, "detach"))
         => \E k \in (i + 1)..Len(Q) : On(Q, k, n, "detach")
  BY <1>q, <1>a, Shifted DEF Ops
<1>1. ASSUME NEW i \in 1..Len(Q), On(Q, i, n, "attach")
      PROVE  \E k \in (i + 1)..Len(Q) : On(Q, k, n, "detach")
  <2>1. i + 1 \in 1..Len(P) /\ On(P, i + 1, n, "attach") /\ (i + 1) + 1 = i + 2
    BY <1>1, <1>a DEF On
  <2>2. \E k \in (i + 2)..Len(P) : On(P, k, n, "detach")
    BY <2>1 DEF Released
  <2> QED  BY <1>s, <2>2
<1>2. ASSUME n \in DOMAIN f PROVE \E k \in 1..Len(Q) : On(Q, k, n, "detach")
  <2>1. CASE On(P, 1, n, "attach")
    BY <1>a, <1>s, <2>1 DEF Released
  <2>2. CASE ~On(P, 1, n, "detach") /\ n \in DOMAIN e
    <3>1. PICK k \in 1..Len(P) : On(P, k, n, "detach")
      BY <2>2 DEF Released
    <3>2. k \in (1 + 1)..Len(P)
      BY <1>a, <2>2, <3>1
    <3> QED  BY <1>s, <3>1, <3>2
  <2> QED  BY <1>2, <2>1, <2>2
<1> QED  BY <1>q, <1>1, <1>2 DEF Released

\* The first job is taken: between two registrations of a number there is still an end.
LEMMA TakeClear ==
    ASSUME NEW P \in Seq(JobSet), P # <<>>, NEW n, NEW e, NEW f, Clear(P, n, e),
           \/ On(P, 1, n, "attach")
           \/ On(P, 1, n, "detach") /\ n \notin DOMAIN f
           \/ ~On(P, 1, n, "detach") /\ (n \in DOMAIN f => n \in DOMAIN e)
    PROVE  Clear(Tail(P), n, f)
<1>q. PICK Q \in Seq(JobSet) : Q = Tail(P)
  BY TailAt
<1>a. /\ \A k \in 1..Len(Q) : k + 1 \in 1..Len(P) /\ Q[k] = P[k + 1]
      /\ \A k \in 1..Len(P) : k = 1 \/ (k - 1 \in 1..Len(Q) /\ Q[k - 1] = P[k])
      /\ 1 \in 1..Len(P) /\ Len(P) \in Nat /\ Len(Q) = Len(P) - 1
  BY <1>q, Shifted, TailAt
<1> SUFFICES ASSUME NEW i \in 1..Len(Q), On(Q, i, n, "attach")
             PROVE  /\ n \in DOMAIN f => \E k \in 1..(i - 1) : On(Q, k, n, "detach")
                    /\ \A h \in 1..(i - 1) : On(Q, h, n, "attach") =>
                         \E k \in (h + 1)..(i - 1) : On(Q, k, n, "detach")
  BY <1>q DEF Clear
<1>i. /\ i + 1 \in 1..Len(P) /\ On(P, i + 1, n, "attach") /\ (i + 1) - 1 = i
  BY <1>a DEF On
<1>s. ASSUME NEW h \in 0..(i - 1), NEW k \in (h + 2)..i, On(P, k, n, "detach")
      PROVE  k - 1 \in (h + 1)..(i - 1) /\ On(Q, k - 1, n, "detach")
  <2>1. k \in 1..Len(P) /\ k # 1 /\ k - 1 \in (h + 1)..(i - 1)
    BY <1>a
  <2> QED  BY <1>a, <1>s, <2>1 DEF On
<1>1. ASSUME NEW h \in 1..(i - 1), On(Q, h, n, "attach")
      PROVE  \E k \in (h + 1)..(i - 1) : On(Q, k, n, "detach")
  <2>1. h \in 1..Len(Q) /\ h + 1 \in 1..i /\ h \in 0..(i - 1) /\ (h + 1) + 1 = h + 2
    BY <1>a
  <2>2. On(P, h + 1, n, "attach")
    BY <1>1, <1>a, <2>1 DEF On
  <2>3. PICK k \in (h + 2)..i : On(P, k, n, "detach")
    BY <1>i, <2>1, <2>2 DEF Clear
  <2> QED  BY <1>s, <2>1, <2>3
<1>2. ASSUME n \in DOMAIN f PROVE \E k \in 1..(i - 1) : On(Q, k, n, "detach")
  <2>0. 0 \in 0..(i - 1) /\ 1 \in 1..i /\ 1 + 1 = 2 /\ 0 + 2 = 2 /\ 0 + 1 = 1
    BY <1>a
  <2>1. CASE On(P, 1, n, "attach")
    <3>1. PICK k \in (1 + 1)..i : On(P, k, n, "detach")
      BY <1>i, <2>0, <2>1 DEF Clear
    <3>2. k \in (0 + 2)..i
      BY <2>0
    <3> QED  BY <1>s, <2>0, <3>1, <3>2
  <2>2. CASE ~On(P, 1, n, "detach") /\ n \in DOMAIN e
    <3>1. PICK k \in 1..i : On(P, k, n, "detach")
      BY <1>i, <2>2 DEF Clear
    <3>2. k # 1
      BY <2>2, <3>1
    <3>3. k \in (0 + 2)..i
      BY <1>a, <3>2
    <3> QED  BY <1>s, <2>0, <3>1, <3>3
  <2> QED  BY <1>2, <2>1, <2>2
<1> QED  BY <1>1, <1>2

\* A registration that is to stay does so when the next job P[1] is taken.
LEMMA TakeStanding ==
    ASSUME NEW P \in Seq(JobSet), P # <<>>, NEW n, NEW s, NEW e, NEW f, NEW r, NEW w, NEW x,
           Standing(P, n, s, e, r, x),
           \/ P[1].fd # n /\ (n \in DOMAIN e => n \in DOMAIN f /\ w[n] = r[n])
           \/ On(P, 1, n, "detach")
           \/ On(P, 1, n, "modify") /\ (n \in DOMAIN e =>
                n \in DOMAIN f /\ w[n].socket = r[n].socket /\ w[n].events = P[1].events)
           \/ /\ On(P, 1, n, "attach")
              /\ n \in DOMAIN f /\ w[n].socket = P[1].socket /\ w[n].events = P[1].events
    PROVE  Standing(Tail(P), n, s, f, w, x)
<1>q. PICK Q \in Seq(JobSet) : Q = Tail(P)
  BY TailAt
<1>a. /\ \A k \in 1..Len(Q) : k + 1 \in 1..Len(P) /\ Q[k] = P[k + 1]
      /\ \A k \in 1..Len(P) : k = 1 \/ (k - 1 \in 1..Len(Q) /\ Q[k - 1] = P[k])
      /\ 1 \in 1..Len(P) /\ Len(P) \in Nat /\ Len(Q) = Len(P) - 1
  BY <1>q, Shifted, TailAt
<1>o. \A i \in 1..Len(P) : OnlyModifies(P, i + 1, n) => OnlyModifies(Q, i, n)
  BY <1>q, Shifted
<1>l. LastSays(Q, n, x)
  BY <1>q, Shifted DEF Standing
<1>1. ASSUME NEW i \in 1..Len(P), On(P, i, n, "attach"), P[i].socket = s,
             OnlyModifies(P, i + 1, n), i # 1
      PROVE  Waits(Q, n, s)
  <2>1. i - 1 \in 1..Len(Q) /\ Q[i - 1] = P[i] /\ (i - 1) + 1 = i
    BY <1>1, <1>a
  <2>2. On(Q, i - 1, n, "attach") /\ Q[i - 1].socket = s
    BY <1>1, <2>1 DEF On
  <2>3. OnlyModifies(Q, (i - 1) + 1, n)
    BY <1>1, <1>o, <2>1
  <2> QED  BY <2>1, <2>2, <2>3 DEF Waits
<1>2. ASSUME On(P, 1, n, "attach"), P[1].socket = s, OnlyModifies(P, 1 + 1, n)
      PROVE  Made(Q, n, s, f, w)
  <2>1. OnlyModifies(Q, 1, n)
    BY <1>2, <1>a, <1>o
  <2> QED  BY <1>2, <2>1 DEF Made, On
<1>3. ASSUME Made(P, n, s, e, r) PROVE Made(Q, n, s, f, w)
  <2>1. OnlyModifies(P, 1 + 1, n) /\ n \in DOMAIN e /\ r[n].socket = s
        /\ (P[1].fd = n => P[1].op = "modify")
    BY <1>3, <1>a DEF Made, OnlyModifies
  <2>2. OnlyModifies(Q, 1, n)
    BY <1>a, <1>o, <2>1
  <2>3. n \in DOMAIN f /\ w[n].socket = s
    BY <2>1 DEF On
  <2> QED  BY <2>2, <2>3 DEF Made
<1>4. Waits(Q, n, s) \/ Made(Q, n, s, f, w)
  <2>1. CASE Waits(P, n, s)
    <3>1. PICK i \in 1..Len(P) : /\ On(P, i, n, "attach") /\ P[i].socket = s
                                 /\ OnlyModifies(P, i + 1, n)
      BY <2>1 DEF Waits
    <3> QED  BY <1>1, <1>2, <3>1
  <2> QED  BY <1>3, <2>1 DEF Standing
<1>5. ASSUME \A k \in 1..Len(Q) : Q[k].fd # n PROVE w[n].events = x
  <2>1. \A k \in 1..Len(P) : k # 1 => P[k].fd # n
    BY <1>5, <1>a
  <2>2. CASE P[1].fd # n
    <3>1. \A k \in 1..Len(P) : P[k].fd # n
      BY <2>1, <2>2
    <3>2. r[n].events = x /\ Made(P, n, s, e, r)
      BY <3>1 DEF Standing, Waits, On
    <3> QED  BY <2>2, <3>2 DEF On, Made
  <2>3. CASE P[1].fd = n
    <3>1. \A l \in (1 + 1)..Len(P) : P[l].fd # n
      BY <1>a, <2>1
    <3>2. P[1].events = x
      BY <1>a, <2>3, <3>1 DEF Standing, LastSays
    <3>3. ~On(P, 1, n, "attach") => Made(P, n, s, e, r)
      BY <2>1 DEF Standing, Waits, On
    <3>4. Made(P, n, s, e, r) => n \in DOMAIN e /\ P[1].op = "modify"
      BY <1>a, <2>3 DEF Made, OnlyModifies
    <3> QED  BY <2>3, <3>2, <3>3, <3>4 DEF On
  <2> QED  BY <2>2, <2>3
<1> QED  BY <1>q, <1>l, <1>4, <1>5 DEF Standing

\* Who registers, after a new job and after the next one.
LEMMA AddBirths ==
    ASSUME NEW P \in Seq(JobSet), NEW j \in JobSet, NEW s
    PROVE  /\ Unborn(P, s) /\ (j.op = "attach" => j.socket # s) => Unborn(Append(P, j), s)
           /\ Distinct(P) /\ (j.op = "attach" => Unborn(P, j.socket)) => Distinct(Append(P, j))
<1>q. PICK Q \in Seq(JobSet) : Q = Append(P, j)
  BY AppendAt
<1>a. /\ Q[Len(P) + 1] = j /\ \A i \in 1..Len(P) : Q[i] = P[i]
      /\ \A i \in 1..Len(Q) : i \in 1..Len(P) \/ i = Len(P) + 1
  BY <1>q, AppendAt
<1>1. ASSUME Unborn(P, s), j.op = "attach" => j.socket # s PROVE Unborn(Q, s)
  BY <1>1, <1>a DEF Unborn
<1>2. ASSUME Distinct(P), j.op = "attach" => Unborn(P, j.socket) PROVE Distinct(Q)
  <2>1. \A i \in 1..Len(P) : j.op = "attach" /\ Q[i].op = "attach" => Q[i].socket # j.socket
    BY <1>2, <1>a DEF Unborn
  <2>2. \A i, k \in 1..Len(P) :
          Q[i].op = "attach" /\ Q[k].op = "attach" /\ i # k => Q[i].socket # Q[k].socket
    BY <1>2, <1>a DEF Distinct
  <2> QED  BY <1>a, <2>1, <2>2 DEF Distinct
<1> QED  BY <1>q, <1>1, <1>2

\* The first job is taken: it was the only registration of its Socket on the way.
LEMMA TakeBirths ==
    ASSUME NEW P \in Seq(JobSet), P # <<>>, NEW s, Distinct(P)
    PROVE  /\ Unborn(P, s) => Unborn(Tail(P), s)
           /\ Distinct(Tail(P))
           /\ P[1].op = "attach" => Unborn(Tail(P), P[1].socket)
<1>q. PICK Q \in Seq(JobSet) : Q = Tail(P)
  BY TailAt
<1>a. /\ \A k \in 1..Len(Q) : k + 1 \in 1..Len(P) /\ k + 1 # 1 /\ Q[k] = P[k + 1]
      /\ \A i, k \in 1..Len(Q) : i # k => i + 1 # k + 1
      /\ 1 \in 1..Len(P)
  BY <1>q, TailAt
<1>1. Unborn(P, s) => Unborn(Q, s)
  BY <1>a DEF Unborn
<1>2. Distinct(Q)
  BY <1>a DEF Distinct
<1>3. P[1].op = "attach" => Unborn(Q, P[1].socket)
  BY <1>a DEF Unborn, Distinct
<1> QED  BY <1>q, <1>1, <1>2, <1>3

\* What the kernel and the records may lose when no job moves.
LEMMA SamePending ==
    ASSUME NEW P \in Seq(JobSet), NEW n, NEW s, NEW e, NEW f, NEW r, NEW w, NEW x
    PROVE  /\ (n \in DOMAIN f => n \in DOMAIN e) /\ Clear(P, n, e) => Clear(P, n, f)
           /\ (n \in DOMAIN f => n \in DOMAIN e) /\ Released(P, n, e) => Released(P, n, f)
           /\ (n \in DOMAIN e => n \in DOMAIN f /\ w[n] = r[n]) /\ Standing(P, n, s, e, r, x)
              => Standing(P, n, s, f, w, x)
<1>1. (n \in DOMAIN f => n \in DOMAIN e) /\ Clear(P, n, e) => Clear(P, n, f)
  BY DEF Clear
<1>2. (n \in DOMAIN f => n \in DOMAIN e) /\ Released(P, n, e) => Released(P, n, f)
  BY DEF Released
<1>3. ASSUME n \in DOMAIN e => n \in DOMAIN f /\ w[n] = r[n], Standing(P, n, s, e, r, x)
      PROVE  Standing(P, n, s, f, w, x)
  <2>1. Made(P, n, s, e, r) => Made(P, n, s, f, w)
    BY <1>3 DEF Made
  <2>2. (\A k \in 1..Len(P) : P[k].fd # n) => Made(P, n, s, e, r)
    BY <1>3 DEF Standing, Waits, On
  <2>3. (\A k \in 1..Len(P) : P[k].fd # n) => w[n].events = x
    BY <1>3, <2>2 DEF Standing, Made
  <2> QED  BY <1>3, <2>1, <2>3 DEF Standing
<1> QED  BY <1>1, <1>2, <1>3

\* The parts of Way, for the next state.
LEMMA WayNext ==
    ASSUME NEW P, P = tasks' \o queue', NEW e, e = epoll', NEW r, r = records',
           \A n \in Fds : Clear(P, n, e),
           \A n \in Fds : (\A s \in Sockets : Live(s)' => fd'[s] # n) => Released(P, n, e),
           \A s \in Sockets : Live(s)' => Standing(P, fd'[s], s, e, r, asked'[s]),
           \A s \in Sockets : Seen(s)' => Unborn(P, s),
           Distinct(P)
    PROVE  Way'
<1>1. ASSUME \A n \in Fds : Clear(tasks' \o queue', n, epoll')
      PROVE  (\A n \in Fds : Clear(Pending, n, epoll))'
  BY <1>1 DEF Pending, Clear, On
<1>2. ASSUME \A n \in Fds : (\A s \in Sockets : Live(s)' => fd'[s] # n)
                           => Released(tasks' \o queue', n, epoll')
      PROVE  (\A n \in Fds : (\A s \in Sockets : Live(s) => fd[s] # n)
                             => Released(Pending, n, epoll))'
  BY <1>2 DEF Pending, Released, On
<1>3. ASSUME \A s \in Sockets : Live(s)' =>
                Standing(tasks' \o queue', fd'[s], s, epoll', records', asked'[s])
      PROVE  (\A s \in Sockets : Live(s) =>
                Standing(Pending, fd[s], s, epoll, records, asked[s]))'
  BY <1>3 DEF Pending, Standing, Waits, Made, LastSays, OnlyModifies, On
<1>4. ASSUME \A s \in Sockets : Seen(s)' => Unborn(tasks' \o queue', s)
      PROVE  (\A s \in Sockets : Seen(s) => Unborn(Pending, s))'
  BY <1>4 DEF Pending, Unborn
<1>5. ASSUME Distinct(tasks' \o queue') PROVE Distinct(Pending)'
  BY <1>5 DEF Pending, Distinct
<1> QED  BY <1>1, <1>2, <1>3, <1>4, <1>5 DEF Way

\* The jobs on their way are jobs.
LEMMA PendingJobs == FType => Pending \in Seq(JobSet)
<1> SUFFICES ASSUME FType PROVE Pending \in Seq(JobSet)
  OBVIOUS
<1>1. queue \in Seq(JobSet) /\ tasks \in Seq(JobSet)
  BY DEF FType, Data
<1>2. \A S : \A t, q \in Seq(S) : t \o q \in Seq(S)
  BY ConcatProperties
<1> QED  BY <1>1, <1>2 DEF Pending

\* A step that moves no job and touches no record that is to stay.
LEMMA WaySteady ==
    ASSUME FType, Way, tasks' \o queue' = Pending,
           \A n \in Fds : n \in DOMAIN epoll' => n \in DOMAIN epoll,
           \A s \in Sockets : Live(s)' <=> Live(s),
           \A s \in Sockets : Live(s) =>
             /\ fd'[s] = fd[s] /\ asked'[s] = asked[s]
             /\ fd[s] \in DOMAIN epoll =>
                  fd[s] \in DOMAIN epoll' /\ records'[fd[s]] = records[fd[s]],
           \A s \in Sockets : Seen(s)' => Seen(s)
    PROVE  Way'
<1>p. PICK P \in Seq(JobSet) : P = Pending
  BY PendingJobs
<1>e. PICK e, f, r, w : e = epoll /\ f = epoll' /\ r = records /\ w = records'
  OBVIOUS
<1>h. /\ \A n \in Fds : Clear(P, n, e)
      /\ \A n \in Fds : (\A s \in Sockets : Live(s) => fd[s] # n) => Released(P, n, e)
      /\ \A s \in Sockets : Live(s) => Standing(P, fd[s], s, e, r, asked[s])
      /\ \A s \in Sockets : Seen(s) => Unborn(P, s)
      /\ Distinct(P)
  BY <1>p, <1>e DEF Way
<1>1. \A n \in Fds : Clear(P, n, f)
  BY <1>p, <1>e, <1>h, SamePending
<1>2. ASSUME NEW n \in Fds, \A s \in Sockets : Live(s)' => fd'[s] # n
      PROVE  Released(P, n, f)
  <2>1. Released(P, n, e)
    BY <1>2, <1>h
  <2> QED  BY <1>p, <1>e, <2>1, SamePending
<1>3. ASSUME NEW s \in Sockets, Live(s)' PROVE Standing(P, fd'[s], s, f, w, asked'[s])
  <2>1. PICK n, x : n = fd[s] /\ x = asked[s]
    OBVIOUS
  <2>2. Live(s) /\ fd'[s] = n /\ asked'[s] = x
    BY <1>3, <2>1
  <2>3. n \in DOMAIN e => n \in DOMAIN f /\ w[n] = r[n]
    BY <1>e, <2>1, <2>2
  <2>4. Standing(P, n, s, e, r, x)
    BY <1>h, <2>1, <2>2
  <2>5. Standing(P, n, s, f, w, x)
    BY <2>3, <2>4, SamePending
  <2> QED  BY <2>2, <2>5
<1>4. P = tasks' \o queue'
  BY <1>p
<1> QED  BY <1>e, <1>h, <1>1, <1>2, <1>3, <1>4, WayNext

\* The quiet steps.
LEMMA WayQuiet ==
    ASSUME FType, Way, Pending' = Pending, UNCHANGED <<epoll, records, fd, asked>>,
           \A t \in Threads : (pc[t] = "close") <=> (pc'[t] = "close"),
           \A t \in Threads : pc[t] = "close" => obj'[t] = obj[t],
           \A s \in Sockets : Seen(s)' => Seen(s)
    PROVE  Way'
<1>1. \A s \in Sockets : Live(s)' <=> Live(s)
  BY DEF Live
<1>2. tasks' \o queue' = Pending
  BY DEF Pending
<1> QED  BY <1>1, <1>2, WaySteady

\* Each step keeps the turns that jobs and callbacks take on the poller.
LEMMA TurnsStep == ~PollerUses /\ FType /\ Owned /\ Turns /\ [Next]_vars => Turns'
<1> SUFFICES ASSUME ~PollerUses, FType, Owned, Turns, [Next]_vars PROVE Turns'
  OBVIOUS
<1>d. pc \in [Threads -> {"out", "detach", "close", "attach"}] /\ Poller \in Threads
  BY DEF FType, Data, Threads
<1>1. ASSUME NEW t \in Threads, NEW s \in Sockets, Bind(t, s) \/ Drop(t, s) PROVE Turns'
  <2>1. t # Poller /\ UNCHANGED <<tasks, ppc>>
    BY <1>1 DEF Bind, Drop, MayUse, loopVars
  <2>2. pc' = pc \/ \E l : pc' = [pc EXCEPT ![t] = l]
    BY <1>1 DEF Bind, Drop, Goto
  <2>3. pc'[Poller] = pc[Poller]
    BY <1>d, <2>1, <2>2
  <2> QED  BY <2>1, <2>3 DEF Turns
<1>2. ASSUME NEW t \in Threads, InCall(t) PROVE Turns'
  <2>1. UNCHANGED <<tasks, ppc>> /\ pc[t] # "out"
    BY <1>2 DEF InCall, Detach, Close, Attach, loopVars
  <2>2. ASSUME t # Poller PROVE pc'[Poller] = pc[Poller]
    <3>1. \E l : pc' = [pc EXCEPT ![t] = l]
      BY <1>2 DEF InCall, Detach, Close, Attach, Goto
    <3> QED  BY <1>d, <2>2, <3>1
  <2>3. ASSUME t = Poller PROVE pc'[Poller] # "attach"
    <3>1. CASE Detach(t)
      BY <1>d, <2>3, <3>1 DEF Detach, Goto
    <3>2. CASE Close(t)
      <4>1. new[t] = NoFd
        BY <3>2 DEF Close, Owned, Ending
      <4> QED  BY <1>d, <2>3, <3>2, <4>1 DEF Close, Goto
    <3>3. CASE Attach(t)
      BY <2>3, <3>3 DEF Attach, Turns
    <3> QED  BY <1>2, <3>1, <3>2, <3>3 DEF InCall
  <2> QED  BY <2>1, <2>2, <2>3 DEF Turns
<1>3. CASE \E t \in Threads, s \in Sockets, e \in Masks : Modify(t, s, e)
  BY <1>3 DEF Modify, Turns, loopVars, threadVars
<1>4. CASE Wait
  BY <1>4 DEF Wait, Turns, threadVars
<1>5. CASE TakeTasks
  BY <1>5 DEF TakeTasks, Turns, threadVars
<1>6. CASE RunTask
  BY <1>6 DEF RunTask, Turns, threadVars
<1>7. CASE TasksEnd
  BY <1>7 DEF TasksEnd, Turns, threadVars
<1>8. CASE \E r \in batch : Call(r)
  BY <1>8 DEF Call, Turns, threadVars
<1>9. CASE CallEnds
  BY <1>d, <1>9 DEF CallEnds, Turns, Goto
<1>10. CASE CallReturned
  BY <1>10 DEF CallReturned, Turns, threadVars
<1>11. CASE BatchEnds
  BY <1>11 DEF BatchEnds, Turns, threadVars
<1>12. CASE UNCHANGED vars
  BY <1>12 DEF vars, loopVars, threadVars, Turns
<1> QED
  BY <1>1, <1>2, <1>3, <1>4, <1>5, <1>6, <1>7, <1>8, <1>9, <1>10, <1>11, <1>12
  DEF Next, Loop, Idle

\* The steps of sockets and of the loop that neither make nor run a request.
LEMMA WayOfQuietSteps ==
    ASSUME ~PollerUses, FType, Turns, Way,
           \/ \E t \in Threads, s \in Sockets : (Bind(t, s) /\ fd[s] = NoFd) \/ Drop(t, s)
           \/ Wait \/ TakeTasks \/ TasksEnd \/ CallEnds \/ CallReturned \/ BatchEnds
           \/ \E r \in batch : Call(r)
           \/ UNCHANGED vars
    PROVE  Way'
<1>d. pc \in [Threads -> {"out", "detach", "close", "attach"}] /\ Poller \in Threads
      /\ obj \in [Threads -> Sockets \cup {NoSocket}] /\ queue \in Seq(JobSet)
  BY DEF FType, Data, Threads
<1>1. ASSUME NEW t \in Threads, NEW s \in Sockets, (Bind(t, s) /\ fd[s] = NoFd) \/ Drop(t, s)
      PROVE  Way'
  <2>1. /\ t # Poller /\ UNCHANGED <<tasks, queue, epoll, records, fd, asked, batch, call>>
        /\ pc[t] = "out"
    BY <1>1 DEF Bind, Drop, MayUse, loopVars, kernel
  <2>2. \/ pc' = pc /\ obj' = obj
        \/ (\E l : l # "close" /\ pc' = [pc EXCEPT ![t] = l]) /\ obj' = [obj EXCEPT ![t] = s]
    BY <1>1 DEF Bind, Drop, Goto
  <2>3. \A u \in Threads : /\ (pc[u] = "close") <=> (pc'[u] = "close")
                           /\ u # t => pc'[u] = pc[u] /\ obj'[u] = obj[u]
    BY <1>d, <2>1, <2>2
  <2>4. pc'[Poller] = pc[Poller] /\ obj'[Poller] = obj[Poller]
    BY <1>d, <2>1, <2>3
  <2>5. \A x \in Sockets : Seen(x)' => Seen(x)
    BY <2>1, <2>4 DEF Seen
  <2>6. \A u \in Threads : pc[u] = "close" => obj'[u] = obj[u]
    BY <2>1, <2>3
  <2>7. Pending' = Pending
    BY <2>1 DEF Pending
  <2> QED  BY <2>1, <2>3, <2>5, <2>6, <2>7, WayQuiet
<1>2. CASE Wait
  <2>1. UNCHANGED <<tasks, queue, epoll, records, fd, asked, call, pc, obj>>
    BY <1>2 DEF Wait, kernel, socketVars, threadVars
  <2>2. \A r \in batch' : r.fd \in DOMAIN records /\ r.socket = records[r.fd].socket
    <3>1. PICK ready \in SUBSET DOMAIN epoll : \E ev \in [ready -> Events] :
            batch' = {[fd |-> n, socket |-> records[n].socket, event |-> Signalled({ev[n]})] :
                         n \in ready \cap DOMAIN records}
      BY <1>2 DEF Wait
    <3>2. PICK ev \in [ready -> Events] :
            batch' = {[fd |-> n, socket |-> records[n].socket, event |-> Signalled({ev[n]})] :
                         n \in ready \cap DOMAIN records}
      BY <3>1
    <3>3. ASSUME NEW r \in batch'
          PROVE  r.fd \in DOMAIN records /\ r.socket = records[r.fd].socket
      <4>1. PICK n \in ready \cap DOMAIN records :
              r = [fd |-> n, socket |-> records[n].socket, event |-> Signalled({ev[n]})]
        BY <3>2, <3>3
      <4>2. r.fd = n /\ r.socket = records[n].socket
        BY <4>1
      <4> QED  BY <4>2
    <3> QED  BY <3>3
  <2>3. \A x \in Sockets : Seen(x)' => Seen(x)
    BY <2>1, <2>2 DEF Seen
  <2> QED  BY <2>1, <2>3, WayQuiet DEF Pending
<1>3. CASE TakeTasks
  <2>1. /\ UNCHANGED <<epoll, records, fd, asked, batch, call, pc, obj>>
        /\ ppc = "batch" /\ tasks' = queue /\ queue' = <<>>
    BY <1>3 DEF TakeTasks, kernel, socketVars, threadVars
  <2>2. tasks = <<>>
    BY <2>1 DEF Turns
  <2>3. \A S : \A q \in Seq(S) : <<>> \o q = q /\ q \o <<>> = q
    BY ConcatEmptySeq
  <2>4. tasks' \o queue' = tasks \o queue
    BY <1>d, <2>1, <2>2, <2>3
  <2>5. \A x \in Sockets : Seen(x)' => Seen(x)
    BY <2>1 DEF Seen
  <2> QED  BY <2>1, <2>4, <2>5, WayQuiet DEF Pending
<1>4. CASE TasksEnd \/ CallReturned \/ BatchEnds
  <2>1. UNCHANGED <<tasks, queue, epoll, records, fd, asked, batch, call, pc, obj>>
    BY <1>4 DEF TasksEnd, CallReturned, BatchEnds, kernel, socketVars, threadVars
  <2>2. \A x \in Sockets : Seen(x)' => Seen(x)
    BY <2>1 DEF Seen
  <2> QED  BY <2>1, <2>2, WayQuiet DEF Pending
<1>5. ASSUME NEW r \in batch, Call(r) PROVE Way'
  <2>1. /\ UNCHANGED <<tasks, queue, epoll, records, fd, asked, pc, obj>>
        /\ batch' \subseteq batch /\ (call' = r \/ call' = call)
    BY <1>5 DEF Call, kernel, socketVars, threadVars
  <2>2. \A x \in Sockets : Seen(x)' => Seen(x)
    BY <2>1 DEF Seen
  <2> QED  BY <2>1, <2>2, WayQuiet DEF Pending
<1>6. CASE CallEnds
  <2>1. /\ UNCHANGED <<tasks, queue, epoll, records, fd, asked, batch>>
        /\ pc[Poller] = "out" /\ call' = NoRecord
        /\ \/ UNCHANGED <<pc, obj>>
           \/ /\ pc' = [pc EXCEPT ![Poller] = "detach"]
              /\ obj' = [obj EXCEPT ![Poller] = call.socket]
    BY <1>6 DEF CallEnds, kernel, socketVars, Goto
  <2>2. \A u \in Threads : /\ (pc[u] = "close") <=> (pc'[u] = "close")
                           /\ pc[u] = "close" => obj'[u] = obj[u]
    BY <1>d, <2>1
  <2>3. \A x \in Sockets : call'.socket # x
    BY <2>1, FdsAssumption DEF NoRecord
  <2>4. pc'[Poller] = "detach" => obj'[Poller] = call.socket
    BY <1>d, <2>1
  <2>5. \A x \in Sockets : Seen(x)' => Seen(x)
    BY <2>1, <2>3, <2>4 DEF Seen
  <2> QED  BY <2>1, <2>2, <2>5, WayQuiet DEF Pending
<1>7. CASE UNCHANGED vars
  <2>1. UNCHANGED <<tasks, queue, epoll, records, fd, asked, batch, call, pc, obj>>
    BY <1>7 DEF vars, kernel, loopVars, socketVars, threadVars
  <2>2. \A x \in Sockets : Seen(x)' => Seen(x)
    BY <2>1 DEF Seen
  <2> QED  BY <2>1, <2>2, WayQuiet DEF Pending
<1> QED  BY <1>1, <1>2, <1>3, <1>4, <1>5, <1>6, <1>7

\* A request that another thread puts at the end.
LEMMA WayAdds ==
    ASSUME FType, Way, NEW j \in JobSet,
           tasks' = tasks, queue' = Append(queue, j), UNCHANGED <<epoll, records>>,
           \A s \in Sockets : Live(s)' =>
             \/ Live(s) /\ fd'[s] = fd[s] /\ fd[s] # j.fd /\ asked'[s] = asked[s]
             \/ j.op = "modify" /\ Live(s) /\ fd'[s] = fd[s] /\ fd[s] = j.fd /\ asked'[s] = j.events
             \/ j.op = "attach" /\ s = j.socket /\ fd'[s] = j.fd /\ asked'[s] = j.events,
           \A s \in Sockets : Live(s) =>
             (Live(s)' /\ fd'[s] = fd[s]) \/ (fd[s] = j.fd /\ j.op = "detach"),
           j.op # "detach" => \E s \in Sockets : Live(s)' /\ fd'[s] = j.fd,
           j.op = "attach" => /\ \A s \in Sockets : Live(s) => fd[s] # j.fd
                              /\ Unborn(Pending, j.socket) /\ ~Seen(j.socket),
           \A s \in Sockets : Seen(s)' => Seen(s)
    PROVE  Way'
<1>j. j.op \in Ops /\ j.fd \in Fds
  BY DEF JobSet
<1>p. PICK P \in Seq(JobSet) : P = Pending
  BY PendingJobs
<1>q. PICK Q \in Seq(JobSet) : Q = Append(P, j)
  BY AppendAt
<1>e. PICK e, r : e = epoll /\ r = records
  OBVIOUS
<1>h. /\ \A n \in Fds : Clear(P, n, e)
      /\ \A n \in Fds : (\A s \in Sockets : Live(s) => fd[s] # n) => Released(P, n, e)
      /\ \A s \in Sockets : Live(s) => Standing(P, fd[s], s, e, r, asked[s])
      /\ \A s \in Sockets : Seen(s) => Unborn(P, s)
      /\ Distinct(P)
  BY <1>p, <1>e DEF Way
<1>1. ASSUME NEW n \in Fds PROVE Clear(Q, n, e)
  <2>1. Clear(P, n, e)
    BY <1>h
  <2>2. CASE n # j.fd
    BY <1>q, <2>1, <2>2, AddOther
  <2>3. CASE n = j.fd /\ j.op # "attach"
    <3>1. j.op \in {"detach", "modify"}
      BY <1>j, <2>3 DEF Ops
    <3> QED  BY <1>q, <2>1, <2>3, <3>1, AddOn
  <2>4. CASE n = j.fd /\ j.op = "attach"
    <3>1. Released(P, n, e)
      BY <1>h, <2>4
    <3> QED  BY <1>q, <2>1, <2>4, <3>1, AddOn
  <2> QED  BY <2>2, <2>3, <2>4
<1>2. ASSUME NEW n \in Fds, \A s \in Sockets : Live(s)' => fd'[s] # n
      PROVE  Released(Q, n, e)
  <2>1. CASE n # j.fd
    <3>1. Released(P, n, e)
      BY <1>2, <1>h, <2>1
    <3> QED  BY <1>q, <2>1, <3>1, AddOther
  <2>2. CASE n = j.fd
    <3>1. j.op = "detach"
      BY <1>2, <2>2
    <3> QED  BY <1>q, <2>2, <3>1, AddOn
  <2> QED  BY <2>1, <2>2
<1>3. ASSUME NEW s \in Sockets, Live(s)' PROVE Standing(Q, fd'[s], s, e, r, asked'[s])
  <2>1. PICK n, x, y : n = fd'[s] /\ x = asked[s] /\ y = asked'[s]
    OBVIOUS
  <2>2. CASE Live(s) /\ fd'[s] = fd[s] /\ fd[s] # j.fd /\ asked'[s] = asked[s]
    <3>1. Standing(P, n, s, e, r, x)
      BY <1>h, <2>1, <2>2
    <3>2. Standing(Q, n, s, e, r, x)
      BY <1>q, <2>1, <2>2, <3>1, AddOther
    <3> QED  BY <2>1, <2>2, <3>2
  <2>3. CASE j.op = "modify" /\ Live(s) /\ fd'[s] = fd[s] /\ fd[s] = j.fd /\ asked'[s] = j.events
    <3>1. Standing(P, n, s, e, r, x)
      BY <1>h, <2>1, <2>3
    <3>2. Standing(Q, n, s, e, r, j.events)
      BY <1>q, <2>1, <2>3, <3>1, AddOn
    <3> QED  BY <2>1, <2>3, <3>2
  <2>4. CASE j.op = "attach" /\ s = j.socket /\ fd'[s] = j.fd /\ asked'[s] = j.events
    <3>1. Standing(Q, j.fd, j.socket, e, r, j.events)
      BY <1>q, <2>4, AddOn
    <3> QED  BY <2>4, <3>1
  <2> QED  BY <1>3, <2>2, <2>3, <2>4
<1>4. ASSUME NEW s \in Sockets, Seen(s)' PROVE Unborn(Q, s)
  <2>1. Seen(s) /\ Unborn(P, s)
    BY <1>4, <1>h
  <2>2. j.op = "attach" => j.socket # s
    BY <2>1
  <2> QED  BY <1>q, <2>1, <2>2, AddBirths
<1>5. Distinct(Q)
  BY <1>p, <1>q, <1>h, AddBirths
<1>6. Q = tasks' \o queue'
  <2>1. queue \in Seq(JobSet) /\ tasks \in Seq(JobSet)
    BY DEF FType, Data
  <2>2. tasks \o Append(queue, j) = Append(tasks \o queue, j)
    BY <2>1, Concatenated
  <2> QED  BY <1>p, <1>q, <2>2 DEF Pending
<1> QED  BY <1>e, <1>1, <1>2, <1>3, <1>4, <1>5, <1>6, WayNext

\* ~SockFD: a Socket that the poller thread closes has been registered, so that only the
\* registration itself is left of it.
LEMMA WayOfDetach ==
    ASSUME FType, Owned, RecordsMatchEpoll, Turns, Way, NEW t \in Threads, Detach(t)
    PROVE  Way'
<1>d. /\ pc \in [Threads -> {"out", "detach", "close", "attach"}] /\ Poller \in Threads
      /\ obj \in [Threads -> Sockets \cup {NoSocket}] /\ fd \in [Sockets -> Fds \cup {NoFd}]
      /\ queue \in Seq(JobSet) /\ Requested
  BY DEF FType, Data, Threads
<1>c. Calls
  BY DEF FType
<1>s. PICK s, n : s = obj[t] /\ n = fd[s]
  OBVIOUS
<1>1. s \in Sockets /\ n \in Fds /\ pc[t] = "detach" /\ file[n] = s
  BY <1>c, <1>d, <1>s DEF Detach, Calls, Ending, Owned
<1>j. PICK j \in JobSet : j = Job("detach", n, s, {})
  BY <1>1 DEF Job, JobSet, Ops
<1>k. j.op = "detach" /\ j.fd = n /\ j.socket = s
  BY <1>j DEF Job
<1>2. /\ Do(t, j) /\ UNCHANGED <<fd, asked, tasks, batch, call, obj>>
      /\ pc' = [pc EXCEPT ![t] = "close"]
  BY <1>s, <1>j DEF Detach, loopVars, socketVars, Goto
<1>3. \A u \in Threads : u # t => obj[u] # s \/ pc[u] = "out"
  BY <1>c, <1>1, <1>s DEF Calls
<1>4. ~Live(s)' /\ \A x \in Sockets : x # s => (Live(x)' <=> Live(x))
  BY <1>d, <1>1, <1>2, <1>s DEF Live
<1>5. Live(s)
  BY <1>d, <1>1, <1>3, <1>s, FdsAssumption DEF Live
<1>6. \A x \in Sockets : x # s /\ Live(x) => fd[x] # n
  BY <1>1 DEF Owned, Live
<1>7. CASE t # Poller
  <2>1. queue' = Append(queue, j) /\ UNCHANGED <<epoll, records>>
    BY <1>2, <1>7 DEF Do
  <2>2. pc'[Poller] = pc[Poller]
    BY <1>2, <1>7, <1>d
  <2>3. \A x \in Sockets : Seen(x)' => Seen(x)
    BY <1>2, <2>1, <2>2 DEF Seen
  <2>4. \A x \in Sockets : Live(x)' =>
          Live(x) /\ fd'[x] = fd[x] /\ fd[x] # j.fd /\ asked'[x] = asked[x]
    BY <1>2, <1>4, <1>6, <1>k
  <2>5. \A x \in Sockets : Live(x) => (Live(x)' /\ fd'[x] = fd[x]) \/ (fd[x] = j.fd /\ j.op = "detach")
    BY <1>2, <1>4, <1>k, <1>s
  <2>6. j.op # "attach" /\ tasks' = tasks
    BY <1>2, <1>k
  <2> QED  BY <1>k, <2>1, <2>3, <2>4, <2>5, <2>6, WayAdds
<1>8. CASE t = Poller
  <2>1. Apply(j) /\ queue' = queue
    BY <1>2, <1>8 DEF Do
  <2>p. PICK P \in Seq(JobSet) : P = Pending
    BY PendingJobs
  <2>e. PICK e, f, r, w : e = epoll /\ f = epoll' /\ r = records /\ w = records'
    OBVIOUS
  <2>h. /\ \A m \in Fds : Clear(P, m, e)
        /\ \A m \in Fds : (\A x \in Sockets : Live(x) => fd[x] # m) => Released(P, m, e)
        /\ \A x \in Sockets : Live(x) => Standing(P, fd[x], x, e, r, asked[x])
        /\ \A x \in Sockets : Seen(x) => Unborn(P, x)
        /\ Distinct(P)
    BY <2>p, <2>e DEF Way
  <2>a. \A m : m # n => /\ m \in DOMAIN f <=> m \in DOMAIN e
                        /\ m \in DOMAIN w <=> m \in DOMAIN r
                        /\ m \in DOMAIN r => w[m] = r[m]
                        /\ m \in DOMAIN e => f[m] = e[m]
    <3>1. \A m : m # j.fd => /\ m \in DOMAIN epoll' <=> m \in DOMAIN epoll
                             /\ m \in DOMAIN records' <=> m \in DOMAIN records
                             /\ m \in DOMAIN epoll => epoll'[m] = epoll[m]
                             /\ m \in DOMAIN records => records'[m] = records[m]
      BY <1>d, <2>1, Applied
    <3> QED  BY <1>k, <2>e, <3>1
  <2>b. n \notin DOMAIN f /\ n \notin DOMAIN w
    <3>1. j.fd \notin DOMAIN epoll' /\ j.fd \notin DOMAIN records'
      BY <1>d, <1>k, <2>1, Applied
    <3> QED  BY <1>k, <2>e, <3>1
  <2>2. \A k \in 1..Len(P) : P[k].fd = n => P[k].op = "modify"
    <3>1. Unborn(P, s) /\ Standing(P, n, s, e, r, asked[s])
      BY <1>1, <1>5, <1>8, <1>s, <2>h DEF Seen
    <3>2. Made(P, n, s, e, r)
      BY <3>1 DEF Standing, Waits, Unborn, On
    <3> QED  BY <3>2 DEF Made, OnlyModifies
  <2>3. Released(P, n, f)
    BY <2>2, <2>b DEF Released, On
  <2>4. ASSUME NEW m \in Fds PROVE Clear(P, m, f)
    BY <2>h, <2>a, <2>b, SamePending
  <2>5. ASSUME NEW m \in Fds, \A x \in Sockets : Live(x)' => fd'[x] # m
        PROVE  Released(P, m, f)
    <3>1. CASE m # n
      <4>1. Released(P, m, e)
        BY <1>2, <1>4, <1>s, <2>5, <2>h, <3>1
      <4> QED  BY <2>a, <3>1, <4>1, SamePending
    <3> QED  BY <2>3, <3>1
  <2>6. ASSUME NEW x \in Sockets, Live(x)' PROVE Standing(P, fd'[x], x, f, w, asked'[x])
    <3>1. PICK m, y : m = fd[x] /\ y = asked[x]
      OBVIOUS
    <3>2. x # s /\ Live(x) /\ m # n /\ fd'[x] = m /\ asked'[x] = y
      BY <1>2, <1>4, <1>6, <2>6, <3>1
    <3>3. Standing(P, m, x, e, r, y)
      BY <2>h, <3>1, <3>2
    <3>4. m \in DOMAIN e => m \in DOMAIN f /\ w[m] = r[m]
      <4>1. m \in DOMAIN e => m \in DOMAIN r
        BY <2>e DEF RecordsMatchEpoll
      <4> QED  BY <2>a, <3>2, <4>1
    <3>5. Standing(P, m, x, f, w, y)
      BY <3>3, <3>4, SamePending
    <3> QED  BY <3>2, <3>5
  <2>7. ASSUME NEW x \in Sockets, Seen(x)' PROVE Unborn(P, x)
    <3>1. pc'[Poller] = "close"
      BY <1>2, <1>8, <1>d
    <3>2. \A m \in DOMAIN w : m \in DOMAIN r /\ w[m] = r[m]
      BY <2>a, <2>b
    <3>3. Seen(x)
      BY <1>2, <2>7, <2>e, <3>1, <3>2 DEF Seen
    <3> QED  BY <2>h, <3>3
  <2>8. P = tasks' \o queue'
    BY <1>2, <2>1, <2>p DEF Pending
  <2> QED  BY <2>e, <2>h, <2>4, <2>5, <2>6, <2>7, <2>8, WayNext
<1> QED  BY <1>7, <1>8

\* ~SockNum: its Socket has asked to be forgotten already.
LEMMA WayOfClose ==
    ASSUME FType, Owned, RecordsMatchEpoll, Way, NEW t \in Threads, Close(t)
    PROVE  Way'
<1>d. /\ pc \in [Threads -> {"out", "detach", "close", "attach"}] /\ Poller \in Threads
      /\ obj \in [Threads -> Sockets \cup {NoSocket}] /\ fd \in [Sockets -> Fds \cup {NoFd}]
  BY DEF FType, Data, Threads
<1>c. Calls
  BY DEF FType
<1>s. PICK s, n : s = obj[t] /\ n = fd[s]
  OBVIOUS
<1>1. s \in Sockets /\ n \in Fds /\ pc[t] = "close" /\ file[n] = s
  BY <1>c, <1>d, <1>s DEF Close, Calls, Ending, Owned
<1>2. /\ epoll' = Without(epoll, n) /\ fd' = [fd EXCEPT ![s] = NoFd]
      /\ UNCHANGED <<records, queue, tasks, batch, call, asked, obj>>
      /\ pc' = [pc EXCEPT ![t] = IF new[t] = NoFd THEN "out" ELSE "attach"]
  BY <1>s DEF Close, loopVars, Goto
<1>3. \A m : /\ m \in DOMAIN epoll' => m \in DOMAIN epoll
             /\ m # n /\ m \in DOMAIN epoll => m \in DOMAIN epoll'
  BY <1>2 DEF Without, Restrict
<1>4. ~Live(s) /\ ~Live(s)'
  BY <1>1, <1>2, <1>d, <1>s DEF Live
<1>5. \A x \in Sockets : x # s => (Live(x)' <=> Live(x)) /\ fd'[x] = fd[x]
  <2>1. ASSUME NEW x \in Sockets, x # s PROVE fd'[x] = fd[x]
    BY <1>2, <1>d, <2>1
  <2>2. ASSUME NEW u \in Threads, u # t PROVE pc'[u] = pc[u] /\ obj'[u] = obj[u]
    BY <1>2, <1>d, <2>2
  <2> QED  BY <1>2, <1>s, <2>1, <2>2, <1>d DEF Live
<1>6. \A x \in Sockets : Live(x) => x # s /\ fd[x] # n
  BY <1>1, <1>4 DEF Owned, Live
<1>7. \A x \in Sockets : Seen(x)' => Seen(x)
  <2>1. pc'[Poller] = "detach" => pc[Poller] = "detach"
    BY <1>2, <1>d
  <2> QED  BY <1>2, <2>1 DEF Seen
<1>8. tasks' \o queue' = Pending
  BY <1>2 DEF Pending
<1>9. \A x \in Sockets : Live(x)' <=> Live(x)
  BY <1>4, <1>5
<1>10. \A x \in Sockets : Live(x) =>
         /\ fd'[x] = fd[x] /\ asked'[x] = asked[x]
         /\ fd[x] \in DOMAIN epoll => fd[x] \in DOMAIN epoll' /\ records'[fd[x]] = records[fd[x]]
  BY <1>2, <1>3, <1>5, <1>6
<1> QED  BY <1>3, <1>7, <1>8, <1>9, <1>10, WaySteady

\* bindUdpSocket: the number is one that nobody has, so that what is registered under it
\* is undone before this request is run.
LEMMA WayOfAttach ==
    ASSUME FType, Owned, Numbers, Turns, Way, NEW t \in Threads, Attach(t)
    PROVE  Way'
<1>d. /\ pc \in [Threads -> {"out", "detach", "close", "attach"}] /\ Poller \in Threads
      /\ obj \in [Threads -> Sockets \cup {NoSocket}] /\ fd \in [Sockets -> Fds \cup {NoFd}]
      /\ asked \in [Sockets -> SUBSET Events] /\ new \in [Threads -> Fds \cup {NoFd}]
      /\ queue \in Seq(JobSet) /\ tasks \in Seq(JobSet)
      /\ IF ppc = "call" THEN call \in CallSet ELSE call = NoRecord
  BY DEF FType, Data, Threads
<1>c. Calls
  BY DEF FType
<1>s. PICK s, n : s = obj[t] /\ n = new[t]
  OBVIOUS
<1>1. /\ s \in Sockets /\ n \in Fds /\ pc[t] = "attach" /\ t # Poller
      /\ file[n] = s /\ fd[s] = NoFd
  BY <1>c, <1>d, <1>s DEF Attach, Calls, Owned, Turns
<1>j. PICK j \in JobSet : j = Job("attach", n, s, Events)
  BY <1>1 DEF Job, JobSet, Ops
<1>k. j.op = "attach" /\ j.fd = n /\ j.socket = s /\ j.events = Events
  BY <1>j DEF Job
<1>2. /\ Do(t, j) /\ UNCHANGED <<tasks, batch, call, obj>>
      /\ fd' = [fd EXCEPT ![s] = n] /\ asked' = [asked EXCEPT ![s] = Events]
      /\ pc' = [pc EXCEPT ![t] = "out"]
  BY <1>s, <1>j DEF Attach, AttachEvent, loopVars, Goto
<1>3. queue' = Append(queue, j) /\ UNCHANGED <<epoll, records>>
  BY <1>1, <1>2 DEF Do
<1>4. \A u \in Threads : u # t => obj[u] # s \/ pc[u] = "out"
  BY <1>c, <1>1, <1>s DEF Calls
<1>5. fd'[s] = n /\ asked'[s] = Events
  BY <1>1, <1>2, <1>d
<1>6. Live(s)' /\ ~Live(s)
  <2>1. \A u \in Threads : pc'[u] = "close" => pc[u] = "close" /\ u # t /\ obj'[u] = obj[u]
    BY <1>1, <1>2, <1>d
  <2>2. n # NoFd
    BY <1>1, FdsAssumption
  <2> QED  BY <1>1, <1>4, <1>5, <2>1, <2>2 DEF Live
<1>7. ASSUME NEW x \in Sockets, x # s
      PROVE  (Live(x)' <=> Live(x)) /\ fd'[x] = fd[x] /\ asked'[x] = asked[x]
  <2>1. \A u \in Threads : (pc'[u] = "close") <=> (pc[u] = "close")
    BY <1>1, <1>2, <1>d
  <2>2. fd'[x] = fd[x] /\ asked'[x] = asked[x]
    BY <1>2, <1>7, <1>d
  <2> QED  BY <1>2, <2>1, <2>2 DEF Live
<1>8. \A x \in Sockets : Live(x) => fd[x] # n
  BY <1>1 DEF Owned, Live
<1>9. ~Seen(s)
  <2>1. ASSUME NEW m PROVE ~Spent(m, s)
    BY <1>1, <1>s DEF Spent
  <2>2. \A m \in DOMAIN records : records[m].socket # s
    BY <2>1 DEF Numbers
  <2>3. \A r \in batch : r.socket # s
    BY <2>1 DEF Numbers
  <2>4. call.socket # s
    <3>1. CASE ppc = "call"
      <4>1. call.fd \in Fds /\ fd[call.socket] = call.fd
        BY <1>d, <3>1 DEF CallSet, Numbers
      <4> QED  BY <1>1, <4>1, FdsAssumption
    <3>2. CASE ppc # "call"
      BY <1>1, <1>d, <3>2, FdsAssumption DEF NoRecord
    <3> QED  BY <3>1, <3>2
  <2>5. ~(pc[Poller] = "detach" /\ obj[Poller] = s)
    BY <1>1, <1>4, <1>d
  <2> QED  BY <2>2, <2>3, <2>4, <2>5 DEF Seen
<1>10. Unborn(Pending, s)
  <2>1. \A q \in {queue, tasks} : \A i \in 1..Len(q) : q[i].socket # s
    BY <1>1, <1>s DEF Numbers, Spent
  <2>2. ASSUME NEW i \in 1..Len(tasks \o queue) PROVE (tasks \o queue)[i].socket # s
    <3>1. PICK a, b \in Seq(JobSet) : a = tasks /\ b = queue
      BY <1>d
    <3>2. i \in 1..Len(a \o b)
      BY <3>1
    <3>3. \/ \E k \in 1..Len(a) : (a \o b)[i] = a[k]
          \/ \E k \in 1..Len(b) : (a \o b)[i] = b[k]
      BY <3>1, <3>2, ConcatElement
    <3> QED  BY <2>1, <3>1, <3>3
  <2> QED  BY <2>2 DEF Unborn, Pending
<1>11. \A x \in Sockets : Seen(x)' => Seen(x)
  <2>1. pc'[Poller] = pc[Poller]
    BY <1>1, <1>2, <1>d
  <2> QED  BY <1>2, <1>3, <2>1 DEF Seen
<1>12. \A x \in Sockets : Live(x)' =>
         \/ Live(x) /\ fd'[x] = fd[x] /\ fd[x] # j.fd /\ asked'[x] = asked[x]
         \/ j.op = "attach" /\ x = j.socket /\ fd'[x] = j.fd /\ asked'[x] = j.events
  BY <1>5, <1>7, <1>8, <1>k
<1>13. \A x \in Sockets : Live(x) => Live(x)' /\ fd'[x] = fd[x]
  BY <1>6, <1>7
<1>14. \E x \in Sockets : Live(x)' /\ fd'[x] = j.fd
  BY <1>1, <1>5, <1>6, <1>k
<1>15. /\ \A x \in Sockets : Live(x) => fd[x] # j.fd
       /\ Unborn(Pending, j.socket) /\ ~Seen(j.socket)
  BY <1>8, <1>9, <1>10, <1>k
<1> QED  BY <1>2, <1>3, <1>11, <1>12, <1>13, <1>14, <1>15, WayAdds

\* A request for other events keeps the way.
LEMMA WayOfModify ==
    ASSUME ~PollerUses, FType, Owned, Way,
           NEW t \in Threads, NEW s \in Sockets, NEW e \in Masks, Modify(t, s, e)
    PROVE  Way'
<1>d. /\ fd \in [Sockets -> Fds \cup {NoFd}] /\ asked \in [Sockets -> SUBSET Events]
  BY DEF FType, Data
<1>s. PICK n : n = fd[s]
  OBVIOUS
<1>1. /\ n \in Fds /\ t # Poller /\ file[n] = s /\ fd[s] # NoFd
      /\ \A u \in Threads : pc[u] # "out" => obj[u] # s
  BY <1>d, <1>s DEF Modify, MayUse, Owned
<1>j. PICK j \in JobSet : j = Job("modify", n, s, e)
  BY <1>1, MasksAssumption DEF Job, JobSet, Ops
<1>k. j.op = "modify" /\ j.fd = n /\ j.socket = s /\ j.events = e
  BY <1>j DEF Job
<1>2. /\ Do(t, j) /\ UNCHANGED <<tasks, batch, call, fd, pc, obj>>
      /\ asked' = [asked EXCEPT ![s] = e]
  BY <1>s, <1>j DEF Modify, loopVars, threadVars
<1>3. queue' = Append(queue, j) /\ UNCHANGED <<epoll, records>>
  BY <1>1, <1>2 DEF Do
<1>4. \A x \in Sockets : Live(x)' <=> Live(x)
  BY <1>2 DEF Live
<1>5. Live(s)
  BY <1>1 DEF Live
<1>6. \A x \in Sockets : x # s => asked'[x] = asked[x] /\ (Live(x) => fd[x] # n)
  BY <1>1, <1>2, <1>d DEF Owned, Live
<1>7. asked'[s] = e
  BY <1>2, <1>d
<1>8. \A x \in Sockets : Seen(x)' => Seen(x)
  BY <1>2, <1>3 DEF Seen
<1>9. \A x \in Sockets : Live(x)' =>
        \/ Live(x) /\ fd'[x] = fd[x] /\ fd[x] # j.fd /\ asked'[x] = asked[x]
        \/ j.op = "modify" /\ Live(x) /\ fd'[x] = fd[x] /\ fd[x] = j.fd /\ asked'[x] = j.events
  BY <1>2, <1>4, <1>6, <1>7, <1>k, <1>s
<1>10. \A x \in Sockets : Live(x) => Live(x)' /\ fd'[x] = fd[x]
  BY <1>2, <1>4
<1>11. \E x \in Sockets : Live(x)' /\ fd'[x] = j.fd
  BY <1>2, <1>4, <1>5, <1>k, <1>s
<1> QED  BY <1>2, <1>3, <1>8, <1>9, <1>10, <1>11, <1>k, WayAdds

\* onPipeEvent runs the next job: a registration that is to stay finds its number open
\* and not registered.
LEMMA WayOfRunTask ==
    ASSUME FType, Owned, RecordsMatchEpoll, Way, RunTask
    PROVE  Way'
<1>p. PICK P \in Seq(JobSet) : P = Pending
  BY PendingJobs
<1>d. queue \in Seq(JobSet) /\ tasks \in Seq(JobSet) /\ Requested
  BY DEF FType, Data
<1>1. /\ tasks # <<>> /\ Apply(Head(tasks)) /\ tasks' = Tail(tasks)
      /\ UNCHANGED <<queue, batch, call, fd, asked, pc, obj>>
  BY DEF RunTask, socketVars, threadVars
<1>2. P # <<>> /\ Head(P) = Head(tasks) /\ tasks' \o queue' = Tail(P)
  <2>1. PICK a, b \in Seq(JobSet) : a = tasks /\ b = queue
    BY <1>d
  <2>2. a # <<>> /\ Head(a) \in JobSet
    BY <1>1, <2>1
  <2>3. a \o b # <<>> /\ Head(a \o b) = Head(a) /\ Tail(a) \o b = Tail(a \o b)
    BY <2>1, <2>2, Concatenated
  <2> QED  BY <1>1, <1>p, <2>1, <2>3 DEF Pending
<1>3. P[1] = Head(P) /\ P[1] \in JobSet /\ 1 \in 1..Len(P)
  BY <1>2
<1>j. PICK j \in JobSet : j = P[1]
  BY <1>3
<1>k. j.op \in Ops /\ j.fd \in Fds /\ j.socket \in Sockets /\ Apply(j)
  BY <1>1, <1>2, <1>3, <1>j DEF JobSet
<1>q. PICK Q \in Seq(JobSet) : Q = Tail(P)
  BY <1>2, TailAt
<1>e. PICK e, f, r, w : e = epoll /\ f = epoll' /\ r = records /\ w = records'
  OBVIOUS
<1>h. /\ \A m \in Fds : Clear(P, m, e)
      /\ \A m \in Fds : (\A x \in Sockets : Live(x) => fd[x] # m) => Released(P, m, e)
      /\ \A x \in Sockets : Live(x) => Standing(P, fd[x], x, e, r, asked[x])
      /\ \A x \in Sockets : Seen(x) => Unborn(P, x)
      /\ Distinct(P)
  BY <1>p, <1>e DEF Way
<1>a. \A m : m # j.fd => /\ m \in DOMAIN f <=> m \in DOMAIN e
                         /\ m \in DOMAIN w <=> m \in DOMAIN r
                         /\ m \in DOMAIN r => w[m] = r[m]
  <2>1. \A m : m # j.fd => /\ m \in DOMAIN epoll' <=> m \in DOMAIN epoll
                           /\ m \in DOMAIN records' <=> m \in DOMAIN records
                           /\ m \in DOMAIN epoll => epoll'[m] = epoll[m]
                           /\ m \in DOMAIN records => records'[m] = records[m]
    BY <1>d, <1>k, Applied
  <2> QED  BY <1>e, <2>1
<1>b. j.op = "attach" =>
        IF file[j.fd] = NoSocket \/ j.fd \in DOMAIN e THEN f = e /\ w = r
        ELSE /\ j.fd \in DOMAIN f /\ j.fd \in DOMAIN w
             /\ w[j.fd] = [socket |-> j.socket, events |-> j.events]
  <2>1. j.op = "attach" =>
          IF file[j.fd] = NoSocket \/ j.fd \in DOMAIN epoll
          THEN UNCHANGED <<epoll, records>>
          ELSE /\ j.fd \in DOMAIN epoll' /\ j.fd \in DOMAIN records'
               /\ epoll'[j.fd] = ToEpoll(j.events)
               /\ records'[j.fd] = [socket |-> j.socket, events |-> j.events]
    BY <1>d, <1>k, Applied
  <2> QED  BY <1>e, <2>1
<1>c. /\ j.op = "detach" => j.fd \notin DOMAIN f /\ j.fd \notin DOMAIN w
      /\ j.op = "modify" =>
           /\ j.fd \in DOMAIN f <=> j.fd \in DOMAIN e
           /\ j.fd \in DOMAIN w <=> j.fd \in DOMAIN r
           /\ j.fd \in DOMAIN r => w[j.fd] = [socket |-> r[j.fd].socket, events |-> j.events]
  <2>1. j.op = "detach" => j.fd \notin DOMAIN epoll' /\ j.fd \notin DOMAIN records'
    BY <1>d, <1>k, Applied
  <2>2. j.op = "modify" =>
          /\ j.fd \in DOMAIN epoll' <=> j.fd \in DOMAIN epoll
          /\ j.fd \in DOMAIN records' <=> j.fd \in DOMAIN records
          /\ j.fd \in DOMAIN epoll => epoll'[j.fd] = ToEpoll(j.events)
          /\ j.fd \in DOMAIN records =>
               records'[j.fd] = [socket |-> records[j.fd].socket, events |-> j.events]
    BY <1>d, <1>k, Applied
  <2> QED  BY <1>e, <2>1, <2>2
<1>m. \A n : n \in DOMAIN e => n \in DOMAIN r
  BY <1>e DEF RecordsMatchEpoll
<1>o. ASSUME NEW n
      PROVE  \/ On(P, 1, n, "attach")
             \/ On(P, 1, n, "detach") /\ n \notin DOMAIN f
             \/ ~On(P, 1, n, "detach") /\ (n \in DOMAIN f => n \in DOMAIN e)
  <2>1. CASE n # j.fd
    BY <1>a, <1>j, <2>1 DEF On
  <2>2. CASE n = j.fd
    BY <1>c, <1>j, <1>k, <2>2 DEF On, Ops
  <2> QED  BY <2>1, <2>2
<1>l. \A x \in Sockets : Live(x)' <=> Live(x)
  BY <1>1 DEF Live
<1>4. ASSUME NEW n \in Fds PROVE Clear(Q, n, f)
  <2>1. Clear(P, n, e)
    BY <1>h
  <2> QED  BY <1>2, <1>o, <1>q, <2>1, TakeClear
<1>5. ASSUME NEW n \in Fds, \A x \in Sockets : Live(x)' => fd'[x] # n
      PROVE  Released(Q, n, f)
  <2>1. Released(P, n, e)
    BY <1>1, <1>5, <1>h, <1>l
  <2> QED  BY <1>2, <1>o, <1>q, <2>1, TakeReleased
<1>6. ASSUME NEW s \in Sockets, Live(s)' PROVE Standing(Q, fd'[s], s, f, w, asked'[s])
  <2>1. PICK n, x : n = fd[s] /\ x = asked[s]
    OBVIOUS
  <2>2. fd'[s] = n /\ asked'[s] = x /\ Live(s)
    BY <1>1, <1>6, <1>l, <2>1
  <2>3. Standing(P, n, s, e, r, x)
    BY <1>h, <2>1, <2>2
  <2>4. CASE j.fd # n
    <3>1. n \in DOMAIN e => n \in DOMAIN f /\ w[n] = r[n]
      BY <1>a, <1>m, <2>4
    <3>2. P[1].fd # n
      BY <1>j, <2>4
    <3> QED  BY <1>2, <1>q, <2>2, <2>3, <3>1, <3>2, TakeStanding
  <2>5. CASE j.fd = n /\ j.op = "detach"
    <3>1. On(P, 1, n, "detach")
      BY <1>j, <2>5 DEF On
    <3> QED  BY <1>2, <1>q, <2>2, <2>3, <3>1, TakeStanding
  <2>6. CASE j.fd = n /\ j.op = "modify"
    <3>1. On(P, 1, n, "modify")
      BY <1>j, <2>6 DEF On
    <3>2. n \in DOMAIN e =>
            n \in DOMAIN f /\ w[n].socket = r[n].socket /\ w[n].events = P[1].events
      BY <1>c, <1>j, <1>m, <2>6
    <3> QED  BY <1>2, <1>q, <2>2, <2>3, <3>1, <3>2, TakeStanding
  <2>7. CASE j.fd = n /\ j.op = "attach"
    <3>1. On(P, 1, n, "attach")
      BY <1>j, <2>7 DEF On
    <3>2. n \notin DOMAIN e
      <4>1. Clear(P, n, e)
        BY <1>h, <1>k, <2>7
      <4>2. \A k \in 1..(1 - 1) : FALSE
        OBVIOUS
      <4> QED  BY <1>3, <3>1, <4>1, <4>2 DEF Clear
    <3>3. file[n] # NoSocket
      BY <2>1, <2>2, FdsAssumption DEF Owned, Live
    <3>4. n \in DOMAIN f /\ w[n].socket = P[1].socket /\ w[n].events = P[1].events
      BY <1>b, <1>j, <2>7, <3>2, <3>3
    <3> QED  BY <1>2, <1>q, <2>2, <2>3, <3>1, <3>4, TakeStanding
  <2> QED  BY <1>k, <2>4, <2>5, <2>6, <2>7 DEF Ops
<1>7. ASSUME NEW s \in Sockets, Seen(s)' PROVE Unborn(Q, s)
  <2>1. Seen(s) \/ (j.op = "attach" /\ s = j.socket)
    <3>1. ASSUME NEW n \in DOMAIN w, w[n].socket = s
          PROVE  Seen(s) \/ (j.op = "attach" /\ s = j.socket)
      <4>1. CASE n # j.fd
        <5>1. n \in DOMAIN r /\ r[n].socket = s
          BY <1>a, <3>1, <4>1
        <5> QED  BY <1>e, <5>1 DEF Seen
      <4>2. CASE n = j.fd /\ j.op = "attach"
        <5>1. (w = r) \/ w[n].socket = j.socket
          BY <1>b, <4>2
        <5> QED  BY <1>e, <3>1, <4>2, <5>1 DEF Seen
      <4>3. CASE n = j.fd /\ j.op = "modify"
        <5>1. n \in DOMAIN r /\ r[n].socket = s
          BY <1>c, <3>1, <4>3
        <5> QED  BY <1>e, <5>1 DEF Seen
      <4>4. CASE n = j.fd /\ j.op = "detach"
        BY <1>c, <3>1, <4>4
      <4> QED  BY <1>k, <4>1, <4>2, <4>3, <4>4 DEF Ops
    <3>2. (\E n \in DOMAIN w : w[n].socket = s) \/ Seen(s)
      BY <1>1, <1>7, <1>e DEF Seen
    <3> QED  BY <3>1, <3>2
  <2> QED  BY <1>2, <1>h, <1>j, <1>q, <2>1, TakeBirths
<1>8. Distinct(Q)
  BY <1>2, <1>h, <1>q, TakeBirths
<1>9. Q = tasks' \o queue'
  BY <1>2, <1>q
<1> QED  BY <1>e, <1>4, <1>5, <1>6, <1>7, <1>8, <1>9, WayNext

\* Each step keeps what is known of the requests.
LEMMA RequestsStep ==
    BoundOnce /\ ~PollerUses /\ FType /\ Owned /\ Numbers /\ RecordsMatchEpoll /\ Requests
    /\ [Next]_vars => Requests'
<1> SUFFICES ASSUME BoundOnce, ~PollerUses, FType, Owned, Numbers, RecordsMatchEpoll, Requests,
                    [Next]_vars
             PROVE  Requests'
  OBVIOUS
<1>r. Turns /\ Way
  BY DEF Requests
<1>t. Turns'
  BY <1>r, TurnsStep
<1>1. ASSUME NEW t \in Threads, NEW s \in Sockets, Bind(t, s) PROVE Way'
  <2>1. binds[s] = 0
    BY <1>1, MasksAssumption DEF Bind, BoundOnce, FType, Data
  <2>2. fd[s] = NoFd
    BY <2>1 DEF Owned
  <2> QED  BY <1>1, <1>r, <2>2, WayOfQuietSteps
<1>2. ASSUME NEW t \in Threads, NEW s \in Sockets, Drop(t, s) PROVE Way'
  BY <1>2, <1>r, WayOfQuietSteps
<1>3. ASSUME NEW t \in Threads, InCall(t) PROVE Way'
  BY <1>3, <1>r, WayOfDetach, WayOfClose, WayOfAttach DEF InCall
<1>4. ASSUME NEW t \in Threads, NEW s \in Sockets, NEW e \in Masks, Modify(t, s, e) PROVE Way'
  BY <1>4, <1>r, WayOfModify
<1>5. ASSUME RunTask PROVE Way'
  BY <1>5, <1>r, WayOfRunTask
<1>6. ASSUME \/ Wait \/ TakeTasks \/ TasksEnd \/ CallEnds \/ CallReturned \/ BatchEnds
             \/ \E r \in batch : Call(r)
             \/ UNCHANGED vars
      PROVE  Way'
  BY <1>6, <1>r, WayOfQuietSteps
<1>7. Way'
  BY <1>1, <1>2, <1>3, <1>4, <1>5, <1>6 DEF Next, Loop, Idle
<1> QED  BY <1>t, <1>7 DEF Requests

\* It holds at first.
LEMMA RequestsInit == Init => Requests
<1> SUFFICES ASSUME Init PROVE Requests
  OBVIOUS
<1>1. DOMAIN <<>> = {} /\ Len(<<>>) = 0 /\ \A i : i \notin 1..0
  OBVIOUS
<1>2. <<>> \o <<>> = <<>>
  <2>1. <<>> \in Seq({})
    OBVIOUS
  <2> QED  BY <2>1, ConcatEmptySeq
<1>3. Pending = <<>> /\ epoll = <<>> /\ records = <<>>
  BY <1>2 DEF Init, Pending
<1>4. Turns
  BY DEF Init, Turns, Threads
<1>5. \A s \in Sockets : ~Live(s)
  BY DEF Init, Live
<1>6. Way
  BY <1>1, <1>3, <1>5 DEF Way, Clear, Released, Unborn, Distinct
<1> QED  BY <1>4, <1>6 DEF Requests

\* It always holds, under both conditions.
LEMMA RequestsKept ==
    BoundOnce /\ ~PollerUses /\ Spec => [](FType /\ Owned /\ Numbers /\ Requests)
<1>1. Init => Requests
  BY RequestsInit
<1>2. BoundOnce /\ ~PollerUses /\ FType /\ Owned /\ Numbers /\ RecordsMatchEpoll /\ Requests
      /\ [Next]_vars => Requests'
  BY RequestsStep
<1> QED
  <2>1. CASE BoundOnce /\ ~PollerUses
    BY <1>1, <1>2, <2>1, OnceKept, EpollAgrees, PTL DEF Spec
  <2>2. CASE ~(BoundOnce /\ ~PollerUses)
    BY <2>2
  <2> QED  BY <2>1, <2>2

\* When no Socket is bound a second time and none is bound or dropped in a callback, a
\* Socket whose requests are through is registered, for itself and for the events last
\* asked for, although its number may have been that of a Socket whose requests were
\* still on their way (EventPoller.h:82-87).
THEOREM NobodyDeaf == BoundOnce /\ ~PollerUses /\ Spec => []NoDeafSocket
<1>1. FType /\ Owned /\ Numbers /\ Requests /\ RecordsMatchEpoll => NoDeafSocket
  <2> SUFFICES ASSUME FType, Owned, Requests, RecordsMatchEpoll,
                      NEW s \in Sockets, Settled(s)
               PROVE  /\ fd[s] \in DOMAIN epoll \cap DOMAIN records
                      /\ records[fd[s]] = [socket |-> s, events |-> asked[s]]
    BY DEF NoDeafSocket
  <2>d. queue \in Seq(JobSet) /\ tasks \in Seq(JobSet) /\ Requested
    BY DEF FType, Data
  <2>p. PICK P \in Seq(JobSet) : P = Pending
    BY PendingJobs
  <2>n. PICK n, e, r, x : n = fd[s] /\ e = epoll /\ r = records /\ x = asked[s]
    OBVIOUS
  <2>1. Live(s)
    BY DEF Settled, Live
  <2>2. Standing(P, n, s, e, r, x)
    BY <2>1, <2>n, <2>p DEF Requests, Way
  <2>3. ASSUME NEW i \in 1..Len(P) PROVE P[i].fd # n
    <3>1. PICK a, b \in Seq(JobSet) : a = tasks /\ b = queue
      BY <2>d
    <3>2. P = a \o b /\ i \in 1..Len(a \o b)
      BY <2>p, <3>1 DEF Pending
    <3>3. \/ \E k \in 1..Len(a) : (a \o b)[i] = a[k]
          \/ \E k \in 1..Len(b) : (a \o b)[i] = b[k]
      BY <3>1, <3>2, ConcatElement
    <3>4. \A q \in {queue, tasks} : \A k \in 1..Len(q) : q[k].fd # n
      BY <2>n DEF Settled
    <3> QED  BY <3>1, <3>2, <3>3, <3>4
  <2>4. Made(P, n, s, e, r) /\ r[n].events = x
    BY <2>2, <2>3 DEF Standing, Waits, On
  <2>5. n \in DOMAIN e /\ n \in DOMAIN r /\ r[n].socket = s
    BY <2>4, <2>n DEF Made, RecordsMatchEpoll
  <2>6. r[n] \in [socket : Sockets, events : SUBSET Events]
    BY <2>5, <2>d, <2>n DEF Requested, Record
  <2>7. r[n] = [socket |-> s, events |-> x]
    BY <2>4, <2>5, <2>6
  <2> QED  BY <2>5, <2>7, <2>n
<1> QED  BY <1>1, RequestsKept, EpollAgrees, PTL
=============================================================================
