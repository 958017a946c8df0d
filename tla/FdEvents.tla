------------------------------ MODULE FdEvents ------------------------------
(***************************************************************************)
(* The descriptors of avc::util::EventPoller (poller/EventPoller.cc) under *)
(* the sockets that use them (network/Socket.h, Socket.cc): attachEvent,   *)
(* detachEvent and modifyEvent run at once on the poller thread and are    *)
(* posted to it by every other thread; runLoop copies the records that are *)
(* signalled and then calls them one by one.                               *)
(*                                                                         *)
(* The kernel's part is external: the table of descriptors, whose numbers  *)
(* it gives out again, and epoll, which forgets a descriptor that is       *)
(* closed.  A posted job and its byte in the pipe are one step: that the   *)
(* loop finds the job is what EventPoller.tla shows.  The poller has its   *)
(* thread, and a Socket is used by one thread at a time.                   *)
(***************************************************************************)
EXTENDS Integers, Sequences, Functions

CONSTANTS Sockets,      \* Socket objects
          NoSocket,
          Fds,          \* numbers of descriptors
          NoFd,
          Clients,      \* threads that bind, modify and drop sockets
          Poller,       \* the poller thread, which may do so in a callback ...
          PollerUses,   \* ... if this is TRUE
          MaxBinds,     \* bound of the model: bindUdpSocket calls for one Socket
          Masks         \* events that modifyEvent is called with

Events == {"read", "write", "error"}

ASSUME ThreadsAssumption == Poller \notin Clients /\ PollerUses \in BOOLEAN
ASSUME FdsAssumption == NoFd \notin Fds /\ NoSocket \notin Sockets
ASSUME MasksAssumption == Masks \subseteq SUBSET Events \ {{}} /\ MaxBinds \in Nat

Threads == Clients \cup {Poller}

VARIABLES
    file,               \* kernel: the Socket that has opened each descriptor
    epoll,              \* kernel: the events each registered descriptor waits for
    records,            \* event_records_: the Socket and the events_ of each
    queue,              \* tasks_
    ppc,                \* where the loop is: "wait", "batch", "tasks", "call"
    tasks,              \* the jobs onPipeEvent has taken
    batch,              \* signalledEventRecords still to be called
    piped,              \* the pipe is one of them
    call,               \* the record whose callback holds its Socket
    held,               \* sockets their user has a reference to
    fd,                 \* sock_fd_ of each Socket
    asked,              \* history: the events last asked for
    binds,              \* history: bindUdpSocket calls
    pc,                 \* where each thread is in a call of Socket
    obj,                \* its Socket
    new                 \* the descriptor bindUdpSocket has opened, or NoFd

kernel     == <<file, epoll>>
loopVars   == <<ppc, tasks, batch, piped, call>>
socketVars == <<held, fd, asked, binds>>
threadVars == <<pc, obj, new>>
vars == <<kernel, records, queue, loopVars, socketVars, threadVars>>

NoRecord == [fd |-> NoFd, socket |-> NoSocket, event |-> "none"]

Init ==
    /\ file = [n \in Fds |-> NoSocket] /\ epoll = <<>> /\ records = <<>>
    /\ queue = <<>> /\ tasks = <<>> /\ batch = {} /\ piped = FALSE
    /\ ppc = "wait" /\ call = NoRecord
    /\ held = Sockets /\ fd = [s \in Sockets |-> NoFd]
    /\ asked = [s \in Sockets |-> {}] /\ binds = [s \in Sockets |-> 0]
    /\ pc = [t \in Threads |-> "out"] /\ obj = [t \in Threads |-> NoSocket]
    /\ new = [t \in Threads |-> NoFd]

\* TO_EPOLL_EVENT and TO_POLLER_EVENT are chains of a ? b : 0 | c ? d : 0 | ...
\* without parentheses: the first event of the chain that is set is all they give.
FirstOf(e) == IF "read" \in e THEN {"read"}
              ELSE IF "write" \in e THEN {"write"} ELSE e
ToEpoll(events) == FirstOf(events)
Signalled(events) == CHOOSE e \in FirstOf(events) : TRUE

With(f, x, v) == [y \in DOMAIN f \cup {x} |-> IF y = x THEN v ELSE f[y]]
Without(f, x) == Restrict(f, DOMAIN f \ {x})

-----------------------------------------------------------------------------
(* attachEvent, detachEvent and modifyEvent on the poller thread. *)

Job(op, n, s, e) == [op |-> op, fd |-> n, socket |-> s, events |-> e]

\* epoll_ctl fails for a number that is not open or is registered already.
ApplyAttach(j) ==
    IF file[j.fd] = NoSocket \/ j.fd \in DOMAIN epoll THEN UNCHANGED <<epoll, records>>
    ELSE /\ epoll' = With(epoll, j.fd, ToEpoll(j.events))
         /\ records' = With(records, j.fd, [socket |-> j.socket, events |-> j.events])

\* Mutant: the record is erased, the descriptor stays registered.
EraseOnly(j) == records' = Without(records, j.fd) /\ UNCHANGED epoll

ApplyDetach(j) ==
    /\ epoll' = Without(epoll, j.fd)
    /\ records' = Without(records, j.fd)

ApplyModify(j) ==
    /\ epoll' = IF j.fd \in DOMAIN epoll THEN With(epoll, j.fd, ToEpoll(j.events))
                ELSE epoll
    /\ records' = IF j.fd \in DOMAIN records
                  THEN [records EXCEPT ![j.fd].events = j.events] ELSE records

Apply(j) == \/ j.op = "attach" /\ ApplyAttach(j)
            \/ j.op = "detach" /\ ApplyDetach(j)
            \/ j.op = "modify" /\ ApplyModify(j)

\* Mutant: attachEvent and detachEvent are posted to the front of the queue.
DoFirst(t, j) ==
    IF t = Poller THEN Apply(j) /\ UNCHANGED queue
    ELSE queue' = <<j>> \o queue /\ UNCHANGED <<epoll, records>>

\* At once on the poller thread, posted by the others.
Do(t, j) ==
    IF t = Poller THEN Apply(j) /\ UNCHANGED queue
    ELSE queue' = Append(queue, j) /\ UNCHANGED <<epoll, records>>

-----------------------------------------------------------------------------
(* Socket *)

\* No thread is in a call of s, and the poller thread only makes calls from a
\* callback.
MayUse(t, s) == /\ pc[t] = "out" /\ s \in held
                /\ \A u \in Threads : pc[u] # "out" => obj[u] # s
                /\ t = Poller => PollerUses /\ ppc = "call"

Goto(t, l) == pc' = [pc EXCEPT ![t] = l]

\* bindUdpSocket: the kernel gives a number that is free.
Bind(t, s) ==
    /\ MayUse(t, s) /\ binds[s] < MaxBinds
    /\ \E n \in Fds : /\ file[n] = NoSocket
                      /\ file' = [file EXCEPT ![n] = s]
                      /\ new' = [new EXCEPT ![t] = n]
    /\ binds' = [binds EXCEPT ![s] = @ + 1]
    /\ obj' = [obj EXCEPT ![t] = s]
    /\ Goto(t, IF fd[s] = NoFd THEN "attach" ELSE "detach")
    /\ UNCHANGED <<epoll, records, queue, loopVars, held, fd, asked>>

\* closeSocket, as part of bindUdpSocket or of ~Socket: ~SockFD calls detachEvent ...
Detach(t) ==
    /\ pc[t] = "detach"
    /\ Do(t, Job("detach", fd[obj[t]], obj[t], {}))
    /\ Goto(t, "close")
    /\ UNCHANGED <<file, loopVars, socketVars, obj, new>>

\* ... and ~SockNum closes the descriptor; the kernel drops its registration.
Close(t) ==
    /\ pc[t] = "close"
    /\ LET s == obj[t] IN
         /\ file' = [file EXCEPT ![fd[s]] = NoSocket]
         /\ epoll' = Without(epoll, fd[s])
         /\ fd' = [fd EXCEPT ![s] = NoFd]
    /\ Goto(t, IF new[t] = NoFd THEN "out" ELSE "attach")
    /\ UNCHANGED <<records, queue, loopVars, held, asked, binds, obj, new>>

\* Socket::attachEvent asks for all three events; its callback has a weak pointer.
AttachEvent(t, n, s) == Do(t, Job("attach", n, s, Events))

\* setSocketFD, then attachEvent.
Attach(t) ==
    /\ pc[t] = "attach"
    /\ LET s == obj[t] IN
         /\ fd' = [fd EXCEPT ![s] = new[t]]
         /\ asked' = [asked EXCEPT ![s] = Events]
         /\ AttachEvent(t, new[t], s)
    /\ new' = [new EXCEPT ![t] = NoFd]
    /\ Goto(t, "out")
    /\ UNCHANGED <<file, loopVars, held, binds, obj>>

\* modifyEvent for the descriptor of a Socket, one at a time.
Modify(t, s, e) ==
    /\ MayUse(t, s) /\ fd[s] # NoFd /\ asked[s] # e
    /\ \A i \in 1..Len(queue) : queue[i].op = "modify" => queue[i].socket # s
    /\ Do(t, Job("modify", fd[s], s, e))
    /\ asked' = [asked EXCEPT ![s] = e]
    /\ UNCHANGED <<file, loopVars, held, fd, binds, threadVars>>

\* Mutant: ~SockFD does not detach.
DropQuietly(t, s) ==
    /\ MayUse(t, s)
    /\ held' = held \ {s}
    /\ IF fd[s] = NoFd \/ call.socket = s THEN UNCHANGED <<pc, obj>>
       ELSE Goto(t, "close") /\ obj' = [obj EXCEPT ![t] = s]
    /\ UNCHANGED <<kernel, records, queue, loopVars, fd, asked, binds, new>>

\* The user drops the last reference but for that of a running callback.
Drop(t, s) ==
    /\ MayUse(t, s)
    /\ held' = held \ {s}
    /\ IF fd[s] = NoFd \/ call.socket = s THEN UNCHANGED <<pc, obj>>
       ELSE Goto(t, "detach") /\ obj' = [obj EXCEPT ![t] = s]
    /\ UNCHANGED <<kernel, records, queue, loopVars, fd, asked, binds, new>>

-----------------------------------------------------------------------------
(* runLoop *)

\* epoll_wait reports descriptors for events they wait for or for errors, and the
\* pipe if there are jobs; the records are looked up.
Wait ==
    /\ ppc = "wait"
    /\ piped' = (queue # <<>>)
    /\ \E ready \in SUBSET DOMAIN epoll :
         /\ ready # {} \/ piped'
         /\ \E ev \in [ready -> Events] :
              /\ \A n \in ready : ev[n] \in epoll[n] \cup {"error"}
              /\ batch' = {[fd |-> n, socket |-> records[n].socket,
                            event |-> Signalled({ev[n]})] :
                              n \in ready \cap DOMAIN records}
    /\ ppc' = "batch"
    /\ UNCHANGED <<kernel, records, queue, tasks, call, socketVars, threadVars>>

\* onPipeEvent takes the queue.
TakeTasks ==
    /\ ppc = "batch" /\ piped
    /\ tasks' = queue /\ queue' = <<>> /\ piped' = FALSE
    /\ ppc' = "tasks"
    /\ UNCHANGED <<kernel, records, batch, call, socketVars, threadVars>>

RunTask ==
    /\ ppc = "tasks" /\ tasks # <<>>
    /\ Apply(Head(tasks)) /\ tasks' = Tail(tasks)
    /\ UNCHANGED <<file, queue, ppc, batch, piped, call, socketVars, threadVars>>

TasksEnd ==
    /\ ppc = "tasks" /\ tasks = <<>>
    /\ ppc' = "batch"
    /\ UNCHANGED <<kernel, records, queue, tasks, batch, piped, call, socketVars, threadVars>>

\* Mutant: the callback does not look whether its Socket is still there.
CallDropped(r) ==
    /\ ppc = "batch" /\ r \in batch
    /\ batch' = batch \ {r}
    /\ ppc' = "call" /\ call' = r
    /\ UNCHANGED <<kernel, records, queue, tasks, piped, socketVars, threadVars>>

\* The callback of a record locks its Socket, if that is still there.
Call(r) ==
    /\ ppc = "batch" /\ r \in batch
    /\ batch' = batch \ {r}
    /\ IF r.socket \in held THEN ppc' = "call" /\ call' = r
       ELSE UNCHANGED <<ppc, call>>
    /\ UNCHANGED <<kernel, records, queue, tasks, piped, socketVars, threadVars>>

\* It returns; if the user has dropped the Socket meanwhile, ~Socket runs here.
CallEnds ==
    /\ ppc = "call" /\ pc[Poller] = "out"
    /\ LET s == call.socket IN
         IF s \in held \/ fd[s] = NoFd THEN UNCHANGED <<pc, obj>>
         ELSE Goto(Poller, "detach") /\ obj' = [obj EXCEPT ![Poller] = s]
    /\ call' = NoRecord /\ ppc' = "return"
    /\ UNCHANGED <<kernel, records, queue, tasks, batch, piped, socketVars, new>>

CallReturned ==
    /\ ppc = "return" /\ pc[Poller] = "out"
    /\ ppc' = "batch"
    /\ UNCHANGED <<kernel, records, queue, tasks, batch, piped, call, socketVars, threadVars>>

BatchEnds ==
    /\ ppc = "batch" /\ batch = {} /\ ~piped
    /\ ppc' = "wait"
    /\ UNCHANGED <<kernel, records, queue, tasks, batch, piped, call, socketVars, threadVars>>

-----------------------------------------------------------------------------
InCall(t) == Detach(t) \/ Close(t) \/ Attach(t)
Loop == \/ Wait \/ TakeTasks \/ RunTask \/ TasksEnd
        \/ (\E r \in batch : Call(r)) \/ CallEnds \/ CallReturned \/ BatchEnds

\* No Socket is left and the loop sleeps.
Idle == held = {} /\ ppc = "wait" /\ queue = <<>> /\ UNCHANGED vars

Next == \/ Loop \/ Idle
        \/ \E t \in Threads : InCall(t)
        \/ \E t \in Threads, s \in Sockets :
             \/ Bind(t, s) \/ Drop(t, s)
             \/ \E e \in Masks : Modify(t, s, e)

\* Every thread that can take a step is run, and callbacks return.
Fairness == WF_vars(Loop) /\ \A t \in Threads : WF_vars(InCall(t))

Spec == Init /\ [][Next]_vars /\ Fairness

-----------------------------------------------------------------------------
Record == [socket : Sockets, events : SUBSET Events]

TypeOK ==
    /\ file \in [Fds -> Sockets \cup {NoSocket}]
    /\ DOMAIN epoll \subseteq Fds /\ \A n \in DOMAIN epoll : epoll[n] \subseteq Events
    /\ DOMAIN records \subseteq Fds /\ \A n \in DOMAIN records : records[n] \in Record
    /\ \A q \in {queue, tasks} : \A i \in 1..Len(q) :
         q[i].fd \in Fds /\ q[i].socket \in Sockets
    /\ ppc \in {"wait", "batch", "tasks", "call", "return"} /\ piped \in BOOLEAN
    /\ \A r \in batch : r.fd \in Fds /\ r.socket \in Sockets /\ r.event \in Events
    /\ held \subseteq Sockets /\ fd \in [Sockets -> Fds \cup {NoFd}]
    /\ asked \in [Sockets -> SUBSET Events] /\ binds \in [Sockets -> 0..MaxBinds]
    /\ pc \in [Threads -> {"out", "detach", "close", "attach"}]
    /\ obj \in [Threads -> Sockets \cup {NoSocket}]
    /\ new \in [Threads -> Fds \cup {NoFd}]

\* What epoll watches and what event_records_ says agree at every step, over the
\* two ways on which requests reach them and the descriptors the kernel drops by
\* itself; so runLoop never gets an event without a record (EventPoller.cc:56-63).
RecordsMatchEpoll ==
    \A n \in DOMAIN epoll : /\ n \in DOMAIN records
                            /\ epoll[n] = ToEpoll(records[n].events)

\* Nothing that concerns s is under way.
Settled(s) ==
    /\ s \in held /\ fd[s] # NoFd
    /\ \A t \in Threads : pc[t] # "out" => obj[t] # s
    /\ \A q \in {queue, tasks} : \A i \in 1..Len(q) : q[i].fd # fd[s]

\* A Socket that is bound gets its events: once the requests are through, its
\* descriptor is registered, for this Socket and for the events last asked for,
\* although the number may have been that of a Socket whose requests were still
\* on their way ("registers network I/O events", EventPoller.h:82-87).
NoDeafSocket ==
    \A s \in Sockets : Settled(s) =>
        /\ fd[s] \in DOMAIN epoll \cap DOMAIN records
        /\ records[fd[s]] = [socket |-> s, events |-> asked[s]]

\* A callback never reads from a descriptor that another Socket has opened: the
\* numbers in a batch may be stale, but the Socket a callback has locked keeps
\* its descriptor open (Socket.cc:336-348).
NoForeignRead ==
    call.event = "read" => file[call.fd] \in {call.socket, NoSocket}

\* The record of a Socket that is gone goes too (Socket.h:55-57).
StaleRecordsGo ==
    \A n \in Fds, s \in Sockets :
        LET Stale == s \notin held /\ n \in DOMAIN records /\ records[n].socket = s
        IN  Stale ~> ~Stale
=============================================================================
