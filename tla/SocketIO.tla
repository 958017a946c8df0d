------------------------------ MODULE SocketIO ------------------------------
(***************************************************************************)
(* What avc::util::Socket does with data (network/Socket.cc): onReadable   *)
(* reads every socket of a poller into one shared block of memory          *)
(* (network/Buffer.h, EventPoller::getSharedBuffer) and hands it to        *)
(* on_read_; send queues buffers, which stay queued: flushAll writes only  *)
(* while sendable_ is set, and nothing ever sets it.                       *)
(*                                                                         *)
(* The sockets are UDP sockets of one poller.  shared_buffer_ is a weak    *)
(* pointer, so there is at most one block: it lives as long as a pass over *)
(* a socket, and longer if the user has queued it for sending.  The kernel *)
(* (datagrams, recvfrom) is external.  FdEvents.tla shows how onReadable   *)
(* comes to be called.                                                     *)
(***************************************************************************)
EXTENDS Integers, Sequences, SequencesExt

CONSTANTS Sockets,      \* Socket objects of the poller
          NoSocket,
          Sizes,        \* sizes of datagrams
          Capacity,     \* bytes in the shared block
          SizeT,        \* the values of a size_t: 2^w
          MaxArrivals,  \* bound of the model: datagrams that arrive
          MaxSends      \* bound of the model: buffers that are sent

ASSUME BlockAssumption == /\ Capacity \in Nat \ {0} /\ Sizes \subseteq 0..(Capacity - 1)
                          /\ SizeT \in Nat /\ Capacity < SizeT
ASSUME SocketAssumption == NoSocket \notin Sockets
ASSUME BoundAssumption == MaxArrivals \in Nat /\ MaxSends \in Nat

VARIABLES
    bound,              \* sockets whose sock_fd_ is set
    rx,                 \* kernel: sizes of the datagrams that wait at each socket
    size,               \* size_ of the shared block
    cur,                \* the Socket in onReadable
    ppc,                \* where the poller thread is in it
    waiting,            \* send_buffer_waiting_ of each Socket
    arrived,            \* history: datagrams that have arrived
    sends,              \* history: buffers passed to send
    delivered,          \* history: what on_read_ was called with
    fresh               \* history: the shared block is new, and nothing was read into it

vars == <<bound, rx, size, cur, ppc, waiting, arrived, sends, delivered, fresh>>

\* A queued buffer: one of the sender's own, or the shared block itself.
Buffers == {"own", "shared"}

Init ==
    /\ bound = {} /\ rx = [s \in Sockets |-> <<>>]
    /\ size = 0 /\ cur = NoSocket /\ ppc = "out"
    /\ waiting = [s \in Sockets |-> <<>>]
    /\ arrived = 0 /\ sends = 0 /\ delivered = <<>> /\ fresh = FALSE

\* bindUdpSocket of a new Socket, through fromSockFd.
Bind(s) ==
    /\ s \notin bound
    /\ bound' = bound \cup {s}
    /\ UNCHANGED <<rx, size, cur, ppc, waiting, sends, arrived, delivered, fresh>>

Arrive(s, n) ==
    /\ s \in bound /\ arrived < MaxArrivals
    /\ arrived' = arrived + 1
    /\ rx' = [rx EXCEPT ![s] = Append(@, n)]
    /\ UNCHANGED <<bound, size, cur, ppc, waiting, sends, delivered, fresh>>

-----------------------------------------------------------------------------
(* onReadable *)

\* Somebody but the poller thread has a reference to the shared block.
Kept == \E s \in Sockets : Contains(waiting[s], "shared")

\* size_ of a BufferRaw that is constructed from a capacity.
NewBlock == 0

\* Mutant: the block goes on from one pass to the next.
GetAnyBuffer(s) ==
    /\ ppc = "out" /\ rx[s] # <<>>
    /\ cur' = s /\ ppc' = "recv" /\ fresh' = ~Kept
    /\ UNCHANGED <<bound, rx, size, waiting, sends, arrived, delivered>>

\* The read event of s: getSharedBuffer locks the weak pointer, or creates a block
\* with a capacity and the size 0.
GetSharedBuffer(s) ==
    /\ ppc = "out" /\ rx[s] # <<>>
    /\ cur' = s /\ ppc' = "recv" /\ fresh' = ~Kept
    /\ size' = IF Kept THEN size ELSE NewBlock
    /\ UNCHANGED <<bound, rx, waiting, sends, arrived, delivered>>

\* The length given to recvfrom: buffer->size() - 1, as a size_t.
RecvSize == (size - 1) % SizeT

\* Mutant: the size counts the terminator.
SetSizeOff(n) == size' = n + 1

\* BufferRaw::setSize after a datagram of n bytes.
SetSize(n) == size' = n

\* recvfrom takes a datagram and cuts what does not fit.  0 counts as an end of
\* file; else the terminator and the size are set and on_read_ is called.
Recv ==
    /\ ppc = "recv" /\ rx[cur] # <<>>
    /\ LET n == Head(rx[cur])
           nread == IF n <= RecvSize THEN n ELSE RecvSize IN
         /\ rx' = [rx EXCEPT ![cur] = Tail(@)]
         /\ IF nread = 0
            THEN ppc' = "out" /\ cur' = NoSocket /\ UNCHANGED <<size, delivered, fresh>>
            ELSE /\ ppc' = "call" /\ UNCHANGED cur
                 /\ SetSize(nread)
                 /\ delivered' = Append(delivered,
                        [size |-> n, len |-> nread, fresh |-> fresh])
                 /\ fresh' = FALSE
    /\ UNCHANGED <<bound, waiting, sends, arrived>>

\* EAGAIN, or another error.  The length of the address is read uninitialised:
\* if it is out of range, recvfrom takes the datagram and fails.
RecvFails ==
    /\ ppc = "recv"
    /\ ppc' = "out" /\ cur' = NoSocket
    /\ \/ UNCHANGED rx
       \/ rx[cur] # <<>> /\ rx' = [rx EXCEPT ![cur] = Tail(@)]
    /\ UNCHANGED <<bound, size, waiting, sends, arrived, delivered, fresh>>

-----------------------------------------------------------------------------
(* send and send_l *)

\* send_l queues a buffer that is not empty, bound or not.
Queue(s, b) ==
    /\ sends < MaxSends /\ sends' = sends + 1
    /\ waiting' = [waiting EXCEPT ![s] = Append(@, b)]

\* A user sends a buffer of its own.  With tryFlush, flushAll follows and fails without
\* having changed anything: sendable_ is false from the start, and only flushData, which
\* only flushAll calls, would set it.
Send(s) ==
    /\ Queue(s, "own")
    /\ UNCHANGED <<bound, rx, size, cur, ppc, arrived, delivered, fresh>>

\* on_read_ returns or throws, and the loop goes on.
OnReadReturns ==
    /\ ppc = "call" /\ ppc' = "recv"
    /\ UNCHANGED <<bound, rx, size, cur, waiting, sends, arrived, delivered, fresh>>

\* on_read_ sends the buffer it was given, which is queued and not copied, and returns.
OnReadEchoes ==
    /\ ppc = "call" /\ ppc' = "recv"
    /\ Queue(cur, "shared")
    /\ UNCHANGED <<bound, rx, size, cur, arrived, delivered, fresh>>

\* The last reference to a Socket is dropped: its queues go with it.
Drop(s) ==
    /\ s \in bound /\ s # cur
    /\ bound' = bound \ {s}
    /\ rx' = [rx EXCEPT ![s] = <<>>]
    /\ waiting' = [waiting EXCEPT ![s] = <<>>]
    /\ UNCHANGED <<size, cur, ppc, sends, arrived, delivered, fresh>>

-----------------------------------------------------------------------------
Reading == Recv \/ RecvFails \/ OnReadReturns \/ OnReadEchoes

Next ==
    \/ Reading
    \/ \E s \in Sockets : \/ Bind(s) \/ Drop(s) \/ GetSharedBuffer(s) \/ Send(s)
                          \/ \E n \in Sizes : Arrive(s, n)

Spec == Init /\ [][Next]_vars
-----------------------------------------------------------------------------
\* The types; the size leaves room for the terminator in the block.
TypeOK ==
    /\ bound \subseteq Sockets
    /\ rx \in [Sockets -> Seq(Sizes)]
    /\ size \in 0..(Capacity - 1)
    /\ cur \in Sockets \cup {NoSocket} /\ ppc \in {"out", "recv", "call"}
    /\ waiting \in [Sockets -> Seq(Buffers)]
    /\ arrived \in 0..MaxArrivals /\ sends \in 0..MaxSends /\ fresh \in BOOLEAN
    /\ delivered \in Seq([size : Sizes, len : 1..(Capacity - 1), fresh : BOOLEAN])

\* A datagram is cut only because of the datagram before it in the same block:
\* recvfrom gets the size that setSize has left, less one (Socket.cc:402, 438), so
\* what follows in a block is shorter each time, also at another socket, and only
\* a block that getSharedBuffer has just made takes a datagram whole
\* (EventPoller.cc:314-321).
CutByTheLast ==
    \A i \in 1..Len(delivered) :
        IF delivered[i].fresh THEN delivered[i].len = delivered[i].size
        ELSE /\ i > 1
             /\ delivered[i].len =
                  Min({delivered[i].size, delivered[i - 1].len - 1})

\* "All sockets of an EventPoller can use the same Buffer to read, and hand it to
\* the layer above" (Socket.cc:387-388): a datagram is delivered whole.
Whole == \A i \in 1..Len(delivered) : delivered[i].len = delivered[i].size
=============================================================================
