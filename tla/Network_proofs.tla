--------------------------- MODULE Network_proofs ---------------------------
(***************************************************************************)
(* Proofs about the network code.  For SocketIO, with every number of      *)
(* sockets and datagrams of any size that the block can hold: a datagram   *)
(* is cut only because of the one before it.  For SockUtil, with every number of threads, descriptors, *)
(* names and versions of their addresses, and every expiry: no descriptor  *)
(* is lost or shared, and an address is never older than its user accepts. *)
(***************************************************************************)
EXTENDS SocketIO, SockUtil, SequenceTheorems, TLAPS

-----------------------------------------------------------------------------
(* SocketIO *)

\* The constants, and numbers that are not empty.
LEMMA Constants ==
  /\ Capacity \in Nat /\ Capacity > 0 /\ SizeT \in Nat /\ Capacity < SizeT
  /\ \A n \in Sizes : n \in Nat /\ n < Capacity
BY BlockAssumption

\* A queue to which a buffer of the sender's own is added holds the block if it did before.
LEMMA OwnAdded ==
  ASSUME NEW w \in Seq(Buffers), Contains(Append(w, "own"), "shared")
  PROVE  Contains(w, "shared")
<1>1. PICK i \in 1..Len(Append(w, "own")) : Append(w, "own")[i] = "shared"
  BY DEF Contains
<1>2. i \in 1..Len(w) /\ Append(w, "own")[i] = w[i]
  BY <1>1 DEF Buffers
<1> QED
  BY <1>1, <1>2 DEF Contains

-----------------------------------------------------------------------------
(* The inductive invariant. *)

\* The poller thread is in onReadable of a Socket.
Serving == ppc # "out" => cur \in Sockets

\* While the block is somebody's and holds a datagram, its size is that of the last one; a
\* block that is new is nobody's but the pass's, and has the size 0.
Holding ==
    /\ Kept \/ (ppc # "out" /\ ~fresh) =>
         delivered # <<>> /\ size = delivered[Len(delivered)].len
    /\ ppc # "out" /\ fresh => ppc = "recv" /\ size = 0 /\ ~Kept

IInv == TypeOK /\ Serving /\ Holding /\ CutByTheLast

\* The invariant holds before anything was read or sent.
LEMMA InitHolds == Init => IInv
<1> SUFFICES ASSUME Init PROVE IInv
  OBVIOUS
<1> USE DEF Init
<1>1. TypeOK
  <2>1. \A X : <<>> \in Seq(X)
    OBVIOUS
  <2>2. size \in 0..(Capacity - 1) /\ arrived \in 0..MaxArrivals /\ sends \in 0..MaxSends
    BY BoundAssumption, Constants
  <2>3. /\ rx \in [Sockets -> Seq(Sizes)]
        /\ waiting \in [Sockets -> Seq(Buffers)]
        /\ delivered \in Seq([size : Sizes, len : 1..(Capacity - 1), fresh : BOOLEAN])
    BY <2>1
  <2> QED
    BY <2>2, <2>3 DEF TypeOK
<1>2. Serving
  BY DEF Serving
<1>3. ~Kept
  BY DEF Kept, Contains
<1>4. Holding /\ CutByTheLast
  BY <1>3 DEF Holding, CutByTheLast
<1> QED
  BY <1>1, <1>2, <1>4 DEF IInv

\* A step keeps the types.
LEMMA TypesKept ==
  ASSUME TypeOK, Serving, [Next]_vars
  PROVE  TypeOK' /\ Serving'
<1> USE DEF TypeOK
<1>1. CASE UNCHANGED vars
  BY <1>1 DEF vars, Serving
<1>2. CASE Recv
  <2>1. PICK n \in Sizes, r \in Seq(Sizes), nread \in Nat :
            /\ cur \in Sockets /\ n = Head(rx[cur]) /\ r = Tail(rx[cur]) /\ nread <= n
            /\ rx' = [rx EXCEPT ![cur] = r]
            /\ \/ /\ nread = 0 /\ ppc' = "out" /\ cur' = NoSocket
                  /\ UNCHANGED <<size, delivered, fresh>>
               \/ /\ nread # 0 /\ ppc' = "call" /\ UNCHANGED cur /\ size' = nread /\ fresh' = FALSE
                  /\ delivered' = Append(delivered, [size |-> n, len |-> nread, fresh |-> fresh])
    <3>1. cur \in Sockets /\ rx[cur] # <<>>
      BY <1>2 DEF Recv, Serving
    <3>a. PICK q \in Seq(Sizes) : q = rx[cur] /\ q # <<>>
      BY <3>1
    <3>b. Head(q) \in Sizes /\ Tail(q) \in Seq(Sizes)
      BY <3>a, HeadTailProperties
    <3>2. PICK n \in Sizes, r \in Seq(Sizes) : n = Head(rx[cur]) /\ r = Tail(rx[cur])
      <4> HIDE DEF TypeOK
      <4> QED
        BY <3>a, <3>b
    <3>3. RecvSize \in Nat
      BY Constants DEF RecvSize
    <3>4. PICK nread \in Nat : nread = (IF n <= RecvSize THEN n ELSE RecvSize) /\ nread <= n
      BY <3>2, <3>3, Constants
    <3>5. /\ rx' = [rx EXCEPT ![cur] = r]
          /\ IF nread = 0
             THEN ppc' = "out" /\ cur' = NoSocket /\ UNCHANGED <<size, delivered, fresh>>
             ELSE /\ ppc' = "call" /\ UNCHANGED cur
                  /\ SetSize(nread)
                  /\ delivered' = Append(delivered, [size |-> n, len |-> nread, fresh |-> fresh])
                  /\ fresh' = FALSE
      BY <1>2, <3>2, <3>4 DEF Recv
    <3> QED
      BY <3>1, <3>2, <3>4, <3>5 DEF SetSize
  <2>2. UNCHANGED <<bound, waiting, sends, arrived>>
    BY <1>2 DEF Recv
  <2>3. rx' \in [Sockets -> Seq(Sizes)]
    BY <2>1
  <2>4. /\ size' \in 0..(Capacity - 1) /\ fresh' \in BOOLEAN
        /\ delivered' \in Seq([size : Sizes, len : 1..(Capacity - 1), fresh : BOOLEAN])
    <3>1. CASE nread = 0
      BY <2>1, <3>1
    <3>2. CASE nread # 0
      <4>1. nread \in 1..(Capacity - 1)
        BY <2>1, <3>2, Constants
      <4>2. PICK d \in [size : Sizes, len : 1..(Capacity - 1), fresh : BOOLEAN] :
                d = [size |-> n, len |-> nread, fresh |-> fresh]
        BY <4>1
      <4>3. delivered' = Append(delivered, d)
        BY <2>1, <3>2, <4>2
      <4>4. delivered' \in Seq([size : Sizes, len : 1..(Capacity - 1), fresh : BOOLEAN])
        <5>1. delivered \in Seq([size : Sizes, len : 1..(Capacity - 1), fresh : BOOLEAN])
          OBVIOUS
        <5> HIDE DEF TypeOK
        <5> QED
          BY <4>3, <5>1
      <4>5. size' \in 0..(Capacity - 1) /\ fresh' = FALSE
        BY <2>1, <3>2, <4>1, Constants
      <4> QED
        BY <4>4, <4>5
    <3> QED
      BY <3>1, <3>2
  <2>5. cur' \in Sockets \cup {NoSocket} /\ ppc' \in {"out", "call"} /\ Serving'
    BY <2>1 DEF Serving
  <2> QED
    <3>1. /\ bound' \subseteq Sockets
          /\ waiting' \in [Sockets -> Seq(Buffers)]
          /\ arrived' \in 0..MaxArrivals /\ sends' \in 0..MaxSends
      BY <2>2
    <3>2. ppc' \in {"out", "recv", "call"}
      BY <2>5
    <3> QED
      BY <2>3, <2>4, <2>5, <3>1, <3>2
<1>3. CASE RecvFails
  <2>1. cur \in Sockets
    BY <1>3 DEF RecvFails, Serving
  <2>2. rx' \in [Sockets -> Seq(Sizes)]
    <3>1. CASE UNCHANGED rx
      BY <3>1
    <3>2. CASE rx[cur] # <<>> /\ rx' = [rx EXCEPT ![cur] = Tail(@)]
      <4>1. Tail(rx[cur]) \in Seq(Sizes)
        BY <2>1, <3>2, HeadTailProperties
      <4> QED
        BY <3>2, <4>1
    <3> QED
      BY <1>3, <3>1, <3>2 DEF RecvFails
  <2> QED
    BY <1>3, <2>2 DEF RecvFails, Serving
<1>4. CASE OnReadReturns
  BY <1>4 DEF OnReadReturns, Serving
<1>5. CASE OnReadEchoes
  <2>1. "shared" \in Buffers /\ cur \in Sockets /\ sends + 1 \in 0..MaxSends
    BY <1>5, BoundAssumption DEF OnReadEchoes, Queue, Serving, Buffers
  <2>2. waiting' \in [Sockets -> Seq(Buffers)]
    BY <1>5, <2>1 DEF OnReadEchoes, Queue
  <2> QED
    BY <1>5, <2>1, <2>2 DEF OnReadEchoes, Queue, Serving
<1>6. ASSUME NEW s \in Sockets, Bind(s)
      PROVE  TypeOK' /\ Serving'
  BY <1>6 DEF Bind, Serving
<1>7. ASSUME NEW s \in Sockets, Drop(s)
      PROVE  TypeOK' /\ Serving'
  <2>1. waiting' \in [Sockets -> Seq(Buffers)]
    BY <1>7 DEF Drop
  <2> QED
    BY <1>7, <2>1 DEF Drop, Serving
<1>8. ASSUME NEW s \in Sockets, GetSharedBuffer(s)
      PROVE  TypeOK' /\ Serving'
  BY <1>8, Constants DEF GetSharedBuffer, NewBlock, Serving
<1>9. ASSUME NEW s \in Sockets, NEW n \in Sizes, Arrive(s, n)
       PROVE  TypeOK' /\ Serving'
  BY <1>9, BoundAssumption DEF Arrive, Serving
<1>10. ASSUME NEW s \in Sockets, Send(s)
       PROVE  TypeOK' /\ Serving'
  <2>1. sends + 1 \in 0..MaxSends /\ "own" \in Buffers
    BY <1>10, BoundAssumption DEF Send, Queue, Buffers
  <2>2. waiting' \in [Sockets -> Seq(Buffers)] /\ sends' \in 0..MaxSends
    BY <1>10, <2>1 DEF Send, Queue
  <2> QED
    BY <1>10, <2>2 DEF Send, Serving
<1> QED
  BY <1>1, <1>2, <1>3, <1>4, <1>5, <1>6, <1>7, <1>8, <1>9, <1>10 DEF Next, Reading

\* The lesser of two numbers.
LEMMA MinOfTwo ==
  ASSUME NEW a \in Int, NEW b \in Int
  PROVE  Min({a, b}) = IF a <= b THEN a ELSE b
<1> DEFINE m == IF a <= b THEN a ELSE b
<1>1. m \in {a, b} /\ \A y \in {a, b} : m <= y
  OBVIOUS
<1>2. \A x \in {a, b} : (\A y \in {a, b} : x <= y) => x = m
  OBVIOUS
<1> HIDE DEF m
<1> QED
  BY <1>1, <1>2 DEF m, Min

\* A step that reads nothing keeps what is known of the block, if the block is not kept
\* anew and the pass goes on as it was.
LEMMA HoldingStays ==
  ASSUME Holding, UNCHANGED <<size, delivered, fresh>>, Kept' => Kept,
         ppc' = "out" \/ ppc' = ppc \/ (ppc # "out" /\ ~fresh)
  PROVE  Holding'
BY DEF Holding

\* A step keeps what is known of the block.
LEMMA BlockKept ==
  ASSUME IInv, [Next]_vars
  PROVE  Holding' /\ CutByTheLast'
<1> USE DEF IInv
<1>0. TypeOK' /\ Serving'
  BY TypesKept
<1>1. ASSUME UNCHANGED <<size, delivered, fresh>>, Kept' => Kept,
             ppc' = "out" \/ ppc' = ppc \/ (ppc # "out" /\ ~fresh)
      PROVE  Holding' /\ CutByTheLast'
  <2>1. CutByTheLast'
    BY <1>1 DEF CutByTheLast
  <2> QED
    BY <1>1, <2>1, HoldingStays
<1>2. ASSUME UNCHANGED waiting PROVE Kept' <=> Kept
  BY <1>2 DEF Kept
<1>3. CASE UNCHANGED vars
  BY <1>1, <1>2, <1>3 DEF vars
<1>4. CASE RecvFails
  BY <1>1, <1>2, <1>4 DEF RecvFails
<1>5. CASE OnReadReturns
  BY <1>1, <1>2, <1>5 DEF OnReadReturns, Holding
<1>6. CASE OnReadEchoes
  <2>1. UNCHANGED <<size, delivered, fresh>> /\ ppc = "call" /\ ppc' = "recv"
    BY <1>6 DEF OnReadEchoes
  <2>2. CutByTheLast'
    BY <2>1 DEF CutByTheLast
  <2> QED
    BY <2>1, <2>2 DEF Holding
<1>7. ASSUME NEW s \in Sockets, Bind(s)
      PROVE  Holding' /\ CutByTheLast'
  BY <1>1, <1>2, <1>7 DEF Bind
<1>8. ASSUME NEW s \in Sockets, NEW n \in Sizes, Arrive(s, n)
      PROVE  Holding' /\ CutByTheLast'
  BY <1>1, <1>2, <1>8 DEF Arrive
<1>9. ASSUME NEW s \in Sockets, Drop(s)
       PROVE  Holding' /\ CutByTheLast'
  <2>1. \A r \in Sockets : waiting'[r] = waiting[r] \/ waiting'[r] = <<>>
    BY <1>9 DEF Drop, TypeOK
  <2>2. ~Contains(<<>>, "shared")
    BY DEF Contains
  <2>3. Kept' => Kept
    BY <2>1, <2>2 DEF Kept
  <2> QED
    BY <1>1, <1>9, <2>3 DEF Drop
<1>10. ASSUME NEW s \in Sockets, Send(s)
       PROVE  Holding' /\ CutByTheLast'
  <2>1. waiting \in [Sockets -> Seq(Buffers)]
    BY DEF TypeOK
  <2>2. \A r \in Sockets : \/ waiting'[r] = waiting[r]
                           \/ waiting'[r] = Append(waiting[r], "own")
    BY <1>10, <2>1 DEF Send, Queue
  <2>3. \A r \in Sockets : Contains(waiting'[r], "shared") => Contains(waiting[r], "shared")
    BY <2>1, <2>2, OwnAdded
  <2>4. Kept' => Kept
    BY <2>3 DEF Kept
  <2> QED
    BY <1>1, <1>10, <2>4 DEF Send
<1>11. ASSUME NEW s \in Sockets, GetSharedBuffer(s)
       PROVE  Holding' /\ CutByTheLast'
  <2>1. UNCHANGED <<delivered, waiting>>
    BY <1>11 DEF GetSharedBuffer
  <2>2. CutByTheLast'
    BY <2>1 DEF CutByTheLast
  <2>3. Kept' <=> Kept
    BY <1>2, <2>1
  <2>4. Holding'
    <3>1. CASE Kept
      BY <1>11, <2>1, <2>3, <3>1 DEF GetSharedBuffer, Holding
    <3>2. CASE ~Kept
      BY <1>11, <2>1, <2>3, <3>2 DEF GetSharedBuffer, Holding, NewBlock
    <3> QED
      BY <3>1, <3>2
  <2> QED
    BY <2>2, <2>4
<1>12. CASE Recv
  <2>0. UNCHANGED waiting /\ ppc = "recv"
    BY <1>12 DEF Recv
  <2>1. cur \in Sockets /\ rx[cur] \in Seq(Sizes) /\ rx[cur] # <<>>
    BY <1>12 DEF Recv, Serving, TypeOK
  <2>2. PICK n \in Sizes : n = Head(rx[cur])
    BY <2>1, HeadTailProperties
  <2>3. n \in Nat /\ n < Capacity /\ size \in 0..(Capacity - 1)
    BY Constants DEF TypeOK
  <2>4. RecvSize \in Nat
    BY <2>3, Constants DEF RecvSize
  <2>5. PICK nread \in Nat : nread = IF n <= RecvSize THEN n ELSE RecvSize
    BY <2>3, <2>4
  <2>6. CASE nread = 0
    <3>1. UNCHANGED <<size, delivered, fresh>> /\ ppc' = "out"
      BY <1>12, <2>2, <2>5, <2>6 DEF Recv
    <3> QED
      BY <1>1, <1>2, <2>0, <3>1
  <2>7. CASE nread # 0
    <3>1. /\ ppc' = "call" /\ size' = nread /\ fresh' = FALSE
          /\ delivered' = Append(delivered, [size |-> n, len |-> nread, fresh |-> fresh])
      BY <1>12, <2>2, <2>5, <2>7 DEF Recv, SetSize
    <3>2. delivered \in Seq([size : Sizes, len : 1..(Capacity - 1), fresh : BOOLEAN])
      BY DEF TypeOK
    <3>3. PICK d \in [size : Sizes, len : 1..(Capacity - 1), fresh : BOOLEAN] :
              d = [size |-> n, len |-> nread, fresh |-> fresh]
      <4>1. nread \in 1..(Capacity - 1) /\ fresh \in BOOLEAN
        BY <2>3, <2>4, <2>5, <2>7, Constants DEF TypeOK
      <4> QED
        BY <4>1
    <3>4. d.size = n /\ d.len = nread /\ d.fresh = fresh
      BY <3>3
    <3>5. /\ delivered' # <<>> /\ Len(delivered') = Len(delivered) + 1
          /\ Len(delivered) \in Nat
          /\ delivered'[Len(delivered) + 1] = d
          /\ \A i \in 1..Len(delivered) : delivered'[i] = delivered[i]
      BY <3>1, <3>2, <3>3
    <3>6. Holding'
      BY <3>1, <3>4, <3>5 DEF Holding
    <3>7. IF d.fresh THEN d.len = d.size
          ELSE /\ Len(delivered) > 0
               /\ d.len = Min({d.size, delivered[Len(delivered)].len - 1})
      <4>1. CASE fresh
        <5>1. size = 0
          BY <2>0, <4>1 DEF Holding
        <5>2. RecvSize = SizeT - 1
          BY <5>1, Constants DEF RecvSize
        <5>3. nread = n
          BY <2>3, <2>5, <5>2, Constants
        <5> QED
          BY <3>4, <4>1, <5>3
      <4>2. CASE ~fresh
        <5>1. delivered # <<>> /\ size = delivered[Len(delivered)].len
          BY <2>0, <4>2 DEF Holding
        <5>2. Len(delivered) > 0 /\ size \in 1..(Capacity - 1)
          <6>1. Len(delivered) \in 1..Len(delivered)
            BY <3>2, <5>1
          <6>2. PICK ds \in Seq([size : Sizes, len : 1..(Capacity - 1), fresh : BOOLEAN]) :
                    ds = delivered
            BY <3>2, Zenon
          <6>3. delivered[Len(delivered)].len \in 1..(Capacity - 1)
            <7>1. ds[Len(ds)] \in [size : Sizes, len : 1..(Capacity - 1), fresh : BOOLEAN]
              <8> HIDE DEF IInv
              <8> QED
                BY <6>1, <6>2, ElementOfSeq
            <7> QED
              BY <6>2, <7>1
          <6> QED
            BY <5>1, <6>1, <6>3
        <5>3. RecvSize = size - 1
          BY <5>2, Constants DEF RecvSize
        <5>4. nread = Min({n, size - 1})
          BY <2>3, <2>5, <5>2, <5>3, MinOfTwo
        <5> QED
          BY <3>4, <4>2, <5>1, <5>2, <5>4
      <4> QED
        BY <4>1, <4>2
    <3>8. CutByTheLast'
      <4> SUFFICES ASSUME NEW i \in 1..Len(delivered')
                   PROVE  IF delivered'[i].fresh THEN delivered'[i].len = delivered'[i].size
                          ELSE /\ i > 1
                               /\ delivered'[i].len =
                                    Min({delivered'[i].size, delivered'[i - 1].len - 1})
        BY DEF CutByTheLast
      <4>1. CASE i = Len(delivered) + 1
        <5>1. Len(delivered) > 0 => delivered'[i - 1] = delivered[Len(delivered)]
          BY <3>5, <4>1
        <5>2. delivered'[i] = d /\ i > 0
          BY <3>5, <4>1
        <5>3. CASE d.fresh
          BY <3>7, <5>2, <5>3
        <5>4. CASE ~d.fresh
          <6>1. Len(delivered) > 0 /\ d.len = Min({d.size, delivered[Len(delivered)].len - 1})
            BY <3>7, <5>4
          <6>2. i > 1 /\ delivered'[i - 1] = delivered[Len(delivered)]
            BY <3>5, <4>1, <5>1, <6>1
          <6> QED
            BY <5>2, <5>4, <6>1, <6>2
        <5> QED
          BY <5>3, <5>4
      <4>2. CASE i \in 1..Len(delivered)
        <5>1. delivered'[i] = delivered[i] /\ (i > 1 => delivered'[i - 1] = delivered[i - 1])
          BY <3>5, <4>2
        <5> QED
          BY <4>2, <5>1 DEF CutByTheLast
      <4> QED
        BY <3>5, <4>1, <4>2
    <3> QED
      BY <3>6, <3>8
  <2> QED
    BY <2>6, <2>7
<1> QED
  BY <1>3, <1>4, <1>5, <1>6, <1>7, <1>8, <1>9, <1>10, <1>11, <1>12
     DEF Next, Reading

\* The invariant is kept by every step.
LEMMA IInvHolds == Spec => []IInv
<1>1. IInv /\ [Next]_vars => IInv'
  BY TypesKept, BlockKept DEF IInv
<1> QED
  BY <1>1, InitHolds, PTL DEF Spec

\* The variables keep their types; the size leaves room for the terminator in the block
\* (Socket.cc:387-446).
THEOREM IOTyping == Spec => []TypeOK
<1>1. IInv => TypeOK
  BY DEF IInv
<1> QED
  BY <1>1, IInvHolds, PTL

\* A datagram is cut only because of the one before it in the same block
\* (Socket.cc:402, 438, EventPoller.cc:314-321).
THEOREM CutAfterTheLast == Spec => []CutByTheLast
<1>1. IInv => CutByTheLast
  BY DEF IInv
<1> QED
  BY <1>1, IInvHolds, PTL

-----------------------------------------------------------------------------
(* SockUtil *)

Operation == [name : {"none", "listen", "bindUdpSocket"}]
             \cup [name : {"connect"}, host : Names \cup {Literal}, expire : Expires]
Item == [version : Versions \cup {0}, created : 0..MaxNow]

\* The types, with those of the operation, the cache and the history.
StrongType ==
    /\ open \subseteq Fds /\ owned \subseteq Fds
    /\ ipv6 \in {"unknown", "yes", "no"}
    /\ pc \in [Callers -> Points] /\ fd \in [Callers -> Fds \cup {NoFd}]
    /\ op \in [Callers -> Operation]
    /\ family \in [Callers -> {0, 4, 6}]
    /\ found \in [Callers -> Versions \cup {0}]
    /\ foundAt \in [Callers -> 0..MaxNow] /\ asked \in [Callers -> 0..MaxNow]
    /\ cache \in [Names -> Item] /\ \A n \in Names : cache[n].created <= now
    /\ \A c \in Callers : foundAt[c] <= now
    /\ zone \in [Names -> Versions]
    /\ until \in [Names -> [Versions -> 0..MaxNow]]
    /\ now \in 0..MaxNow

\* What a thread has at each point of a call.
HasFd(c) == pc[c] \in {"bind", "listen", "connect"}
CallState ==
    \A c \in Callers :
        /\ op[c].name = "none" <=> pc[c] = "out"
        /\ pc[c] \in {"cached", "resolve", "store"} =>
               op[c].name = "connect" /\ op[c].host \in Names
        /\ pc[c] \in {"out", "cached", "resolve"} => found[c] = 0
        /\ pc[c] = "store" => found[c] # 0
        /\ op[c].name = "connect" /\ found[c] # 0 => op[c].host \in Names
        /\ fd[c] # NoFd <=> HasFd(c)

\* Versions that have not been replaced are right until further notice.
Current == \A n \in Names : \A v \in Versions : v >= zone[n] => until[n][v] = MaxNow

\* An answer on its way to the cache was right when the name service gave it, and that
\* is not long ago.
AnswerWasRight ==
    \A c \in Callers : pc[c] = "store" =>
        /\ asked[c] <= until[op[c].host][found[c]]
        /\ asked[c] <= now /\ now - asked[c] <= MaxLookup

\* So was an item of the cache.
ItemWasRight ==
    \A n \in Names : cache[n].version # 0 =>
        cache[n].created - until[n][cache[n].version] <= MaxLookup

CallInv == StrongType /\ CallState
RecentInv == Current /\ AnswerWasRight /\ ItemWasRight /\ AddressIsRecent

-----------------------------------------------------------------------------
\* connect prefers IPv4, and a family is all an address is here.
LEMMA PreferredFamily ==
  ASSUME NEW v \in Versions PROVE PreferredAddress(Answers[v]) \in {4, 6}
<1>1. Answers[v] \in Seq({4, 6}) \ {<<>>}
  BY AnswerAssumption DEF Versions
<1>2. Answers[v][1] \in {4, 6}
  BY <1>1
<1> QED
  BY <1>2 DEF PreferredAddress

\* A call that returns has no descriptor any more and no address.
LEMMA ReturnKeeps ==
  ASSUME CallInv, NEW c \in Callers, NEW f \in Fds \cup {NoFd}, Return(c, f),
         open' \subseteq Fds
  PROVE  CallInv'
<1> USE DEF CallInv, StrongType, Return, Goto, worldVars
<1>1. NoOp \in Operation /\ NoOp.name = "none"
  BY DEF NoOp, Operation
<1>2. StrongType'
  BY <1>1, FdAssumption, TimeAssumption DEF Points
<1>3. CallState'
  BY <1>1 DEF CallState, HasFd
<1> QED
  BY <1>2, <1>3

\* The variables keep their types, and a call has a descriptor exactly from socket() on.
THEOREM CallTyping == SockSpec => []CallInv
<1> USE DEF CallInv
<1>1. SockInit => CallInv
  <2> SUFFICES ASSUME SockInit PROVE CallInv
    OBVIOUS
  <2>1. NoOp \in Operation /\ NoOp.name = "none" /\ NoItem \in Item
    BY TimeAssumption DEF NoOp, Operation, NoItem, Item
  <2>2. 1 \in Versions
    <3>1. Len(Answers) \in Nat /\ Len(Answers) > 0
      BY AnswerAssumption
    <3> QED
      BY <3>1 DEF Versions
  <2>3. StrongType
    BY <2>1, <2>2, TimeAssumption DEF SockInit, StrongType, Points, NoItem
  <2>4. CallState
    BY <2>1 DEF SockInit, CallState, HasFd
  <2> QED
    BY <2>3, <2>4
<1>2. CallInv /\ [SockNext]_sockVars => CallInv'
  <2> SUFFICES ASSUME CallInv, [SockNext]_sockVars PROVE CallInv'
    OBVIOUS
  <2> USE DEF Goto, fdVars, callVars, dnsVars, worldVars, Points
  <2>1. CASE Tick
    <3>1. now' \in 0..MaxNow /\ now <= now'
      BY <2>1, TimeAssumption DEF Tick, StrongType
    <3>2. /\ \A n \in Names : cache'[n].created <= now'
          /\ \A c \in Callers : foundAt'[c] <= now'
      BY <2>1, <3>1, TimeAssumption DEF Tick, StrongType, Item
    <3>3. StrongType'
      BY <2>1, <3>1, <3>2 DEF Tick, StrongType
    <3>4. CallState'
      BY <2>1 DEF Tick, CallState, HasFd
    <3> QED
      BY <3>3, <3>4
  <2>2. ASSUME NEW n \in Names, Change(n) PROVE CallInv'
    <3>1. zone'\in [Names -> Versions]
      <4>1. zone[n] + 1 \in Versions
        BY <2>2, AnswerAssumption DEF Change, StrongType, Versions
      <4> QED
        BY <2>2, <4>1 DEF Change, StrongType
    <3>2. until' \in [Names -> [Versions -> 0..MaxNow]]
      BY <2>2 DEF Change, StrongType
    <3>3. StrongType'
      BY <2>2, <3>1, <3>2 DEF Change, StrongType
    <3>4. CallState'
      BY <2>2 DEF Change, CallState, HasFd
    <3> QED
      BY <3>3, <3>4
  <2>3. ASSUME NEW f \in Fds, Close(f) PROVE CallInv'
    BY <2>3 DEF Close, StrongType, CallState, HasFd
  <2>4. ASSUME NEW c \in Callers, NEW f \in Fds, Accept(c, f) PROVE CallInv'
    BY <2>4 DEF Accept, StrongType, CallState, HasFd
  <2>5. ASSUME NEW c \in Callers, NEW name \in {"listen", "bindUdpSocket"},
               NEW isIpv4 \in BOOLEAN, NEW kernel \in BOOLEAN, Serve(c, name, isIpv4, kernel)
        PROVE  CallInv'
    <3> DEFINE o == [name |-> name]
    <3>1. o \in Operation /\ o.name = name /\ o.name # "none" /\ o.name # "connect"
      BY DEF Operation
    <3>2. op' = [op EXCEPT ![c] = o]
      BY <2>5 DEF Serve
    <3> HIDE DEF o
    <3>3. StrongType'
      BY <2>5, <3>1, <3>2 DEF Serve, StrongType, LocalFamily
    <3>4. CallState'
      BY <2>5, <3>1, <3>2 DEF Serve, StrongType, CallState, HasFd
    <3> QED
      BY <3>3, <3>4
  <2>6. ASSUME NEW c \in Callers, NEW host \in Names \cup {Literal}, NEW e \in Expires,
               NEW f \in {4, 6}, Connect(c, host, e, f)
        PROVE  CallInv'
    <3> DEFINE o == [name |-> "connect", host |-> host, expire |-> e]
    <3>1. o \in Operation /\ o.name = "connect" /\ o.host = host
      BY DEF Operation
    <3>2. op' = [op EXCEPT ![c] = o]
      BY <2>6 DEF Connect
    <3> HIDE DEF o
    <3>3. StrongType'
      BY <2>6, <3>1, <3>2 DEF Connect, StrongType
    <3>4. CallState'
      BY <2>6, <3>1, <3>2 DEF Connect, StrongType, CallState, HasFd
    <3> QED
      BY <3>3, <3>4
  <2>7. ASSUME NEW c \in Callers, NEW v \in Versions, Found(c, v), op[c].host \in Names,
               op[c].name = "connect", pc[c] \in {"cached", "store"},
               UNCHANGED <<fdVars, ipv6, op, fd, asked, worldVars>>,
               cache' \in [Names -> Item], \A n \in Names : cache'[n].created <= now
        PROVE  CallInv'
    <3>1. StrongType'
      BY <2>7, PreferredFamily DEF Found, StrongType
    <3>2. v # 0
      BY DEF Versions
    <3>3. CallState'
      BY <2>7, <3>2 DEF Found, StrongType, CallState, HasFd
    <3> QED
      BY <3>1, <3>3
  <2>8. ASSUME NEW c \in Callers, InCall(c) PROVE CallInv'
    <3>1. CASE Cached(c)
      <4> DEFINE n == op[c].host
      <4>1. pc[c] = "cached" /\ n \in Names /\ op[c].name = "connect"
            /\ GetCacheDomainIP(c, n) /\ UNCHANGED <<fdVars, ipv6, op, fd, asked, worldVars>>
        BY <3>1 DEF Cached, CallState
      <4>2. NoItem \in Item /\ NoItem.created = 0
        BY TimeAssumption DEF NoItem, Item
      <4>3. CASE cache[n].version # 0 /\ ~Expired(cache[n], op[c].expire)
        <5>1. cache[n].version \in Versions /\ Found(c, cache[n].version) /\ cache' = cache
          BY <4>1, <4>3 DEF GetCacheDomainIP, StrongType, Item
        <5> QED
          BY <2>7, <4>1, <5>1 DEF StrongType
      <4>4. CASE ~(cache[n].version # 0 /\ ~Expired(cache[n], op[c].expire))
        <5>1. /\ pc' = [pc EXCEPT ![c] = "resolve"] /\ cache' = [cache EXCEPT ![n] = NoItem]
              /\ UNCHANGED <<found, foundAt, family>>
          BY <4>1, <4>4 DEF GetCacheDomainIP
        <5>2. StrongType'
          BY <4>1, <4>2, <5>1, TimeAssumption DEF StrongType
        <5>3. CallState'
          BY <4>1, <5>1 DEF StrongType, CallState, HasFd
        <5> QED
          BY <5>2, <5>3
      <4> QED
        BY <4>3, <4>4
    <3>2. CASE Resolve(c)
      <4>1. op[c].host \in Names /\ op[c].name = "connect"
        BY <3>2 DEF Resolve, CallState
      <4>2. zone[op[c].host] \in Versions /\ zone[op[c].host] # 0
        BY <4>1 DEF StrongType, Versions
      <4>3. StrongType'
        BY <3>2, <4>2 DEF Resolve, StrongType
      <4>4. CallState'
        BY <3>2, <4>1, <4>2 DEF Resolve, StrongType, CallState, HasFd
      <4> QED
        BY <4>3, <4>4
    <3>3. CASE SetCacheDomainIP(c)
      <4> DEFINE i == [version |-> found[c], created |-> now]
      <4>1. /\ op[c].host \in Names /\ op[c].name = "connect" /\ pc[c] = "store"
            /\ found[c] \in Versions
        BY <3>3 DEF SetCacheDomainIP, CallState, StrongType
      <4>2. i \in Item /\ i.created = now
        BY <4>1 DEF Item, StrongType
      <4>3. cache' = [cache EXCEPT ![op[c].host] = i]
        BY <3>3 DEF SetCacheDomainIP
      <4> HIDE DEF i
      <4>4. cache' \in [Names -> Item] /\ \A n \in Names : cache'[n].created <= now
        BY <4>1, <4>2, <4>3 DEF StrongType
      <4> QED
        BY <2>7, <3>3, <4>1, <4>4 DEF SetCacheDomainIP
    <3>4. ASSUME NEW f \in {0, 4, 6}, ResolveFails(c, f) PROVE CallInv'
      <4>1. StrongType'
        BY <3>4 DEF ResolveFails, StrongType
      <4>2. CallState'
        BY <3>4 DEF ResolveFails, StrongType, CallState, HasFd
      <4> QED
        BY <4>1, <4>2
    <3>5. ASSUME NEW f \in Fds, Socket(c, f) PROVE CallInv'
      <4>1. StrongType'
        BY <3>5 DEF Socket, StrongType
      <4>2. CallState'
        BY <3>5, FdAssumption DEF Socket, StrongType, CallState, HasFd
      <4> QED
        BY <4>1, <4>2
    <3>6. CASE BindSock(c)
      <4>1. op[c].name \in {"listen", "connect"}
        BY <3>6 DEF BindSock, StrongType, Operation, CallState
      <4>2. StrongType'
        BY <3>6, <4>1 DEF BindSock, StrongType
      <4>3. CallState'
        BY <3>6, <4>1 DEF BindSock, StrongType, CallState, HasFd
      <4> QED
        BY <4>2, <4>3
    <3>7. NoFd \in Fds \cup {NoFd} /\ fd[c] \in Fds \cup {NoFd} /\ open \subseteq Fds
      BY DEF StrongType
    <3>8. CASE SocketFails(c) \/ BindFails(c) \/ ListenFails(c)
      <4>1. Return(c, NoFd) /\ open' \subseteq Fds
        BY <3>7, <3>8 DEF SocketFails, BindFails, ListenFails, Fail
      <4> QED
        BY <3>7, <4>1, ReturnKeeps
    <3>9. CASE BindUdp(c) \/ Listen(c) \/ Connected(c)
      <4>1. Return(c, fd[c]) /\ open' \subseteq Fds
        BY <3>7, <3>9 DEF BindUdp, Listen, Connected
      <4> QED
        BY <3>7, <4>1, ReturnKeeps
    <3>10. ASSUME NEW async \in BOOLEAN, NEW err \in Errnos, ConnectFails(c, async, err)
           PROVE  CallInv'
      <4>1. open' \subseteq Fds /\ (Return(c, NoFd) \/ Return(c, fd[c]))
        BY <3>7, <3>10 DEF ConnectFails, Fail
      <4> QED
        BY <3>7, <4>1, ReturnKeeps
    <3> QED
      BY <2>8, <3>1, <3>2, <3>3, <3>4, <3>5, <3>6, <3>8, <3>9, <3>10 DEF InCall
  <2>9. CASE UNCHANGED sockVars
    BY <2>9 DEF sockVars, StrongType, CallState, HasFd
  <2> QED
    BY <2>1, <2>2, <2>3, <2>4, <2>5, <2>6, <2>8, <2>9 DEF SockNext, Begin
<1> QED
  BY <1>1, <1>2, PTL DEF SockSpec

\* The variables keep their types.
THEOREM CallsTyped == SockSpec => []SockTypeOK
<1>1. CallInv => SockTypeOK
  BY DEF CallInv, StrongType, SockTypeOK, Item
<1> QED
  BY <1>1, CallTyping, PTL

-----------------------------------------------------------------------------
\* A call that returns its descriptor, or has closed it, or has none to close.
LEMMA ReturnLeaksNothing ==
  ASSUME CallInv, NoFdLeak, NEW c \in Callers, pc[c] # "out",
         \/ Return(c, fd[c]) /\ open' = open
         \/ Return(c, NoFd) /\ open' = open \ {fd[c]}
         \/ Return(c, NoFd) /\ open' = open /\ fd[c] = NoFd
  PROVE  NoFdLeak'
<1>1. fd \in [Callers -> Fds \cup {NoFd}] /\ open \subseteq Fds
  BY DEF CallInv, StrongType
<1>2. fd' = [fd EXCEPT ![c] = NoFd]
  BY DEF Return
<1>3. CASE Return(c, fd[c]) /\ open' = open
  <2>1. owned' = owned \cup ({fd[c]} \ {NoFd})
    BY <1>3 DEF Return
  <2> QED
    BY <1>1, <1>2, <1>3, <2>1 DEF NoFdLeak
<1>4. CASE Return(c, NoFd) /\ (open' = open \ {fd[c]} \/ (open' = open /\ fd[c] = NoFd))
  <2>1. owned' = owned
    BY <1>4 DEF Return
  <2>2. open' = open \ {fd[c]}
    BY <1>1, <1>4, FdAssumption
  <2> QED
    BY <1>1, <1>2, <2>1, <2>2, FdAssumption DEF NoFdLeak
<1> QED
  BY <1>3, <1>4

\* Whichever step of a call fails, what it has opened is closed or returned, once
\* (SockUtil.cc:14-19, 177-189, 213-216, 240-263).
THEOREM NothingLeaks == SockSpec => []NoFdLeak
<1>1. SockInit => NoFdLeak
  BY DEF SockInit, NoFdLeak
<1>2. CallInv /\ NoFdLeak /\ [SockNext]_sockVars => NoFdLeak'
  <2> SUFFICES ASSUME CallInv, NoFdLeak, [SockNext]_sockVars PROVE NoFdLeak'
    OBVIOUS
  <2>0. fd \in [Callers -> Fds \cup {NoFd}] /\ open \subseteq Fds /\ owned \subseteq open
    BY DEF CallInv, StrongType, NoFdLeak
  <2> USE DEF fdVars, callVars, dnsVars, worldVars
  <2>1. ASSUME UNCHANGED <<fd, open, owned>> PROVE NoFdLeak'
    BY <2>1 DEF NoFdLeak
  <2>2. ASSUME NEW f \in Fds, Close(f) PROVE NoFdLeak'
    BY <2>0, <2>2 DEF Close, NoFdLeak
  <2>3. ASSUME NEW c \in Callers, NEW f \in Fds, Accept(c, f) PROVE NoFdLeak'
    BY <2>0, <2>3 DEF Accept, NoFdLeak
  <2>4. ASSUME NEW c \in Callers, NEW f \in Fds, Socket(c, f) PROVE NoFdLeak'
    <3>1. fd[c] = NoFd /\ f # NoFd /\ f \notin open
      BY <2>4, FdAssumption DEF Socket, CallInv, CallState, HasFd
    <3>2. open' = open \cup {f} /\ fd' = [fd EXCEPT ![c] = f] /\ owned' = owned
      BY <2>4 DEF Socket
    <3>3. \A d \in Callers : fd[d] # f
      BY <2>0, <3>1 DEF NoFdLeak
    <3>4. {fd'[d] : d \in Callers} \ {NoFd} = ({fd[d] : d \in Callers} \ {NoFd}) \cup {f}
      BY <2>0, <3>1, <3>2
    <3>5. \A d, e \in Callers : fd'[d] = fd'[e] /\ fd'[d] # NoFd => d = e
      BY <2>0, <3>1, <3>2, <3>3 DEF NoFdLeak
    <3> QED
      BY <2>0, <3>1, <3>2, <3>4, <3>5 DEF NoFdLeak
  <2>5. ASSUME NEW c \in Callers, InCall(c) PROVE NoFdLeak'
    <3>1. CASE Cached(c) \/ Resolve(c) \/ SetCacheDomainIP(c) \/ BindSock(c)
               \/ \E f \in {0, 4, 6} : ResolveFails(c, f)
      BY <2>1, <3>1 DEF Cached, Resolve, SetCacheDomainIP, BindSock, ResolveFails
    <3>2. CASE \E f \in Fds : Socket(c, f)
      BY <2>4, <3>2
    <3>3. CASE SocketFails(c)
      <4>1. fd[c] = NoFd
        BY <3>3 DEF SocketFails, CallInv, CallState, HasFd
      <4> QED
        BY <3>3, <4>1, ReturnLeaksNothing DEF SocketFails
    <3>4. CASE BindFails(c) \/ ListenFails(c) \/ BindUdp(c) \/ Listen(c) \/ Connected(c)
      BY <3>4, ReturnLeaksNothing DEF BindFails, ListenFails, BindUdp, Listen, Connected, Fail
    <3>5. CASE \E async \in BOOLEAN, err \in Errnos : ConnectFails(c, async, err)
      BY <3>5, ReturnLeaksNothing DEF ConnectFails, Fail
    <3> QED
      BY <2>5, <3>1, <3>2, <3>3, <3>4, <3>5 DEF InCall
  <2>6. ASSUME NEW c \in Callers, Begin(c) PROVE NoFdLeak'
    BY <2>1, <2>3, <2>6 DEF Begin, Serve, Connect
  <2>7. CASE Tick \/ (\E n \in Names : Change(n)) \/ UNCHANGED sockVars
    BY <2>1, <2>7 DEF Tick, Change, sockVars
  <2> QED
    BY <2>2, <2>5, <2>6, <2>7 DEF SockNext
<1> QED
  BY <1>1, <1>2, CallTyping, PTL DEF SockSpec

-----------------------------------------------------------------------------
\* What getDomainIP gives is recent: when an answer is stored it is as old as the lookup
\* at most, and when it is used from the cache at most the expiry older
\* (SockUtil.cc:460-466, 482-503).
THEOREM AnswersAreRecent == SockSpec => []AddressIsRecent
<1> USE DEF RecentInv
<1>1. SockInit => RecentInv
  BY AnswerAssumption DEF SockInit, RecentInv, Current, AnswerWasRight, ItemWasRight,
     AddressIsRecent, NoItem
<1>2. CallInv /\ RecentInv /\ [SockNext]_sockVars => RecentInv'
  <2> SUFFICES ASSUME CallInv, RecentInv, [SockNext]_sockVars PROVE RecentInv'
    OBVIOUS
  <2> USE TimeAssumption DEF Goto, fdVars, callVars, dnsVars, worldVars
  <2>0. /\ StrongType /\ CallState /\ now \in Nat /\ MaxLookup \in Nat /\ MaxNow \in Nat
        /\ \A n \in Names : \A v \in Versions : until[n][v] \in Nat
        /\ \A c \in Callers : foundAt[c] \in Nat /\ asked[c] \in Nat
        /\ \A n \in Names : cache[n].created \in Nat /\ cache[n].version \in Versions \cup {0}
        /\ \A c \in Callers : op[c].name = "connect" => op[c].expire \in Nat
    <3>1. \A c \in Callers : op[c].name = "connect" => op[c].expire \in Expires
      BY DEF CallInv, StrongType, Operation
    <3>2. \A c \in Callers : op[c].name = "connect" => op[c].expire \in Nat
      BY <3>1
    <3>3. \A n \in Names : cache[n].created \in Nat /\ cache[n].version \in Versions \cup {0}
      BY DEF CallInv, StrongType, Item
    <3>4. \A n \in Names : \A v \in Versions : until[n][v] \in Nat
      BY DEF CallInv, StrongType
    <3>5. \A c \in Callers : foundAt[c] \in Nat /\ asked[c] \in Nat
      BY DEF CallInv, StrongType
    <3>6. StrongType /\ CallState /\ now \in Nat /\ MaxLookup \in Nat /\ MaxNow \in Nat
      BY DEF CallInv, StrongType
    <3> QED
      BY <3>2, <3>3, <3>4, <3>5, <3>6
\* Steps that leave addresses, cache and time alone.
  <2>1. ASSUME UNCHANGED <<dnsVars, worldVars>>, NEW c \in Callers,
               \A d \in Callers \ {c} : op'[d] = op[d] /\ pc'[d] = pc[d],
               pc'[c] # "store",
               (op'[c].name = "connect" /\ pc'[c] \in {"socket", "bind", "connect"}) =>
                   found[c] = 0 \/ (op'[c] = op[c] /\ pc[c] \in {"socket", "bind", "connect"})
        PROVE  RecentInv'
    BY <2>1 DEF Current, AnswerWasRight, ItemWasRight, AddressIsRecent
  <2>2. CASE UNCHANGED <<pc, op, dnsVars, worldVars>>
    BY <2>2 DEF Current, AnswerWasRight, ItemWasRight, AddressIsRecent
  <2>3. CASE Tick
    <3>1. /\ now' = now + 1 /\ UNCHANGED <<callVars, dnsVars, zone, until>>
          /\ \A c \in Callers : pc[c] = "store" => now - asked[c] < MaxLookup
      BY <2>3 DEF Tick
    <3>2. Current' /\ ItemWasRight' /\ AddressIsRecent'
      BY <3>1 DEF Current, ItemWasRight, AddressIsRecent
    <3>3. AnswerWasRight'
      BY <2>0, <3>1 DEF AnswerWasRight
    <3> QED
      BY <3>2, <3>3
  <2>4. ASSUME NEW n \in Names, Change(n) PROVE RecentInv'
    <3>1. /\ zone[n] \in Versions /\ zone' = [zone EXCEPT ![n] = @ + 1]
          /\ until' = [until EXCEPT ![n][zone[n]] = now]
          /\ UNCHANGED <<callVars, dnsVars, now>>
      BY <2>0, <2>4 DEF Change, StrongType
    <3>2. \A m \in Names : \A v \in Versions :
             /\ m = n /\ v = zone[n] => until'[m][v] = now
             /\ ~(m = n /\ v = zone[n]) => until'[m][v] = until[m][v]
      BY <2>0, <3>1 DEF StrongType
    <3>3. Current'
      <4> SUFFICES ASSUME NEW m \in Names, NEW v \in Versions, v >= zone'[m]
                   PROVE  until'[m][v] = MaxNow
        BY DEF Current
      <4>1. v >= zone[m] /\ ~(m = n /\ v = zone[n])
        BY <2>0, <3>1 DEF StrongType, Versions
      <4> QED
        BY <3>2, <4>1 DEF Current
    <3>4. AnswerWasRight'
      <4> SUFFICES ASSUME NEW c \in Callers, pc[c] = "store"
                   PROVE  asked[c] <= until'[op[c].host][found[c]]
        BY <3>1 DEF AnswerWasRight
      <4>1. op[c].host \in Names /\ found[c] \in Versions /\ asked[c] <= now
        BY <2>0 DEF CallState, StrongType, AnswerWasRight
      <4> QED
        BY <3>2, <4>1 DEF AnswerWasRight
    <3>5. ItemWasRight'
      <4> SUFFICES ASSUME NEW m \in Names, cache[m].version # 0
                   PROVE  cache[m].created - until'[m][cache[m].version] <= MaxLookup
        BY <3>1 DEF ItemWasRight
      <4>1. cache[m].version \in Versions /\ cache[m].created <= now
        BY <2>0 DEF StrongType
      <4> QED
        BY <2>0, <3>2, <4>1 DEF ItemWasRight
    <3>6. AddressIsRecent'
      <4> SUFFICES ASSUME NEW c \in Callers, op[c].name = "connect", found[c] # 0,
                          pc[c] \in {"socket", "bind", "connect"}
                   PROVE  foundAt[c] - until'[op[c].host][found[c]] <= op[c].expire + MaxLookup
        BY <3>1 DEF AddressIsRecent
      <4>1. op[c].host \in Names /\ found[c] \in Versions /\ foundAt[c] <= now
        BY <2>0 DEF CallState, StrongType
      <4> QED
        BY <2>0, <3>2, <4>1 DEF AddressIsRecent
    <3> QED
      BY <3>3, <3>4, <3>5, <3>6
  <2>5. ASSUME NEW c \in Callers, Begin(c) PROVE RecentInv'
    <3>1. ASSUME NEW name \in {"listen", "bindUdpSocket"}, NEW isIpv4 \in BOOLEAN,
                 NEW kernel \in BOOLEAN, Serve(c, name, isIpv4, kernel)
          PROVE  RecentInv'
      BY <2>0, <2>1, <3>1 DEF Serve, StrongType
    <3>2. ASSUME NEW host \in Names \cup {Literal}, NEW e \in Expires,
                 NEW f \in {4, 6}, Connect(c, host, e, f)
          PROVE  RecentInv'
      <4>1. found[c] = 0
        BY <2>0, <3>2 DEF Connect, CallState
      <4> QED
        BY <2>0, <2>1, <3>2, <4>1 DEF Connect, StrongType
    <3>3. ASSUME NEW f \in Fds, Accept(c, f) PROVE RecentInv'
      BY <2>2, <3>3 DEF Accept
    <3> QED
      BY <2>5, <3>1, <3>2, <3>3 DEF Begin
\* getDomainIP has an address, from the cache or from the name service.
  <2>6. ASSUME NEW c \in Callers, NEW v \in Versions, Found(c, v),
               op[c].name = "connect", op[c].host \in Names,
               UNCHANGED <<op, asked, worldVars>>,
               now - until[op[c].host][v] <= op[c].expire + MaxLookup,
               ItemWasRight'
        PROVE  RecentInv'
    <3>1. /\ found' = [found EXCEPT ![c] = v] /\ foundAt' = [foundAt EXCEPT ![c] = now]
          /\ pc' = [pc EXCEPT ![c] = "socket"]
      BY <2>6 DEF Found
    <3>2. Current'
      BY <2>6 DEF Current
    <3>3. AnswerWasRight'
      BY <2>0, <2>6, <3>1 DEF AnswerWasRight, StrongType
    <3>4. AddressIsRecent'
      <4> SUFFICES ASSUME NEW d \in Callers, op[d].name = "connect", found'[d] # 0,
                          pc'[d] \in {"socket", "bind", "connect"}
                   PROVE  foundAt'[d] - until[op[d].host][found'[d]] <= op[d].expire + MaxLookup
        BY <2>6 DEF AddressIsRecent
      <4>1. CASE d = c
        BY <2>0, <2>6, <3>1, <4>1 DEF StrongType
      <4>2. CASE d # c
        BY <2>0, <3>1, <4>2 DEF AddressIsRecent, StrongType
      <4> QED
        BY <4>1, <4>2
    <3> QED
      BY <2>6, <3>2, <3>3, <3>4
  <2>7. ASSUME NEW c \in Callers, InCall(c) PROVE RecentInv'
    <3>1. CASE Cached(c)
      <4> DEFINE n == op[c].host
      <4>1. /\ pc[c] = "cached" /\ n \in Names /\ op[c].name = "connect"
            /\ GetCacheDomainIP(c, n) /\ UNCHANGED <<op, asked, worldVars>>
        BY <2>0, <3>1 DEF Cached, CallState
      <4>2. CASE cache[n].version # 0 /\ ~Expired(cache[n], op[c].expire)
        <5>1. cache[n].version \in Versions /\ Found(c, cache[n].version) /\ cache' = cache
          BY <2>0, <4>1, <4>2 DEF GetCacheDomainIP
        <5>2. now <= cache[n].created + op[c].expire
          BY <2>0, <4>1, <4>2 DEF Expired
        <5>3. cache[n].created - until[n][cache[n].version] <= MaxLookup
          BY <4>1, <4>2 DEF ItemWasRight
        <5>4. now - until[n][cache[n].version] <= op[c].expire + MaxLookup
          BY <2>0, <4>1, <5>1, <5>2, <5>3
        <5>5. ItemWasRight'
          BY <4>1, <5>1 DEF ItemWasRight
        <5> QED
          BY <2>6, <4>1, <5>1, <5>4, <5>5
      <4>3. CASE ~(cache[n].version # 0 /\ ~Expired(cache[n], op[c].expire))
        <5>1. /\ pc' = [pc EXCEPT ![c] = "resolve"] /\ cache' = [cache EXCEPT ![n] = NoItem]
              /\ UNCHANGED <<found, foundAt, op, asked, worldVars>>
          BY <4>1, <4>3 DEF GetCacheDomainIP
        <5>2. Current' /\ AnswerWasRight' /\ AddressIsRecent'
          BY <2>0, <5>1 DEF Current, AnswerWasRight, AddressIsRecent, StrongType
        <5>3. ItemWasRight'
          BY <2>0, <4>1, <5>1 DEF ItemWasRight, StrongType, NoItem
        <5> QED
          BY <5>2, <5>3
      <4> QED
        BY <4>2, <4>3
    <3>2. CASE Resolve(c)
      <4> DEFINE n == op[c].host
      <4>1. /\ n \in Names /\ op[c].name = "connect" /\ pc' = [pc EXCEPT ![c] = "store"]
            /\ found' = [found EXCEPT ![c] = zone[n]] /\ asked' = [asked EXCEPT ![c] = now]
            /\ UNCHANGED <<op, foundAt, cache, worldVars>>
        BY <2>0, <3>2 DEF Resolve, CallState
      <4>2. until[n][zone[n]] = MaxNow /\ now <= MaxNow
        BY <2>0, <4>1 DEF Current, StrongType, Versions
      <4>3. Current' /\ ItemWasRight' /\ AddressIsRecent'
        BY <2>0, <4>1 DEF Current, ItemWasRight, AddressIsRecent, StrongType
      <4>4. AnswerWasRight'
        BY <2>0, <4>1, <4>2 DEF AnswerWasRight, StrongType
      <4> QED
        BY <4>3, <4>4
    <3>3. CASE SetCacheDomainIP(c)
      <4> DEFINE n == op[c].host
                 i == [version |-> found[c], created |-> now]
      <4>1. /\ pc[c] = "store" /\ n \in Names /\ op[c].name = "connect" /\ found[c] \in Versions
            /\ Found(c, found[c]) /\ cache' = [cache EXCEPT ![n] = i]
            /\ UNCHANGED <<op, asked, worldVars>>
        BY <2>0, <3>3 DEF SetCacheDomainIP, CallState, StrongType
      <4>2. now - until[n][found[c]] <= MaxLookup
        BY <2>0, <4>1 DEF AnswerWasRight
      <4>3. ItemWasRight'
        <5> SUFFICES ASSUME NEW m \in Names, cache'[m].version # 0
                     PROVE  cache'[m].created - until[m][cache'[m].version] <= MaxLookup
          BY <4>1 DEF ItemWasRight
        <5>1. CASE m = n
          BY <2>0, <4>1, <4>2, <5>1 DEF StrongType
        <5>2. CASE m # n
          BY <2>0, <4>1, <5>2 DEF StrongType, ItemWasRight
        <5> QED
          BY <5>1, <5>2
      <4>4. now - until[n][found[c]] <= op[c].expire + MaxLookup
        BY <2>0, <4>1, <4>2
      <4> QED
        BY <2>6, <4>1, <4>3, <4>4
    <3>4. ASSUME NEW f \in {0, 4, 6}, ResolveFails(c, f) PROVE RecentInv'
      <4>1. found[c] = 0
        BY <2>0, <3>4 DEF ResolveFails, CallState
      <4> QED
        BY <2>0, <2>1, <3>4, <4>1 DEF ResolveFails, StrongType
    <3>5. ASSUME NEW f \in Fds, Socket(c, f) PROVE RecentInv'
      BY <2>0, <2>1, <3>5 DEF Socket, StrongType
    <3>6. CASE BindSock(c)
      <4>1. pc'[c] \in {"listen", "connect"}
        BY <2>0, <3>6 DEF BindSock, StrongType, Operation, CallState
      <4> QED
        BY <2>0, <2>1, <3>6, <4>1 DEF BindSock, StrongType
    <3>7. ASSUME NEW f, Return(c, f) PROVE RecentInv'
      <4>1. /\ pc' = [pc EXCEPT ![c] = "out"] /\ op' = [op EXCEPT ![c] = NoOp]
            /\ found' = [found EXCEPT ![c] = 0] /\ foundAt' = [foundAt EXCEPT ![c] = 0]
            /\ asked' = [asked EXCEPT ![c] = 0] /\ UNCHANGED <<cache, worldVars>>
        BY <3>7 DEF Return
      <4>2. Current' /\ ItemWasRight'
        BY <4>1 DEF Current, ItemWasRight
      <4>3. AnswerWasRight' /\ AddressIsRecent'
        BY <2>0, <4>1 DEF AnswerWasRight, AddressIsRecent, StrongType
      <4> QED
        BY <4>2, <4>3
    <3>8. CASE \/ SocketFails(c) \/ BindFails(c) \/ ListenFails(c)
               \/ BindUdp(c) \/ Listen(c) \/ Connected(c)
               \/ \E async \in BOOLEAN, err \in Errnos : ConnectFails(c, async, err)
      BY <3>7, <3>8 DEF SocketFails, BindFails, ListenFails, BindUdp, Listen, Connected,
                        ConnectFails, Fail
    <3> QED
      BY <2>7, <3>1, <3>2, <3>3, <3>4, <3>5, <3>6, <3>8 DEF InCall
  <2>8. CASE (\E f \in Fds : Close(f)) \/ UNCHANGED sockVars
    BY <2>2, <2>8 DEF Close, sockVars
  <2> QED
    BY <2>3, <2>4, <2>5, <2>7, <2>8 DEF SockNext
<1>3. RecentInv => AddressIsRecent
  OBVIOUS
<1> QED
  BY <1>1, <1>2, <1>3, CallTyping, PTL DEF SockSpec
=============================================================================
