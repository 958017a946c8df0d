------------------------------ MODULE SockUtil ------------------------------
(***************************************************************************)
(* The helpers that make sockets (network/SockUtil.cc): listen,            *)
(* bindUdpSocket, connect and accept run in several threads; connect first *)
(* asks the DNS cache for the address of a host.  A call is a chain of     *)
(* system calls each of which may fail.                                    *)
(*                                                                         *)
(* The kernel (descriptors, bind, connect) and the name service are        *)
(* external: a name has a sequence of versions of its list of addresses,   *)
(* of which the model keeps the families.  The setters of socket options   *)
(* are left out: their callers ignore the results.                         *)
(***************************************************************************)
EXTENDS Integers, Sequences

CONSTANTS Callers,      \* threads
          Fds,          \* descriptors the process may have
          NoFd,
          Names,        \* host names that are not literal addresses
          Literal,      \* a host that is a literal address
          Answers,      \* families of the addresses, for each version of a name
          Expires,      \* values of dnsCacheExpiredSeconds
          MaxLookup,    \* assumption: seconds from the answer to setCacheDomainIP
          MaxNow        \* bound of the model: seconds

ASSUME FdAssumption == NoFd \notin Fds /\ Literal \notin Names
ASSUME TimeAssumption == /\ Expires \subseteq Nat
                         /\ MaxLookup \in Nat /\ MaxNow \in Nat
ASSUME AnswerAssumption == Answers \in Seq(Seq({4, 6}) \ {<<>>}) /\ Answers # <<>>

Versions == 1..Len(Answers)
NoItem == [version |-> 0, created |-> 0]

VARIABLES
    open,               \* kernel: descriptors that are open
    owned,              \* descriptors that were returned and not closed since
    ipv6,               \* flag of support_ipv6, "unknown" before its first call
    pc,                 \* where each thread is
    op,                 \* the function it is in, [name, host, expire] for connect
    fd,                 \* the descriptor that is a local variable of it
    family,             \* the family of the socket it makes
    found,              \* the version of the address it has, 0 for none
    foundAt,            \* when getDomainIP returned
    asked,              \* when the name service answered
    cache,              \* _dns_cache
    zone,               \* the current version of each name
    until,              \* history: when each version ceased to be current
    now                 \* time(nullptr)

fdVars   == <<open, owned>>
callVars == <<pc, op, fd, family>>
dnsVars  == <<found, foundAt, asked, cache>>
worldVars == <<zone, until, now>>
sockVars == <<fdVars, ipv6, callVars, dnsVars, worldVars>>

NoOp == [name |-> "none"]

SockInit ==
    /\ open = {} /\ owned = {} /\ ipv6 = "unknown"
    /\ pc = [c \in Callers |-> "out"] /\ op = [c \in Callers |-> NoOp]
    /\ fd = [c \in Callers |-> NoFd] /\ family = [c \in Callers |-> 0]
    /\ found = [c \in Callers |-> 0] /\ foundAt = [c \in Callers |-> 0]
    /\ asked = [c \in Callers |-> 0]
    /\ cache = [n \in Names |-> NoItem]
    /\ zone = [n \in Names |-> 1]
    /\ until = [n \in Names |-> [v \in Versions |-> MaxNow]]
    /\ now = 0

Goto(c, l) == pc' = [pc EXCEPT ![c] = l]

-----------------------------------------------------------------------------
(* The name service and the clock. *)

Change(n) ==
    /\ zone[n] < Len(Answers)
    /\ zone' = [zone EXCEPT ![n] = @ + 1]
    /\ until' = [until EXCEPT ![n][zone[n]] = now]
    /\ UNCHANGED <<fdVars, ipv6, callVars, dnsVars, now>>

\* Seconds of time(nullptr), the system time.  An assumption: nobody sets it back while the
\* program runs, which would let an item live longer by as much.
Tick ==
    /\ now < MaxNow /\ now' = now + 1
    /\ \A c \in Callers : pc[c] = "store" => now - asked[c] < MaxLookup
    /\ UNCHANGED <<fdVars, ipv6, callVars, dnsVars, zone, until>>

-----------------------------------------------------------------------------
(* A call begins: listen and bindUdpSocket choose the family by the local address, *)
(* connect by the address of the host.                                             *)

\* support_ipv6_l opens a socket to see; a full table of descriptors counts as no,
\* and the answer is kept for good.
SupportIpv6(kernel) == IF ipv6 = "unknown" THEN kernel /\ open # Fds ELSE ipv6 = "yes"

LocalFamily(isIpv4, kernel) == IF SupportIpv6(kernel) /\ ~isIpv4 THEN 6 ELSE 4

Serve(c, name, isIpv4, kernel) ==
    /\ pc[c] = "out"
    /\ op' = [op EXCEPT ![c] = [name |-> name]]
    /\ ipv6' = IF SupportIpv6(kernel) THEN "yes" ELSE "no"
    /\ family' = [family EXCEPT ![c] = LocalFamily(isIpv4, kernel)]
    /\ Goto(c, "socket")
    /\ UNCHANGED <<fdVars, fd, dnsVars, worldVars>>

\* connect of a literal address makes the address itself, of any other goes to the cache.
Connect(c, host, e, f) ==
    /\ pc[c] = "out"
    /\ op' = [op EXCEPT ![c] = [name |-> "connect", host |-> host, expire |-> e]]
    /\ family' = [family EXCEPT ![c] = IF host = Literal THEN f ELSE 0]
    /\ Goto(c, IF host = Literal THEN "socket" ELSE "cached")
    /\ UNCHANGED <<fdVars, ipv6, fd, dnsVars, worldVars>>

-----------------------------------------------------------------------------
(* getDomainIP *)

\* An address of the family that connect asks for, else the first.
PreferredAddress(answer) == IF \E i \in 1..Len(answer) : answer[i] = 4 THEN 4 ELSE answer[1]

\* getDomainIP has an address; it returns false all the same, and connect goes on.
Found(c, v) ==
    /\ found' = [found EXCEPT ![c] = v]
    /\ foundAt' = [foundAt EXCEPT ![c] = now]
    /\ family' = [family EXCEPT ![c] = PreferredAddress(Answers[v])]
    /\ Goto(c, "socket")

Expired(item, e) == item.created + e < now

\* Mutant: an item that is used is renewed.
GetAndRenew(c, n) ==
    LET item == cache[n] IN
    IF item.version # 0 /\ ~Expired(item, op[c].expire)
    THEN /\ Found(c, item.version)
         /\ cache' = [cache EXCEPT ![n].created = now]
    ELSE /\ Goto(c, "resolve") /\ cache' = [cache EXCEPT ![n] = NoItem]
         /\ UNCHANGED <<found, foundAt, family>>

\* getCacheDomainIP: an item that is too old for this caller is erased.
GetCacheDomainIP(c, n) ==
    LET item == cache[n] IN
    IF item.version # 0 /\ ~Expired(item, op[c].expire)
    THEN Found(c, item.version) /\ UNCHANGED cache
    ELSE /\ Goto(c, "resolve") /\ cache' = [cache EXCEPT ![n] = NoItem]
         /\ UNCHANGED <<found, foundAt, family>>

Cached(c) ==
    /\ pc[c] = "cached"
    /\ GetCacheDomainIP(c, op[c].host)
    /\ UNCHANGED <<fdVars, ipv6, op, fd, asked, worldVars>>

\* getSystemDomainIP, without the lock: the answer is that of a moment of the call.
Resolve(c) ==
    /\ pc[c] = "resolve"
    /\ found' = [found EXCEPT ![c] = zone[op[c].host]]
    /\ asked' = [asked EXCEPT ![c] = now]
    /\ Goto(c, "store")
    /\ UNCHANGED <<fdVars, ipv6, op, fd, family, foundAt, cache, worldVars>>

\* It fails: the sockaddr_storage of connect stays uninitialised and is used.
ResolveFails(c, f) ==
    /\ pc[c] = "resolve"
    /\ family' = [family EXCEPT ![c] = f]
    /\ Goto(c, "socket")
    /\ UNCHANGED <<fdVars, ipv6, op, fd, dnsVars, worldVars>>

\* The lock is taken again and the answer stored, also over a newer one.
SetCacheDomainIP(c) ==
    /\ pc[c] = "store"
    /\ cache' = [cache EXCEPT ![op[c].host] = [version |-> found[c], created |-> now]]
    /\ Found(c, found[c])
    /\ UNCHANGED <<fdVars, ipv6, op, fd, asked, worldVars>>

-----------------------------------------------------------------------------
(* The chain of system calls. *)

\* The call ends and gives its caller a descriptor, or NoFd.
Return(c, f) ==
    /\ Goto(c, "out")
    /\ owned' = owned \cup ({f} \ {NoFd})
    /\ fd' = [fd EXCEPT ![c] = NoFd]
    /\ op' = [op EXCEPT ![c] = NoOp] /\ family' = [family EXCEPT ![c] = 0]
    /\ found' = [found EXCEPT ![c] = 0] /\ foundAt' = [foundAt EXCEPT ![c] = 0]
    /\ asked' = [asked EXCEPT ![c] = 0]
    /\ UNCHANGED <<ipv6, cache, worldVars>>

\* Mutant: -1 is returned with the socket open.
FailOpen(c) == Return(c, NoFd) /\ UNCHANGED open

\* CLOSE_FD, and -1 is returned.
Fail(c) == Return(c, NoFd) /\ open' = open \ {fd[c]}

Socket(c, f) ==
    /\ pc[c] = "socket" /\ f \in Fds \ open /\ family[c] \in {4, 6}
    /\ open' = open \cup {f} /\ fd' = [fd EXCEPT ![c] = f]
    /\ Goto(c, "bind")
    /\ UNCHANGED <<owned, ipv6, op, family, dnsVars, worldVars>>

SocketFails(c) == pc[c] = "socket" /\ Return(c, NoFd) /\ UNCHANGED open

\* bindSocket4 or bindSocket6; what is not an address of the family binds to any.
BindSock(c) ==
    /\ pc[c] = "bind" /\ op[c].name # "bindUdpSocket"
    /\ Goto(c, op[c].name)
    /\ UNCHANGED <<fdVars, ipv6, op, fd, family, dnsVars, worldVars>>

BindFails(c) == pc[c] = "bind" /\ Fail(c)

\* bindUdpSocket ends with its bind.
BindUdp(c) ==
    /\ pc[c] = "bind" /\ op[c].name = "bindUdpSocket"
    /\ Return(c, fd[c]) /\ UNCHANGED open

Listen(c) == pc[c] = "listen" /\ Return(c, fd[c]) /\ UNCHANGED open

ListenFails(c) == pc[c] = "listen" /\ Fail(c)

Connected(c) == pc[c] = "connect" /\ Return(c, fd[c]) /\ UNCHANGED open

Errnos == {"EAGAIN", "EWOULDBLOCK", "EINPROGRESS", "ENOBUFS", "ECONNREFUSED"}

\* uv_translate_posix_error makes one error of all that say "not yet".
TranslatePosixError(err) ==
    IF err \in {"ENOBUFS", "EINPROGRESS", "EWOULDBLOCK"} THEN "EAGAIN" ELSE err

\* connect(2) fails with an error: with async a connection under way is returned.
ConnectFails(c, async, err) ==
    /\ pc[c] = "connect"
    /\ IF async /\ TranslatePosixError(err) = "EAGAIN"
       THEN Return(c, fd[c]) /\ UNCHANGED open
       ELSE Fail(c)

Accept(c, f) ==
    /\ pc[c] = "out" /\ owned # {} /\ f \in Fds \ open
    /\ open' = open \cup {f} /\ owned' = owned \cup {f}
    /\ UNCHANGED <<ipv6, callVars, dnsVars, worldVars>>

\* The owner of a descriptor closes it.
Close(f) ==
    /\ f \in owned
    /\ open' = open \ {f} /\ owned' = owned \ {f}
    /\ UNCHANGED <<ipv6, callVars, dnsVars, worldVars>>

-----------------------------------------------------------------------------
InCall(c) ==
    \/ Cached(c) \/ Resolve(c) \/ SetCacheDomainIP(c)
    \/ \E f \in {0, 4, 6} : ResolveFails(c, f)
    \/ \E f \in Fds : Socket(c, f)
    \/ SocketFails(c) \/ BindSock(c) \/ BindFails(c) \/ BindUdp(c)
    \/ Listen(c) \/ ListenFails(c) \/ Connected(c)
    \/ \E async \in BOOLEAN, err \in Errnos : ConnectFails(c, async, err)

Begin(c) ==
    \/ \E name \in {"listen", "bindUdpSocket"}, isIpv4, kernel \in BOOLEAN :
         Serve(c, name, isIpv4, kernel)
    \/ \E host \in Names \cup {Literal}, e \in Expires, f \in {4, 6} : Connect(c, host, e, f)
    \/ \E f \in Fds : Accept(c, f)

SockNext ==
    \/ Tick
    \/ \E n \in Names : Change(n)
    \/ \E f \in Fds : Close(f)
    \/ \E c \in Callers : InCall(c) \/ Begin(c)

SockSpec == SockInit /\ [][SockNext]_sockVars
-----------------------------------------------------------------------------
Points == {"out", "cached", "resolve", "store", "socket", "bind", "listen", "connect"}

SockTypeOK ==
    /\ open \subseteq Fds /\ owned \subseteq Fds
    /\ ipv6 \in {"unknown", "yes", "no"}
    /\ pc \in [Callers -> Points] /\ fd \in [Callers -> Fds \cup {NoFd}]
    /\ family \in [Callers -> {0, 4, 6}]
    /\ found \in [Callers -> Versions \cup {0}]
    /\ foundAt \in [Callers -> 0..MaxNow] /\ asked \in [Callers -> 0..MaxNow]
    /\ \A n \in Names : cache[n].version \in Versions \cup {0} /\ cache[n].created \in 0..now
    /\ zone \in [Names -> Versions] /\ now \in 0..MaxNow

\* No descriptor leaks and none is shared: what is open is the local variable of one
\* call or was returned by one, whichever step of a call fails and whoever gets the
\* number next (SockUtil.cc:14-19, 177-189, 213-216, 240-263).
NoFdLeak ==
    LET held == {fd[c] : c \in Callers} \ {NoFd} IN
    /\ open = owned \cup held /\ owned \cap held = {}
    /\ \A c, d \in Callers : fd[c] = fd[d] /\ fd[c] # NoFd => c = d

\* An address that getDomainIP gives was right a while ago at most: its caller's
\* expiry and the time a lookup takes, though threads look up without the lock,
\* put older answers over newer ones, and expire the items of one another by
\* different measures; the system time must not be set back meanwhile
\* (SockUtil.cc:460-466, 482-503).
AddressIsRecent ==
    \A c \in Callers :
        (op[c].name = "connect" /\ pc[c] \in {"socket", "bind", "connect"} /\ found[c] # 0)
            => foundAt[c] - until[op[c].host][found[c]] <= op[c].expire + MaxLookup
=============================================================================
