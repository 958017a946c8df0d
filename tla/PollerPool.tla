----------------------------- MODULE PollerPool -----------------------------
(***************************************************************************)
(* How a poller is chosen (poller/EventPollerPool.cc): the pool starts its *)
(* pollers; each of them is a ThreadLoadCounter (thread/                   *)
(* ThreadLoadCounter.cc) that its loop tells when it sleeps and wakes;     *)
(* getEventPoller compares their loads (thread/TaskExecutorGetter.cc) in   *)
(* whatever thread calls it.  Time is what the stamp thread of             *)
(* util/Util.cc publishes, from a system time that may be set at will.     *)
(***************************************************************************)
EXTENDS Integers, Sequences, SequencesExt

CONSTANTS Pollers,      \* as many as the hardware has threads
          Callers,      \* threads that call getEventPoller
          MaxCount,     \* max_size_, records kept
          MaxUsec,      \* max_usec_, the window of load()
          SizeT,        \* the values of a uint64_t: 2^w
          IntMax,       \* INT_MAX
          Second,       \* from here on an elapsed time is abnormal
          Walls,        \* values of the system time
          MaxTurns,     \* bound of the model: how often pollers sleep or wake
          MaxNow        \* bound of the model: the last stamp, far from the end of a uint64_t

ASSUME SizeAssumption == /\ {MaxCount, MaxUsec, SizeT, Second, IntMax, MaxTurns, MaxNow} \subseteq Nat
                         /\ IntMax >= 100
                         /\ Walls \subseteq 0..(SizeT - 1) /\ MaxUsec < SizeT
                         /\ 2 * MaxNow < SizeT

VARIABLES
    now,                \* s_currentMicrosecond
    last,               \* the system time the stamp thread saw last
    executors,          \* task_executors_
    turns,              \* how often pollers have begun to sleep or to wake
    waits,              \* pollers between onSleep and onWakeup
    due,                \* pollers that have read the time and come to their lock
    stamp,              \* onSleep, onWakeup: the time such a poller has read
    sleeping,           \* sleeping_ of each poller
    lastSleep,          \* last_sleep_time_
    lastWakeup,         \* last_wakeup_time_
    records,            \* time_records_, with the time each begins at
    pos,                \* pos_
    pc,                 \* where each caller is
    current,            \* load(): the time it has read
    index,              \* the executor whose load it takes
    preferred,          \* perferred
    minLoad,            \* minLoad, -1 before the first load
    least,              \* history: the least load of this call, and whose it was
    crossed,            \* history: how often the poller slept or woke since current
                        \* was read: never, once, or more often
    crashed             \* task_executors_ was indexed out of its range

clock   == <<now, last>>
counter == <<turns, waits, due, stamp, sleeping, lastSleep, lastWakeup, records>>
search  == <<pc, current, index, preferred, minLoad, least, crossed>>
vars == <<clock, executors, counter, pos, search, crashed>>

NoLoad == [load |-> -1, by |-> {}]

Init ==
    /\ now = 0 /\ last \in Walls
    /\ executors = <<>> /\ waits = {} /\ due = {} /\ turns = 0
    /\ stamp = [p \in Pollers |-> 0]
    /\ sleeping = [p \in Pollers |-> TRUE]
    /\ lastSleep = [p \in Pollers |-> 0] /\ lastWakeup = [p \in Pollers |-> 0]
    /\ records = [p \in Pollers |-> <<>>]
    /\ pos = 0 /\ crashed = FALSE
    /\ pc = [c \in Callers |-> "out"] /\ current = [c \in Callers |-> 0]
    /\ index = [c \in Callers |-> 0] /\ preferred = [c \in Callers |-> 0]
    /\ minLoad = [c \in Callers |-> -1] /\ least = [c \in Callers |-> NoLoad]
    /\ crossed = [c \in Callers |-> 0]

Ready == Range(executors) = Pollers

-----------------------------------------------------------------------------
(* The stamp thread, and the constructor of the pool. *)

\* Mutant: every elapsed time counts.
StampAlways(wall) ==
    LET elapse == (wall - last) % SizeT IN
    /\ last' = wall /\ now' = now + elapse

\* A system time that went back, or leapt, adds nothing.
Stamp(wall) ==
    LET elapse == (wall - last) % SizeT IN
    /\ last' = wall
    /\ now' = IF elapse \in 1..(Second - 1) THEN now + elapse ELSE now

Tick(wall) ==
    /\ now + Second <= MaxNow + 1 /\ Stamp(wall)
    /\ UNCHANGED <<executors, counter, pos, search, crashed>>

\* EventPoller::create, whose counter begins now, and runLoop.
AddEventPoller(p) ==
    /\ p \notin Range(executors)
    /\ executors' = Append(executors, p)
    /\ lastSleep' = [lastSleep EXCEPT ![p] = now]
    /\ lastWakeup' = [lastWakeup EXCEPT ![p] = now]
    /\ UNCHANGED <<clock, turns, waits, due, stamp, sleeping, records, pos, search, crashed>>

-----------------------------------------------------------------------------
(* The loop of a poller calls onSleep and onWakeup around epoll_wait. *)

\* Mutant: the newest record goes when there are too many.
KeepOldest(rs) == IF Len(rs) > MaxCount THEN Front(rs) ELSE rs

\* The oldest record goes when there are too many.
Keep(rs) == IF Len(rs) > MaxCount THEN Tail(rs) ELSE rs

\* The time is read before the lock is taken.
ReadStamp(p) ==
    /\ turns < MaxTurns /\ turns' = turns + 1
    /\ p \in Range(executors) \ due /\ due' = due \cup {p}
    /\ stamp' = [stamp EXCEPT ![p] = now]
    /\ UNCHANGED <<clock, executors, waits, sleeping, lastSleep, lastWakeup, records,
                   pos, search, crashed>>
ReadSleep(p) == p \notin waits /\ ReadStamp(p)
ReadWakeup(p) == p \in waits /\ ReadStamp(p)

\* Under the lock: a record of what it did since the transition before.
Account(p, slept, from) ==
    records' = IF sleeping[p] # slept THEN records
               ELSE [records EXCEPT ![p] = Keep(Append(@,
                        [sleep |-> slept, from |-> from, time |-> (stamp[p] - from) % SizeT]))]

\* Callers that have read the time and are about to lock the counter of p.
Cross(p) ==
    crossed' = [c \in Callers |->
        IF pc[c] = "lock" /\ executors[index[c]] = p /\ crossed[c] < 2
        THEN crossed[c] + 1 ELSE crossed[c]]

\* The poller comes from its lock.
Unlock(p) ==
    /\ p \in due /\ due' = due \ {p} /\ stamp' = [stamp EXCEPT ![p] = 0]
    /\ Cross(p)
    /\ UNCHANGED <<clock, executors, turns, pos, pc, current, index, preferred, minLoad,
                   least, crashed>>

OnSleep(p) ==
    /\ p \notin waits /\ waits' = waits \cup {p}
    /\ Account(p, FALSE, lastWakeup[p])
    /\ sleeping' = [sleeping EXCEPT ![p] = TRUE]
    /\ lastSleep' = [lastSleep EXCEPT ![p] = stamp[p]]
    /\ UNCHANGED lastWakeup
    /\ Unlock(p)

OnWakeup(p) ==
    /\ p \in waits /\ waits' = waits \ {p}
    /\ Account(p, TRUE, lastSleep[p])
    /\ sleeping' = [sleeping EXCEPT ![p] = FALSE]
    /\ lastWakeup' = [lastWakeup EXCEPT ![p] = stamp[p]]
    /\ UNCHANGED lastSleep
    /\ Unlock(p)

-----------------------------------------------------------------------------
(* load() of the executor a caller has come to. *)

\* The time is read before the lock is taken.
ReadTime(c) ==
    /\ pc[c] = "load"
    /\ current' = [current EXCEPT ![c] = now]
    /\ crossed' = [crossed EXCEPT ![c] = 0]
    /\ pc' = [pc EXCEPT ![c] = "lock"]
    /\ UNCHANGED <<clock, executors, counter, pos, index, preferred, minLoad, least, crashed>>

TimeOf(rs, kind) == FoldLeft(LAMBDA t, r : IF r.sleep = kind THEN t + r.time ELSE t, 0, rs)

\* Mutant: it counts from the last transition.
PendingFromLast(p, at) == (at - (IF sleeping[p] THEN lastSleep[p] ELSE lastWakeup[p])) % SizeT

\* The time that is in no record yet, from the time that was read; it counts from the
\* transition before the last one.
Pending(p, at) == (at - (IF sleeping[p] THEN lastWakeup[p] ELSE lastSleep[p])) % SizeT

\* The records that are left when the oldest k are dropped.
Left(p, k) == SubSeq(records[p], k + 1, Len(records[p]))

\* totalRuntime and totalTime, in unsigned arithmetic.
RunTime(p, at, k) ==
    (TimeOf(Left(p, k), FALSE) + IF sleeping[p] THEN 0 ELSE Pending(p, at)) % SizeT
Total(p, at, k) ==
    (TimeOf(Left(p, k), FALSE) + TimeOf(Left(p, k), TRUE) + Pending(p, at)) % SizeT

\* A quotient as an int: a float that is too great for one becomes the least int or the
\* greatest, as the processor has it.
AsInt(q) == IF q <= IntMax THEN {q} ELSE {-IntMax - 1, IntMax}

\* What load() makes of the counter of p and the time at: it drops the oldest records
\* until the rest fits the window.
Load(p, at) ==
    LET drop == CHOOSE k \in 0..Len(records[p]) :
                    /\ Total(p, at, k) <= MaxUsec \/ k = Len(records[p])
                    /\ \A j \in 0..(k - 1) : Total(p, at, j) > MaxUsec
    IN  [values |-> IF Total(p, at, drop) = 0 THEN {0}
                    ELSE AsInt((100 * RunTime(p, at, drop)) \div Total(p, at, drop)),
         left   |-> Left(p, drop)]

-----------------------------------------------------------------------------
(* getTaskExecutor *)

\* pos_ is brought into range, and read again.
Begin(c) ==
    /\ Ready /\ pc[c] = "out"
    /\ pos' = IF pos >= Len(executors) THEN 0 ELSE pos
    /\ pc' = [pc EXCEPT ![c] = "first"]
    /\ UNCHANGED <<clock, executors, counter, current, index, preferred, minLoad,
                   least, crossed, crashed>>

First(c) ==
    /\ pc[c] = "first"
    /\ crashed' = (pos >= Len(executors))
    /\ pc' = [pc EXCEPT ![c] = IF crashed' THEN "first" ELSE "load"]
    /\ index' = [index EXCEPT ![c] = pos + 1]
    /\ preferred' = [preferred EXCEPT ![c] = pos + 1]
    /\ UNCHANGED <<clock, executors, counter, pos, current, minLoad, least, crossed>>

\* pos_ is written without a lock: a write is lost if another caller writes too.
WritePos(c, v) ==
    \/ pos' = v
    \/ pos' = pos /\ \E d \in Callers \ {c} : pc[d] # "out"

\* The first load: 0 is good enough, else all the executors are asked.
Decide(c, v) ==
    /\ minLoad' = [minLoad EXCEPT ![c] = v]
    /\ UNCHANGED preferred
    /\ IF v = 0
       THEN WritePos(c, pos + 1) /\ pc' = [pc EXCEPT ![c] = "done"] /\ UNCHANGED index
       ELSE /\ pc' = [pc EXCEPT ![c] = "load"] /\ index' = [index EXCEPT ![c] = 1]
            /\ UNCHANGED pos

\* Mutant: the least load is not kept.
CompareToFirst(c, v) ==
    /\ IF v <= minLoad[c]
       THEN /\ preferred' = [preferred EXCEPT ![c] = index[c]]
            /\ UNCHANGED minLoad
            /\ WritePos(c, index[c] - 1)
       ELSE UNCHANGED <<minLoad, preferred, pos>>
    /\ IF index[c] = Len(executors)
       THEN pc' = [pc EXCEPT ![c] = "done"] /\ UNCHANGED index
       ELSE pc' = [pc EXCEPT ![c] = "load"] /\ index' = [index EXCEPT ![c] = @ + 1]

\* An executor of the loop: one that is no busier is preferred.
Compare(c, v) ==
    /\ IF v <= minLoad[c]
       THEN /\ minLoad' = [minLoad EXCEPT ![c] = v]
            /\ preferred' = [preferred EXCEPT ![c] = index[c]]
            /\ WritePos(c, index[c] - 1)
       ELSE UNCHANGED <<minLoad, preferred, pos>>
    /\ IF index[c] = Len(executors)
       THEN pc' = [pc EXCEPT ![c] = "done"] /\ UNCHANGED index
       ELSE pc' = [pc EXCEPT ![c] = "load"] /\ index' = [index EXCEPT ![c] = @ + 1]

\* The history of a call that has got load v of executor i.
Less(old, i, v) ==
    [load |-> IF old = NoLoad \/ v < old.load THEN v ELSE old.load,
     by   |-> IF v = old.load THEN old.by \cup {i}
              ELSE IF old = NoLoad \/ v < old.load THEN {i} ELSE old.by]

TakeLoad(c) ==
    /\ pc[c] = "lock"
    /\ LET p == executors[index[c]]
           load == Load(p, current[c]) IN
         /\ records' = [records EXCEPT ![p] = load.left]
         /\ \E v \in load.values :
              /\ least' = [least EXCEPT ![c] = Less(@, index[c], v)]
              /\ IF minLoad[c] = -1 THEN Decide(c, v) ELSE Compare(c, v)
    /\ crossed' = [crossed EXCEPT ![c] = 0] /\ current' = [current EXCEPT ![c] = 0]
    /\ UNCHANGED <<clock, executors, turns, waits, due, stamp, sleeping, lastSleep, lastWakeup,
                   crashed>>

\* The caller gets its poller.
Return(c) ==
    /\ pc[c] = "done"
    /\ pc' = [pc EXCEPT ![c] = "out"]
    /\ index' = [index EXCEPT ![c] = 0]
    /\ preferred' = [preferred EXCEPT ![c] = 0]
    /\ minLoad' = [minLoad EXCEPT ![c] = -1] /\ least' = [least EXCEPT ![c] = NoLoad]
    /\ UNCHANGED <<clock, executors, counter, pos, current, crossed, crashed>>

-----------------------------------------------------------------------------
Next ==
    /\ ~crashed
    /\ \/ \E wall \in Walls : Tick(wall)
       \/ \E p \in Pollers : \/ AddEventPoller(p)
                             \/ ReadSleep(p) \/ OnSleep(p) \/ ReadWakeup(p) \/ OnWakeup(p)
       \/ \E c \in Callers : Begin(c) \/ First(c) \/ ReadTime(c) \/ TakeLoad(c) \/ Return(c)

Spec == Init /\ [][Next]_vars
-----------------------------------------------------------------------------
Record == [sleep : BOOLEAN, from : 0..MaxNow, time : 0..MaxNow]

\* The values of load(): the least int comes from a sum that has wrapped around.
Loads == 0..IntMax \cup {-IntMax - 1}

TypeOK ==
    /\ now \in 0..MaxNow /\ last \in Walls
    /\ executors \in Seq(Pollers) /\ waits \subseteq Range(executors)
    /\ turns \in 0..MaxTurns /\ due \subseteq Range(executors)
    /\ stamp \in [Pollers -> 0..now]
    /\ sleeping \in [Pollers -> BOOLEAN]
    /\ lastSleep \in [Pollers -> 0..now] /\ lastWakeup \in [Pollers -> 0..now]
    /\ records \in [Pollers -> Seq(Record)]
    /\ pos \in Nat /\ crashed \in BOOLEAN
    /\ pc \in [Callers -> {"out", "first", "load", "lock", "done"}]
    /\ current \in [Callers -> 0..now] /\ crossed \in [Callers -> 0..2]
    /\ index \in [Callers -> Nat] /\ preferred \in [Callers -> Nat]
    /\ minLoad \in [Callers -> Loads \cup {-1}]
    /\ least \in [Callers -> [load : Loads \cup {-1}, by : SUBSET Nat]]

\* The records of a poller are one stretch of its past: sleep and run take turns, each
\* begins where the one before ended, the last ends at the last transition, and
\* there are no more than max_size_, though load() of other threads drops records
\* from the front (ThreadLoadCounter.cc:36-47, 72-82, 128-138).
RecordsTile ==
    \A p \in Pollers :
        LET rs == records[p] n == Len(rs) IN
        /\ n <= MaxCount
        /\ \A i \in 1..(n - 1) : /\ rs[i].sleep # rs[i + 1].sleep
                                 /\ rs[i].from + rs[i].time = rs[i + 1].from
        /\ n > 0 => rs[n].from + rs[n].time =
                        IF p \in waits THEN lastSleep[p] ELSE lastWakeup[p]

\* The poller that is chosen had the least of the loads the call has taken, though
\* other callers move pos_ and its own load changes meanwhile
\* (TaskExecutorGetter.cc:15-34).
LeastLoaded ==
    \A c \in Callers : pc[c] = "done" =>
        minLoad[c] = least[c].load /\ preferred[c] \in least[c].by

\* What a caller that has come to the lock may get.
LoadsAtLock(c) == Load(executors[index[c]], current[c]).values

\* A load is a percentage, though the time is read before the lock is taken, unless its
\* poller both slept and woke in between: the sums and the window loop do not wrap
\* around, and the int holds it (ThreadLoadCounter.cc:93-143).
PunctualLoad ==
    \A c \in Callers : pc[c] = "lock" /\ crossed[c] <= 1 => LoadsAtLock(c) \subseteq 0..100
=============================================================================
