-------------------------- MODULE Counters_proofs --------------------------
(***************************************************************************)
(* Proofs about the counters that threads share.  For PollerPool, with     *)
(* every number of pollers and callers, every size of the records and of   *)
(* the window: the records of a poller are one stretch of its past, a load *)
(* is a percentage unless its poller both slept and woke between the       *)
(* reading of the time and the lock, and the poller with the least load is *)
(* chosen.  For Semphore, with every finite set of threads: no permit is   *)
(* stranded beside a sleeper, and every step is one of CountingSemaphore.  *)
(***************************************************************************)
EXTENDS PollerPool, Semphore, SequenceTheorems, FiniteSetTheorems, WellFoundedInduction, TLAPS

(* What is invariant of PollerPool, with its TypeOK and RecordsTile. *)

\* A caller that takes a load has an executor to ask.
Asking == \A c \in Callers : pc[c] \in {"load", "lock"} => index[c] \in 1..Len(executors)

\* A poller is asleep until it wakes, and has no record before its first wake-up; the last
\* record is of what it did before what it does.
Turns ==
    \A p \in Pollers :
        /\ p \notin Range(executors) => sleeping[p]
        /\ p \in waits => sleeping[p]
        /\ sleeping[p] /\ p \notin waits => records[p] = <<>>
        /\ records[p] # <<>> => records[p][Len(records[p])].sleep = ~sleeping[p]

\* The time a caller has read is past the transition of the poller p that p's load counts
\* from, if p has made at most one since, and past both of the last ones if it has made none.
TimeIsPast(p, at, n) ==
    /\ n = 0 => lastSleep[p] <= at /\ lastWakeup[p] <= at
    /\ n <= 1 => (IF sleeping[p] THEN lastWakeup[p] ELSE lastSleep[p]) <= at
Punctual ==
    \A c \in Callers : pc[c] = "lock" => TimeIsPast(executors[index[c]], current[c], crossed[c])

\* The time a poller has read is past its transitions.
InStep ==
    \A p \in due : lastSleep[p] <= stamp[p] /\ lastWakeup[p] <= stamp[p]

\* What a call has seen so far.
Searching ==
    \A c \in Callers :
        /\ minLoad[c] = least[c].load
        /\ pc[c] \in {"out", "first"} => minLoad[c] = -1
        /\ pc[c] = "done" => minLoad[c] # -1
        /\ minLoad[c] = -1 => least[c] = NoLoad
        /\ minLoad[c] = -1 /\ pc[c] \in {"load", "lock"} => preferred[c] = index[c]
        /\ minLoad[c] # -1 => preferred[c] \in least[c].by

-----------------------------------------------------------------------------
(* Induction by the least counterexample, and sums of records. *)

\* A set of numbers that is not empty has a least one.
LEMMA LeastNat ==
  ASSUME NEW T \in SUBSET Nat, T # {}
  PROVE  \E x \in T : \A y \in T : x <= y
<1>1. PICK x \in T : \A y \in T : ~(<<y, x>> \in OpToRel(<, Nat))
  BY NatLessThanWellFounded, WFMin
<1>2. \A y \in T : ~(y < x)
  BY <1>1 DEF OpToRel
<1> QED
  BY <1>2

\* The equation of the fold of TimeOf, over the sets of indices S.
Folds(f, rs, kind, D) ==
  f = [S \in SUBSET D |->
         IF S = {} THEN 0
         ELSE IF rs[Max(S)].sleep = kind THEN f[S \ {Max(S)}] + rs[Max(S)].time
              ELSE f[S \ {Max(S)}]]

\* TimeOf is the value of a solution of that equation.
LEMMA FoldOfTimes ==
  ASSUME NEW rs, NEW kind
  PROVE  TimeOf(rs, kind) = (CHOOSE f : Folds(f, rs, kind, DOMAIN rs))[DOMAIN rs]
BY Zenon DEF TimeOf, FoldLeft, MapThenFoldSet, Folds

\* The greatest of the numbers up to n.
LEMMA MaxIs ==
  ASSUME NEW n \in Nat, NEW S \in SUBSET (1..n), n \in S
  PROVE  Max(S) = n
<1>1. \A y \in S : n >= y
  OBVIOUS
<1>2. \A x \in S : (\A y \in S : x >= y) => x = n
  OBVIOUS
<1> QED
  BY <1>1, <1>2 DEF Max

\* The equation has a solution for each number of records.
LEMMA FoldExists ==
  ASSUME NEW rs, NEW kind, NEW n \in Nat
  PROVE  \E f : Folds(f, rs, kind, 1..n)
<1> DEFINE T == {m \in Nat : ~ \E f : Folds(f, rs, kind, 1..m)}
<1> SUFFICES ASSUME T # {} PROVE FALSE
  OBVIOUS
<1>1. PICK m \in T : \A y \in T : m <= y
  BY LeastNat
<1>2. CASE m = 0
  <2> DEFINE f == [S \in SUBSET (1..0) |-> 0]
  <2>1. \A S \in SUBSET (1..0) : S = {}
    OBVIOUS
  <2>2. Folds(f, rs, kind, 1..0)
    BY <2>1 DEF Folds
  <2> QED
    BY <1>1, <1>2, <2>2
<1>3. CASE m # 0
  <2>1. m - 1 \in Nat /\ m - 1 \notin T
    BY <1>1, <1>3
  <2>2. PICK f : Folds(f, rs, kind, 1..(m - 1))
    BY <2>1
  <2> DEFINE Value(S, v) == IF rs[Max(S)].sleep = kind THEN v + rs[Max(S)].time ELSE v
             g == [S \in SUBSET (1..m) |-> IF m \in S THEN Value(S, f[S \ {m}]) ELSE f[S]]
  <2>3. ASSUME NEW S \in SUBSET (1..m)
        PROVE  g[S] = IF S = {} THEN 0 ELSE Value(S, g[S \ {Max(S)}])
    <3>1. CASE m \in S
      <4>1. Max(S) = m
        BY <1>1, <3>1, MaxIs
      <4>2. g[S \ {m}] = f[S \ {m}]
        OBVIOUS
      <4> QED
        BY <3>1, <4>1, <4>2
    <3>2. CASE m \notin S
      <4>1. S \in SUBSET (1..(m - 1)) /\ S \ {Max(S)} \in SUBSET (1..(m - 1))
        <5>1. \A x \in 1..m : x = m \/ x \in 1..(m - 1)
          OBVIOUS
        <5>2. \A x \in S : x \in 1..(m - 1)
          BY <3>2, <5>1
        <5> QED
          BY <5>2
      <4>2. f[S] = IF S = {} THEN 0 ELSE Value(S, f[S \ {Max(S)}])
        BY <2>2, <4>1 DEF Folds
      <4>3. g[S] = f[S] /\ g[S \ {Max(S)}] = f[S \ {Max(S)}]
        BY <3>2
      <4> QED
        BY <4>2, <4>3
    <3> QED
      BY <3>1, <3>2
  <2>4. Folds(g, rs, kind, 1..m)
    <3> HIDE DEF Value
    <3>1. g = [S \in SUBSET (1..m) |-> g[S]]
      OBVIOUS
    <3> HIDE DEF g
    <3>2. g = [S \in SUBSET (1..m) |-> IF S = {} THEN 0 ELSE Value(S, g[S \ {Max(S)}])]
      BY <2>3, <3>1
    <3> QED
      BY <3>2 DEF Folds, Value
  <2> QED
    BY <2>4
<1> QED
  BY <1>2, <1>3

\* What a record adds to a sum of one kind.
Plus(t, r, kind) == IF r.sleep = kind THEN t + r.time ELSE t

\* TimeOf adds the times of the records of one kind, from the first to the last.
LEMMA Sums ==
  ASSUME NEW rs \in Seq(Record), NEW kind
  PROVE  \E s \in [0..Len(rs) -> Nat] :
           /\ s[0] = 0 /\ TimeOf(rs, kind) = s[Len(rs)]
           /\ \A i \in 1..Len(rs) : s[i] = Plus(s[i - 1], rs[i], kind)
<1> DEFINE n == Len(rs)
           f == CHOOSE h : Folds(h, rs, kind, 1..n)
           s == [i \in 0..n |-> f[1..i]]
<1>1. n \in Nat /\ DOMAIN rs = 1..n /\ \A i \in 1..n : rs[i] \in Record
  OBVIOUS
<1>t. \A i \in 1..n : rs[i].time \in Nat
  BY <1>1, SizeAssumption DEF Record
<1>2. Folds(f, rs, kind, 1..n)
  BY <1>1, FoldExists
<1>3. TimeOf(rs, kind) = f[1..n]
  BY <1>1, FoldOfTimes
<1> HIDE DEF f
<1>4. s[0] = 0
  <2>1. 1..0 = {} /\ {} \in SUBSET (1..n)
    OBVIOUS
  <2>2. f[{}] = 0
    BY <1>2, <2>1 DEF Folds
  <2> QED
    BY <1>1, <2>1, <2>2
<1>5. ASSUME NEW i \in 1..n
      PROVE  s[i] = IF rs[i].sleep = kind THEN s[i - 1] + rs[i].time ELSE s[i - 1]
  <2>0. i \in Nat /\ 1 <= i /\ i <= n
    BY <1>1
  <2>1. 1..i \in SUBSET (1..n) /\ 1..i # {} /\ i \in 1..i
    <3>1. i \in 1..i
      BY <2>0
    <3>2. \A x \in 1..i : x \in 1..n
      BY <1>1, <2>0
    <3> QED
      BY <3>1, <3>2
  <2>2. Max(1..i) = i /\ (1..i) \ {i} = 1..(i - 1)
    BY <1>1, <2>0, <2>1, MaxIs
  <2>3. f[1..i] = IF rs[i].sleep = kind THEN f[1..(i - 1)] + rs[i].time ELSE f[1..(i - 1)]
    BY <1>2, <2>1, <2>2 DEF Folds
  <2>4. s[i] = f[1..i] /\ s[i - 1] = f[1..(i - 1)]
    BY <1>1
  <2> QED
    BY <2>3, <2>4
<1> HIDE DEF s
<1>6. ASSUME NEW i \in 0..n PROVE s[i] \in Nat
  <2> DEFINE T == {j \in Nat : j <= n /\ s[j] \notin Nat}
  <2> SUFFICES ASSUME T # {} PROVE FALSE
    BY <1>1
  <2>1. PICK j \in T : \A y \in T : j <= y
    BY LeastNat
  <2>2. j # 0
    BY <1>4, <2>1
  <2>3. j \in 1..n /\ j - 1 \in Nat /\ j - 1 \notin T
    BY <1>1, <2>1, <2>2
  <2> QED
    BY <1>1, <1>t, <1>5, <2>1, <2>3
<1>7. s = [i \in 0..n |-> s[i]]
  BY DEF s
<1>8. s \in [0..n -> Nat]
  BY <1>6, <1>7
<1>9. s[n] = f[1..n]
  BY <1>1 DEF s
<1> QED
  BY <1>1, <1>3, <1>4, <1>5, <1>8, <1>9 DEF Plus

\* The constants are numbers.
LEMMA Sizes ==
  /\ MaxCount \in Nat /\ MaxUsec \in Nat /\ SizeT \in Nat /\ Second \in Nat /\ MaxNow \in Nat
  /\ IntMax \in Nat /\ IntMax >= 100 /\ MaxTurns \in Nat
  /\ MaxUsec < SizeT /\ 2 * MaxNow < SizeT /\ SizeT > 0
<1>1. {MaxCount, MaxUsec, SizeT, Second, IntMax, MaxTurns, MaxNow} \subseteq Nat
  BY SizeAssumption
<1>2. /\ MaxCount \in Nat /\ MaxUsec \in Nat /\ SizeT \in Nat /\ Second \in Nat
      /\ MaxNow \in Nat /\ IntMax \in Nat /\ MaxTurns \in Nat
  BY <1>1
<1> QED
  BY <1>2, SizeAssumption

\* A sum of times is a number.
LEMMA TimeType ==
  ASSUME NEW rs \in Seq(Record), NEW kind
  PROVE  TimeOf(rs, kind) \in Nat
BY Sums

\* Records that are one stretch of time.
Tiled(rs) == \A i \in 1..(Len(rs) - 1) : /\ rs[i].sleep # rs[i + 1].sleep
                                         /\ rs[i].from + rs[i].time = rs[i + 1].from

\* The times of the records of a stretch add up to its length.
LEMMA TimesOfTile ==
  ASSUME NEW rs \in Seq(Record), Tiled(rs), rs # <<>>
  PROVE  TimeOf(rs, FALSE) + TimeOf(rs, TRUE)
           = rs[Len(rs)].from + rs[Len(rs)].time - rs[1].from
<1> DEFINE n == Len(rs)
<1>1. /\ n \in Nat /\ n > 0
      /\ \A i \in 1..n : rs[i] \in Record
  OBVIOUS
<1>2. \A i \in 1..n : rs[i].sleep \in BOOLEAN /\ rs[i].from \in Nat /\ rs[i].time \in Nat
  BY <1>1, Sizes DEF Record
<1>3. PICK r \in [0..n -> Nat] :
           /\ r[0] = 0 /\ TimeOf(rs, FALSE) = r[n]
           /\ \A i \in 1..n : r[i] = Plus(r[i - 1], rs[i], FALSE)
  BY Sums
<1>4. PICK s \in [0..n -> Nat] :
           /\ s[0] = 0 /\ TimeOf(rs, TRUE) = s[n]
           /\ \A i \in 1..n : s[i] = Plus(s[i - 1], rs[i], TRUE)
  BY Sums
<1>5. \A i \in 1..n : r[i] + s[i] = r[i - 1] + s[i - 1] + rs[i].time
  <2> SUFFICES ASSUME NEW i \in 1..n PROVE r[i] + s[i] = r[i - 1] + s[i - 1] + rs[i].time
    OBVIOUS
  <2>1. i - 1 \in 0..n /\ i \in 0..n
    BY <1>1
  <2>2. r[i - 1] \in Nat /\ s[i - 1] \in Nat /\ r[i] \in Nat /\ s[i] \in Nat
    BY <2>1
  <2>3. CASE rs[i].sleep = TRUE
    <3>1. r[i] = r[i - 1]
      BY <1>3, <2>3 DEF Plus
    <3>2. s[i] = s[i - 1] + rs[i].time
      BY <1>4, <2>3 DEF Plus
    <3> QED
      BY <1>2, <2>2, <3>1, <3>2
  <2>4. CASE rs[i].sleep = FALSE
    <3>1. r[i] = r[i - 1] + rs[i].time
      BY <1>3, <2>4 DEF Plus
    <3>2. s[i] = s[i - 1]
      BY <1>4, <2>4 DEF Plus
    <3> QED
      BY <1>2, <2>2, <3>1, <3>2
  <2> QED
    BY <1>2, <2>3, <2>4
<1> DEFINE Adds(j) == r[j] + s[j] = rs[j].from + rs[j].time - rs[1].from
           T == {j \in Nat : j \in 1..n /\ ~Adds(j)}
<1>6. T = {}
  <2> SUFFICES ASSUME T # {} PROVE FALSE
    OBVIOUS
  <2>1. PICK j \in T : \A y \in T : j <= y
    BY LeastNat
  <2>2. j \in 1..n /\ ~Adds(j)
    BY <2>1
  <2>5. \A y \in 1..n : y \in Nat /\ (~Adds(y) => j <= y)
    BY <2>1
  <2>3. CASE j = 1
    BY <1>1, <1>2, <1>3, <1>4, <1>5, <2>2, <2>3
  <2>4. CASE j # 1
    <3> DEFINE i == j - 1
    <3>1. i \in 1..n /\ i \in 1..(n - 1) /\ ~(j <= i) /\ j = i + 1 /\ i \in 0..n /\ j \in 0..n
      BY <1>1, <2>2, <2>4
    <3> HIDE DEF i, Adds, T
    <3>2. Adds(i)
      BY <2>5, <3>1
    <3>3. rs[i].from + rs[i].time = rs[j].from
      BY <3>1 DEF Tiled
    <3>4. r[i] \in Nat /\ s[i] \in Nat /\ r[j] \in Nat /\ s[j] \in Nat
      BY <3>1
    <3>5. r[j] + s[j] = r[i] + s[i] + rs[j].time
      BY <1>5, <2>2 DEF i
    <3>6. /\ rs[i].from \in Nat /\ rs[i].time \in Nat /\ rs[j].from \in Nat
          /\ rs[j].time \in Nat /\ rs[1].from \in Nat
      BY <1>1, <1>2, <2>2, <3>1
    <3>7. r[i] + s[i] = rs[i].from + rs[i].time - rs[1].from
      BY <3>2 DEF Adds
    <3>8. r[j] + s[j] = rs[j].from + rs[j].time - rs[1].from
      <4>1. PICK a \in Int : a = r[j] + s[j]
        BY <3>4
      <4>2. PICK b \in Int : b = r[i] + s[i]
        BY <3>4
      <4>3. PICK f \in Nat : f = rs[i].from
        BY <3>6
      <4>4. PICK u \in Nat : u = rs[i].time
        BY <3>6
      <4>5. PICK g \in Nat : g = rs[j].from
        BY <3>6
      <4>6. PICK t \in Nat : t = rs[j].time
        BY <3>6
      <4>7. PICK h \in Nat : h = rs[1].from
        BY <3>6
      <4>8. a = b + t /\ b = f + u - h /\ f + u = g
        BY <3>3, <3>5, <3>7, <4>1, <4>2, <4>3, <4>4, <4>5, <4>6, <4>7
      <4>9. a = g + t - h
        BY <4>8
      <4> QED
        BY <4>1, <4>5, <4>6, <4>7, <4>9
    <3>9. Adds(j)
      BY <3>8 DEF Adds
    <3> QED
      BY <2>2, <3>9
  <2> QED
    BY <2>3, <2>4
<1>7. Adds(n)
  BY <1>1, <1>6
<1> QED
  BY <1>3, <1>4, <1>7

\* The records that are left are a stretch that ends where the whole ends.
LEMMA SuffixTiled ==
  ASSUME NEW rs \in Seq(Record), Tiled(rs), NEW k \in 0..Len(rs)
  PROVE  LET ss == SubSeq(rs, k + 1, Len(rs)) IN
         /\ ss \in Seq(Record) /\ Len(ss) = Len(rs) - k /\ Tiled(ss)
         /\ ss # <<>> => rs # <<>> /\ ss[Len(ss)] = rs[Len(rs)]
<1> DEFINE n == Len(rs) ss == SubSeq(rs, k + 1, n)
<1>1. /\ n \in Nat /\ k \in Nat /\ k <= n
      /\ ss \in Seq(Record) /\ Len(ss) = n - k /\ \A i \in 1..(n - k) : ss[i] = rs[k + i]
  OBVIOUS
<1> HIDE DEF ss
<1>2. Tiled(ss)
  <2> SUFFICES ASSUME NEW i \in 1..(n - k - 1)
               PROVE  /\ ss[i].sleep # ss[i + 1].sleep
                      /\ ss[i].from + ss[i].time = ss[i + 1].from
    BY <1>1 DEF Tiled
  <2>1. k + i \in 1..(n - 1) /\ i \in 1..(n - k) /\ i + 1 \in 1..(n - k) /\ k + (i + 1) = (k + i) + 1
    BY <1>1
  <2>2. ss[i] = rs[k + i] /\ ss[i + 1] = rs[(k + i) + 1]
    BY <1>1, <2>1
  <2> QED
    BY <2>1, <2>2 DEF Tiled
<1>3. ss # <<>> => rs # <<>> /\ ss[Len(ss)] = rs[n]
  <2> SUFFICES ASSUME ss # <<>> PROVE rs # <<>> /\ ss[Len(ss)] = rs[n]
    OBVIOUS
  <2>1. n - k \in 1..(n - k) /\ k + (n - k) = n /\ n # 0
    BY <1>1
  <2> QED
    BY <1>1, <2>1
<1> QED
  BY <1>1, <1>2, <1>3 DEF ss

\* A record that begins where the last one ends, and is of the other kind, joins them.
LEMMA KeepTiled ==
  ASSUME NEW rs \in Seq(Record), Tiled(rs), Len(rs) <= MaxCount, NEW r \in Record,
         rs # <<>> => /\ rs[Len(rs)].sleep # r.sleep
                      /\ rs[Len(rs)].from + rs[Len(rs)].time = r.from
  PROVE  LET ks == Keep(Append(rs, r)) IN
         /\ ks \in Seq(Record) /\ Len(ks) <= MaxCount /\ Tiled(ks)
         /\ ks # <<>> => ks[Len(ks)] = r
<1>p. PICK ext : ext = Append(rs, r)
  OBVIOUS
<1>1. /\ ext \in Seq(Record) /\ Len(ext) = Len(rs) + 1 /\ ext[Len(ext)] = r
      /\ \A i \in 1..Len(rs) : ext[i] = rs[i]
      /\ Len(rs) \in Nat
  BY <1>p
<1>s. MaxCount \in Nat
  BY Sizes
<1>2. Tiled(ext)
  <2> SUFFICES ASSUME NEW i \in 1..Len(rs)
               PROVE  /\ ext[i].sleep # ext[i + 1].sleep
                      /\ ext[i].from + ext[i].time = ext[i + 1].from
    <3>1. Len(ext) - 1 = Len(rs)
      BY <1>1
    <3> QED
      BY <3>1 DEF Tiled
  <2>1. CASE i = Len(rs)
    <3>1. rs # <<>>
      BY <2>1
    <3> QED
      BY <1>1, <2>1, <3>1
  <2>2. CASE i # Len(rs)
    <3>1. i \in 1..(Len(rs) - 1) /\ i + 1 \in 1..Len(rs)
      BY <1>1, <2>2
    <3> QED
      BY <1>1, <3>1 DEF Tiled
  <2> QED
    BY <2>1, <2>2
<1>3. CASE Len(ext) <= MaxCount
  <2>0. ~(Len(ext) > MaxCount)
    BY <1>1, <1>3, <1>s
  <2>1. Keep(ext) = ext
    BY <2>0, Zenon DEF Keep
  <2> QED
    BY <1>p, <1>1, <1>2, <1>3, <2>1
<1>4. CASE Len(ext) > MaxCount
  <2>1. Keep(ext) = Tail(ext)
    BY <1>4, Zenon DEF Keep
  <2>2. /\ Tail(ext) = SubSeq(ext, 1 + 1, Len(ext))
        /\ 1 \in 0..Len(ext)
    <3>0. ext \in Seq(Record) /\ Len(ext) # 0 /\ 1 \in 0..Len(ext)
      BY <1>1
    <3>1. ext # <<>>
      BY <3>0, EmptySeq
    <3>2. Tail(ext) = SubSeq(ext, 2, Len(ext))
      BY <3>0, <3>1, HeadTailProperties
    <3> QED
      BY <3>0, <3>2
  <2>3. LET ss == SubSeq(ext, 1 + 1, Len(ext)) IN
         /\ ss \in Seq(Record) /\ Len(ss) = Len(ext) - 1 /\ Tiled(ss)
         /\ ss # <<>> => ext # <<>> /\ ss[Len(ss)] = ext[Len(ext)]
    BY <1>1, <1>2, <2>2, SuffixTiled
  <2>4. Len(ext) - 1 <= MaxCount
    BY <1>1, <1>s
  <2> QED
    BY <1>p, <1>1, <2>1, <2>2, <2>3, <2>4, Zenon
<1> QED
  BY <1>1, <1>3, <1>4, Sizes

\* Quotients of numbers.
LEMMA Percent ==
  ASSUME NEW a \in Nat, NEW b \in Nat, b # 0
  PROVE  /\ (100 * a) \div b \in Nat
         /\ a <= b => (100 * a) \div b <= 100
<1> DEFINE q == (100 * a) \div b
<1>1. q \in Int /\ b * q <= 100 * a /\ 100 * a < b * (q + 1)
  OBVIOUS
<1>2. q >= 0
  <2> SUFFICES ASSUME q <= -1 PROVE FALSE
    BY <1>1
  <2>1. b * (q + 1) <= 0
    BY <1>1
  <2> QED
    BY <1>1, <2>1
<1>3. a <= b => q <= 100
  <2> SUFFICES ASSUME a <= b, q >= 101 PROVE FALSE
    BY <1>1
  <2>1. b * q >= b * 101
    BY <1>1
  <2> QED
    BY <1>1, <2>1
<1> QED
  BY <1>1, <1>2, <1>3

\* Unsigned arithmetic.
LEMMA Remainder ==
  ASSUME NEW x \in Int
  PROVE  /\ x % SizeT \in Nat
         /\ 0 <= x /\ x < SizeT => x % SizeT = x
BY Sizes

\* load() drops as many records as it must, and reports on the rest.
LEMMA LoadIs ==
  ASSUME NEW p \in Pollers, NEW at \in Int, records \in [Pollers -> Seq(Record)],
         sleeping \in [Pollers -> BOOLEAN],
         lastSleep[p] \in Int, lastWakeup[p] \in Int
  PROVE  /\ \A k \in 0..Len(records[p]) : Total(p, at, k) \in Nat /\ RunTime(p, at, k) \in Nat
         /\ \E k \in 0..Len(records[p]) :
              Load(p, at) = [values |-> IF Total(p, at, k) = 0 THEN {0}
                                        ELSE AsInt((100 * RunTime(p, at, k)) \div Total(p, at, k)),
                             left   |-> Left(p, k)]
<1> DEFINE n == Len(records[p])
<1>0. records[p] \in Seq(Record) /\ n \in Nat /\ SizeT \in Nat /\ SizeT > 0 /\ MaxUsec \in Nat
  BY Sizes
<1>1. ASSUME NEW k \in 0..n
      PROVE  Total(p, at, k) \in Nat /\ RunTime(p, at, k) \in Nat
  <2>1. Left(p, k) \in Seq(Record)
    BY <1>0 DEF Left
  <2>2. TimeOf(Left(p, k), FALSE) \in Nat /\ TimeOf(Left(p, k), TRUE) \in Nat
    BY <2>1, TimeType
  <2>3. Pending(p, at) \in Nat
    BY <1>0 DEF Pending
  <2>a. PICK a \in Nat : a = TimeOf(Left(p, k), FALSE)
    BY <2>2
  <2>b. PICK b \in Nat : b = TimeOf(Left(p, k), TRUE)
    BY <2>2
  <2>4. Total(p, at, k) \in Nat
    <3>1. Total(p, at, k) = (a + b + Pending(p, at)) % SizeT
      BY <2>a, <2>b, Zenon DEF Total
    <3> QED
      BY <2>3, <3>1, Remainder
  <2>5. RunTime(p, at, k) \in Nat
    <3>1. RunTime(p, at, k) = (a + IF sleeping[p] THEN 0 ELSE Pending(p, at)) % SizeT
      BY <2>a, Zenon DEF RunTime
    <3>2. (a + IF sleeping[p] THEN 0 ELSE Pending(p, at)) \in Int
      BY <2>3
    <3> QED
      BY <3>1, <3>2, Remainder
  <2> QED
    BY <2>4, <2>5
<1> DEFINE Fits(k) == /\ Total(p, at, k) <= MaxUsec \/ k = n
                      /\ \A j \in 0..(k - 1) : Total(p, at, j) > MaxUsec
           T == {k \in 0..n : Total(p, at, k) <= MaxUsec \/ k = n}
<1>2. \E k \in 0..n : Fits(k)
  <2>1. T \in SUBSET Nat /\ n \in T
    BY <1>0
  <2>2. PICK k \in T : \A y \in T : k <= y
    BY <2>1, LeastNat
  <2>3. k \in 0..n /\ k \in Nat
    BY <1>0, <2>2
  <2>4. ASSUME NEW j \in 0..(k - 1) PROVE Total(p, at, j) > MaxUsec
    <3>1. j \in 0..n /\ ~(k <= j)
      BY <1>0, <2>3
    <3>2. ~(Total(p, at, j) <= MaxUsec)
      BY <2>2, <3>1
    <3>3. Total(p, at, j) \in Nat
      BY <1>1, <3>1
    <3> QED
      BY <1>0, <3>2, <3>3
  <2> QED
    BY <2>2, <2>3, <2>4
<1> DEFINE drop == CHOOSE k \in 0..n : Fits(k)
<1>3. drop \in 0..n
  <2> HIDE DEF Fits
  <2> QED
    BY <1>2
<1>4. Load(p, at) = [values |-> IF Total(p, at, drop) = 0 THEN {0}
                                ELSE AsInt((100 * RunTime(p, at, drop)) \div Total(p, at, drop)),
                     left   |-> Left(p, drop)]
  BY Zenon DEF Load
<1> HIDE DEF drop
<1> QED
  BY <1>1, <1>3, <1>4

\* A load is no more than the greatest int, and never -1.
LEMMA LoadSet ==
  /\ \A q \in Nat : AsInt(q) \in SUBSET Loads
  /\ {0} \in SUBSET Loads
  /\ \A v \in Loads : v \in Int /\ v # -1
BY Sizes DEF AsInt, Loads

\* What it reports is an int, and what it leaves are records.
LEMMA LoadType ==
  ASSUME NEW p \in Pollers, NEW at \in Int, records \in [Pollers -> Seq(Record)],
         sleeping \in [Pollers -> BOOLEAN],
         lastSleep[p] \in Int, lastWakeup[p] \in Int
  PROVE  /\ Load(p, at).values \in SUBSET Loads
         /\ \E k \in 0..Len(records[p]) : Load(p, at).left = Left(p, k)
<1>1. PICK k \in 0..Len(records[p]) :
         Load(p, at) = [values |-> IF Total(p, at, k) = 0 THEN {0}
                                   ELSE AsInt((100 * RunTime(p, at, k)) \div Total(p, at, k)),
                        left   |-> Left(p, k)]
  BY LoadIs
<1>2. Total(p, at, k) \in Nat /\ RunTime(p, at, k) \in Nat
  BY LoadIs
<1>3. Load(p, at).values \in SUBSET Loads
  <2>1. CASE Total(p, at, k) = 0
    BY <1>1, <2>1, LoadSet
  <2>2. CASE Total(p, at, k) # 0
    <3>1. PICK q \in Nat : q = (100 * RunTime(p, at, k)) \div Total(p, at, k)
      BY <1>2, <2>2, Percent
    <3> QED
      BY <1>1, <2>2, <3>1, LoadSet
  <2> QED
    BY <2>1, <2>2
<1> QED
  BY <1>1, <1>3

-----------------------------------------------------------------------------
(* Typing *)

\* What TakeLoad does, with the load it finds.
LEMMA Takes ==
  ASSUME TypeOK, Asking, NEW c \in Callers, TakeLoad(c)
  PROVE  \E p \in Pollers, v \in Loads : \E k \in 0..Len(records[p]) :
           /\ index[c] \in 1..Len(executors)
           /\ p = executors[index[c]] /\ p \in Range(executors)
           /\ v \in Load(p, current[c]).values
           /\ Left(p, k) \in Seq(Record)
           /\ records' = [records EXCEPT ![p] = Left(p, k)]
           /\ least' = [least EXCEPT ![c] = Less(@, index[c], v)]
           /\ IF minLoad[c] = -1 THEN Decide(c, v) ELSE Compare(c, v)
<1> DEFINE p == executors[index[c]]
<1>1. index[c] \in 1..Len(executors) /\ p \in Pollers /\ p \in Range(executors)
  <2>1. index[c] \in 1..Len(executors) /\ executors \in Seq(Pollers)
    BY DEF TakeLoad, Asking, TypeOK
  <2> QED
    BY <2>1 DEF Range
<1>2. /\ current[c] \in Int /\ records \in [Pollers -> Seq(Record)]
      /\ sleeping \in [Pollers -> BOOLEAN]
      /\ lastSleep[p] \in Int /\ lastWakeup[p] \in Int
  BY <1>1, Sizes DEF TypeOK
<1>3. PICK k \in 0..Len(records[p]) : Load(p, current[c]).left = Left(p, k)
  BY <1>1, <1>2, LoadType
<1>4. Load(p, current[c]).values \in SUBSET Loads
  BY <1>1, <1>2, LoadType
<1>5. Left(p, k) \in Seq(Record)
  <2>1. records[p] \in Seq(Record)
    BY <1>1, <1>2
  <2> QED
    BY <2>1 DEF Left
<1>6. PICK v \in Load(p, current[c]).values :
         /\ records' = [records EXCEPT ![p] = Left(p, k)]
         /\ least' = [least EXCEPT ![c] = Less(@, index[c], v)]
         /\ IF minLoad[c] = -1 THEN Decide(c, v) ELSE Compare(c, v)
  BY <1>3 DEF TakeLoad
<1>7. v \in Loads /\ p = executors[index[c]]
  BY <1>4, <1>6
<1> HIDE DEF p
<1> QED
  BY <1>1, <1>3, <1>5, <1>6, <1>7

\* A record of the time since the last transition.
LEMMA Elapsed ==
  ASSUME NEW end \in 0..MaxNow, NEW t \in 0..end, NEW b \in BOOLEAN
  PROVE  /\ (end - t) % SizeT = end - t
         /\ [sleep |-> b, from |-> t, time |-> (end - t) % SizeT] \in Record
<1>1. (end - t) % SizeT = end - t
  BY Sizes, Remainder
<1>2. t \in 0..MaxNow /\ end - t \in 0..MaxNow
  BY Sizes
<1> QED
  BY <1>1, <1>2 DEF Record

\* Keep leaves records.
LEMMA KeepType ==
  ASSUME NEW rs \in Seq(Record), NEW r \in Record
  PROVE  Keep(Append(rs, r)) \in Seq(Record)
<1>1. Append(rs, r) \in Seq(Record) /\ Append(rs, r) # <<>>
  BY AppendProperties
<1> QED
  BY <1>1 DEF Keep

\* A transition leaves records.
LEMMA AccountType ==
  ASSUME TypeOK, NEW p \in Pollers, NEW b \in BOOLEAN, NEW t \in 0..stamp[p], Account(p, b, t)
  PROVE  records' \in [Pollers -> Seq(Record)]
<1>1. stamp[p] \in 0..MaxNow
  BY Sizes DEF TypeOK
<1>2. PICK r \in Record : r = [sleep |-> b, from |-> t, time |-> (stamp[p] - t) % SizeT]
  BY <1>1, Elapsed
<1>3. Keep(Append(records[p], r)) \in Seq(Record)
  BY <1>2, KeepType DEF TypeOK
<1>4. records' = IF sleeping[p] # b THEN records
                 ELSE [records EXCEPT ![p] = Keep(Append(records[p], r))]
  BY <1>2 DEF Account
<1> QED
  BY <1>3, <1>4 DEF TypeOK

\* The history of a call keeps its type.
LEMMA LessType ==
  ASSUME NEW old \in [load : Loads \cup {-1}, by : SUBSET Nat], NEW i \in Nat, NEW v \in Loads
  PROVE  Less(old, i, v) \in [load : Loads \cup {-1}, by : SUBSET Nat]
<1>1. (IF old = NoLoad \/ v < old.load THEN v ELSE old.load) \in Loads \cup {-1}
  OBVIOUS
<1>2. (IF v = old.load THEN old.by \cup {i}
       ELSE IF old = NoLoad \/ v < old.load THEN {i} ELSE old.by) \in SUBSET Nat
  OBVIOUS
<1> QED
  BY <1>1, <1>2 DEF Less

\* What the first load and those of the loop do to the search.
LEMMA DecideType ==
  ASSUME TypeOK, NEW c \in Callers, NEW v \in Loads, Decide(c, v)
  PROVE  /\ pos' \in Nat
         /\ minLoad' \in [Callers -> Loads \cup {-1}] /\ preferred' \in [Callers -> Nat]
         /\ index' \in [Callers -> Nat]
         /\ pc' \in [Callers -> {"out", "first", "load", "lock", "done"}]
         /\ \A d \in Callers : d # c => pc'[d] = pc[d] /\ index'[d] = index[d]
         /\ pc'[c] = "load" => index'[c] = 1
         /\ pc'[c] \in {"load", "done"}
<1>1. pos \in Nat /\ pos + 1 \in Nat
  BY DEF TypeOK
<1>2. CASE v = 0
  <2>1. /\ WritePos(c, pos + 1) /\ pc' = [pc EXCEPT ![c] = "done"]
        /\ UNCHANGED <<index, preferred>> /\ minLoad' = [minLoad EXCEPT ![c] = v]
    BY <1>2 DEF Decide
  <2>2. pos' \in Nat
    BY <1>1, <2>1 DEF WritePos
  <2> QED
    BY <2>1, <2>2 DEF TypeOK
<1>3. CASE v # 0
  <2>1. /\ UNCHANGED <<pos, preferred>> /\ pc' = [pc EXCEPT ![c] = "load"]
        /\ index' = [index EXCEPT ![c] = 1] /\ minLoad' = [minLoad EXCEPT ![c] = v]
    BY <1>3 DEF Decide
  <2> QED
    BY <2>1 DEF TypeOK
<1> QED
  BY <1>2, <1>3

\* Each outcome of a comparison keeps the types, and leads to an executor that exists.
LEMMA CompareType ==
  ASSUME TypeOK, NEW c \in Callers, NEW v \in Loads, Compare(c, v), index[c] \in 1..Len(executors)
  PROVE  /\ pos' \in Nat
         /\ minLoad' \in [Callers -> Loads \cup {-1}] /\ preferred' \in [Callers -> Nat]
         /\ index' \in [Callers -> Nat]
         /\ pc' \in [Callers -> {"out", "first", "load", "lock", "done"}]
         /\ \A d \in Callers : d # c => pc'[d] = pc[d] /\ index'[d] = index[d]
         /\ pc'[c] = "load" => index'[c] \in 1..Len(executors)
         /\ pc'[c] \in {"load", "done"}
<1>1. pos \in Nat /\ index[c] - 1 \in Nat /\ Len(executors) \in Nat /\ index[c] \in Nat
  BY DEF TypeOK
<1>2. pos' \in Nat /\ minLoad' \in [Callers -> Loads \cup {-1}] /\ preferred' \in [Callers -> Nat]
  <2>1. CASE v <= minLoad[c]
    <3>1. /\ minLoad' = [minLoad EXCEPT ![c] = v] /\ preferred' = [preferred EXCEPT ![c] = index[c]]
          /\ WritePos(c, index[c] - 1)
      BY <2>1 DEF Compare
    <3>2. pos' \in Nat
      BY <1>1, <3>1 DEF WritePos
    <3> QED
      BY <1>1, <3>1, <3>2 DEF TypeOK
  <2>2. CASE ~(v <= minLoad[c])
    BY <1>1, <2>2 DEF Compare, TypeOK
  <2> QED
    BY <2>1, <2>2
<1>3. CASE index[c] = Len(executors)
  BY <1>2, <1>3 DEF Compare, TypeOK
<1>4. CASE index[c] # Len(executors)
  <2>1. index[c] + 1 \in 1..Len(executors) /\ index[c] + 1 \in Nat
    BY <1>1, <1>4
  <2>2. pc' = [pc EXCEPT ![c] = "load"] /\ index' = [index EXCEPT ![c] = index[c] + 1]
    BY <1>4 DEF Compare
  <2> QED
    BY <1>2, <2>1, <2>2 DEF TypeOK
<1> QED
  BY <1>3, <1>4

\* Each step keeps the types, and each caller an executor to ask.
LEMMA TypeStep ==
  ASSUME TypeOK, Asking, InStep, [Next]_vars
  PROVE  TypeOK' /\ Asking'
<1> USE DEF clock, counter, search
<1>1. CASE UNCHANGED vars
  BY <1>1 DEF vars, TypeOK, Asking
<1>2. ASSUME NEW wall \in Walls, Tick(wall) PROVE TypeOK' /\ Asking'
  <2>1. now' \in 0..MaxNow /\ now <= now' /\ now \in Nat
    <3>1. /\ wall \in Int /\ last \in Int /\ now \in Nat /\ now <= MaxNow
          /\ Second \in Nat /\ MaxNow \in Nat
      BY SizeAssumption, Sizes DEF TypeOK
    <3>2. PICK e \in Int : e = (wall - last) % SizeT
      BY <3>1, Remainder
    <3>3. now' = IF e \in 1..(Second - 1) THEN now + e ELSE now
      BY <1>2, <3>2 DEF Tick, Stamp
    <3>4. now + Second <= MaxNow + 1
      BY <1>2 DEF Tick
    <3> QED
      BY <3>1, <3>3, <3>4
  <2>2. last' = wall
    BY <1>2 DEF Tick, Stamp
  <2>3. 0..now \subseteq 0..now'
    BY <2>1
  <2> QED
    BY <1>2, <2>1, <2>2, <2>3 DEF Tick, TypeOK, Asking
<1>3. ASSUME NEW p \in Pollers, AddEventPoller(p) PROVE TypeOK' /\ Asking'
  <2>1. /\ executors' \in Seq(Pollers) /\ Len(executors') = Len(executors) + 1
        /\ Len(executors) \in Nat
    BY <1>3 DEF AddEventPoller, TypeOK
  <2>2. Range(executors) \subseteq Range(executors')
    <3>1. \A i \in 1..Len(executors) : executors'[i] = executors[i]
      BY <1>3 DEF AddEventPoller, TypeOK
    <3>2. executors \in Seq(Pollers)
      BY DEF TypeOK
    <3> QED
      BY <2>1, <3>1, <3>2 DEF Range
  <2>3. now \in 0..now
    BY Sizes DEF TypeOK
  <2>4. Asking'
    <3> SUFFICES ASSUME NEW c \in Callers, pc[c] \in {"load", "lock"}
                 PROVE  index[c] \in 1..(Len(executors) + 1)
      BY <1>3, <2>1 DEF AddEventPoller, Asking
    <3> QED
      BY <2>1 DEF Asking
  <2>5. waits' \subseteq Range(executors') /\ due' \subseteq Range(executors')
    BY <1>3, <2>2 DEF AddEventPoller, TypeOK
  <2>6. lastSleep' \in [Pollers -> 0..now] /\ lastWakeup' \in [Pollers -> 0..now]
    BY <1>3, <2>3 DEF AddEventPoller, TypeOK
  <2>7. TypeOK'
    BY <1>3, <2>1, <2>5, <2>6 DEF AddEventPoller, TypeOK
  <2> QED
    BY <2>4, <2>7
<1>4. ASSUME NEW p \in Pollers, ReadStamp(p) PROVE TypeOK' /\ Asking'
  <2>1. turns' \in 0..MaxTurns
    BY <1>4, Sizes DEF ReadStamp, TypeOK
  <2>2. now \in 0..now
    BY Sizes DEF TypeOK
  <2> QED
    BY <1>4, <2>1, <2>2 DEF ReadStamp, TypeOK, Asking
<1>5. ASSUME NEW p \in Pollers, OnSleep(p) \/ OnWakeup(p) PROVE TypeOK' /\ Asking'
  <2>1. /\ p \in due /\ stamp[p] \in 0..now
        /\ lastSleep[p] \in 0..stamp[p] /\ lastWakeup[p] \in 0..stamp[p]
    <3>1. p \in due
      BY <1>5 DEF OnSleep, OnWakeup, Unlock
    <3>2. stamp[p] \in 0..now /\ lastSleep[p] \in 0..now /\ lastWakeup[p] \in 0..now /\ now \in Nat
      BY Sizes DEF TypeOK
    <3> QED
      BY <3>1, <3>2 DEF InStep
  <2>2. records' \in [Pollers -> Seq(Record)]
    BY <1>5, <2>1, AccountType DEF OnSleep, OnWakeup
  <2>3. Unlock(p)
    BY <1>5 DEF OnSleep, OnWakeup
  <2>4. /\ crossed' \in [Callers -> 0..2] /\ due' \subseteq Range(executors)
        /\ stamp' \in [Pollers -> 0..now]
    <3>1. 0 \in 0..now
      BY Sizes DEF TypeOK
    <3> QED
      BY <2>3, <3>1 DEF Unlock, Cross, TypeOK
  <2>5. UNCHANGED <<clock, executors, turns, pos, pc, current, index, preferred, minLoad, least, crashed>>
    BY <2>3 DEF Unlock
  <2>6. /\ lastSleep' \in [Pollers -> 0..now] /\ lastWakeup' \in [Pollers -> 0..now]
        /\ sleeping' \in [Pollers -> BOOLEAN] /\ waits' \subseteq Range(executors)
    BY <1>5, <2>1 DEF OnSleep, OnWakeup, TypeOK
  <2>7. TypeOK'
    BY <2>2, <2>4, <2>5, <2>6 DEF TypeOK
  <2>8. Asking'
    BY <2>5 DEF Asking
  <2> QED
    BY <2>7, <2>8
<1>6. ASSUME NEW c \in Callers, Begin(c) PROVE TypeOK' /\ Asking'
  BY <1>6 DEF Begin, TypeOK, Asking
<1>7. ASSUME NEW c \in Callers, First(c) PROVE TypeOK' /\ Asking'
  <2>1. pos \in Nat /\ Len(executors) \in Nat
    BY DEF TypeOK
  <2>f. /\ index' = [index EXCEPT ![c] = pos + 1]
        /\ preferred' = [preferred EXCEPT ![c] = pos + 1]
        /\ UNCHANGED <<clock, executors, counter, pos, current, minLoad, least, crossed>>
    BY <1>7 DEF First
  <2>2. crashed' = (pos >= Len(executors))
    BY <1>7, Zenon DEF First
  <2>3. crashed' \in BOOLEAN
    BY <2>2
  <2>4. CASE pos >= Len(executors)
    <3>1. crashed'
      BY <2>2, <2>4
    <3>2. pc' = [pc EXCEPT ![c] = "first"]
      BY <1>7, <3>1 DEF First
    <3>3. TypeOK'
      BY <2>f, <2>1, <2>3, <3>2 DEF TypeOK
    <3>4. Asking'
      <4>1. pc'[c] = "first" /\ \A d \in Callers : d # c => pc'[d] = pc[d] /\ index'[d] = index[d]
        BY <2>f, <3>2 DEF TypeOK
      <4> QED
        BY <2>f, <4>1 DEF Asking
    <3> QED
      BY <3>3, <3>4
  <2>5. CASE ~(pos >= Len(executors))
    <3>1. ~crashed'
      BY <2>2, <2>5
    <3>2. pc' = [pc EXCEPT ![c] = "load"]
      BY <1>7, <3>1 DEF First
    <3>3. pos + 1 \in 1..Len(executors)
      BY <2>1, <2>5
    <3>4. TypeOK'
      BY <2>f, <2>1, <2>3, <3>2 DEF TypeOK
    <3>5. Asking'
      <4>1. index'[c] = pos + 1 /\ \A d \in Callers : d # c => index'[d] = index[d]
        BY <2>f DEF TypeOK
      <4>2. \A d \in Callers : d # c => pc'[d] = pc[d]
        BY <3>2 DEF TypeOK
      <4> QED
        BY <2>f, <3>3, <4>1, <4>2 DEF Asking
    <3> QED
      BY <3>4, <3>5
  <2> QED
    BY <2>4, <2>5
<1>8. ASSUME NEW c \in Callers, ReadTime(c) PROVE TypeOK' /\ Asking'
  <2>1. now \in 0..now
    BY Sizes DEF TypeOK
  <2>2. TypeOK'
    BY <1>8, <2>1, Sizes DEF ReadTime, TypeOK
  <2>3. Asking'
    BY <1>8 DEF ReadTime, Asking, TypeOK
  <2> QED
    BY <2>2, <2>3
<1>9. ASSUME NEW c \in Callers, TakeLoad(c) PROVE TypeOK' /\ Asking'
  <2>1. PICK p \in Pollers, v \in Loads : \E k \in 0..Len(records[p]) :
           /\ index[c] \in 1..Len(executors)
           /\ Left(p, k) \in Seq(Record)
           /\ records' = [records EXCEPT ![p] = Left(p, k)]
           /\ least' = [least EXCEPT ![c] = Less(@, index[c], v)]
           /\ IF minLoad[c] = -1 THEN Decide(c, v) ELSE Compare(c, v)
    BY <1>9, Takes
  <2>2. records' \in [Pollers -> Seq(Record)]
    BY <2>1 DEF TypeOK
  <2>3. Less(least[c], index[c], v) \in [load : Loads \cup {-1}, by : SUBSET Nat]
    BY <2>1, LessType DEF TypeOK
  <2>4. least' \in [Callers -> [load : Loads \cup {-1}, by : SUBSET Nat]]
    BY <2>1, <2>3 DEF TypeOK
  <2>5. pos' \in Nat
    BY <2>1, DecideType, CompareType
  <2>6. /\ minLoad' \in [Callers -> Loads \cup {-1}] /\ preferred' \in [Callers -> Nat]
        /\ index' \in [Callers -> Nat]
        /\ pc' \in [Callers -> {"out", "first", "load", "lock", "done"}]
    BY <2>1, DecideType, CompareType
  <2>7. /\ 0 \in 0..now
    BY Sizes DEF TypeOK
  <2>8. Asking'
    <3>1. Len(executors) \in Nat /\ executors' = executors
      BY <1>9 DEF TakeLoad, TypeOK
    <3>2. 1 \in 1..Len(executors)
      BY <2>1, <3>1
    <3>3. /\ \A d \in Callers : d # c => pc'[d] = pc[d] /\ index'[d] = index[d]
          /\ pc'[c] = "load" => index'[c] \in 1..Len(executors)
          /\ pc'[c] \in {"load", "done"}
      BY <2>1, <3>2, DecideType, CompareType
    <3> QED
      BY <3>1, <3>3 DEF Asking
  <2>9. current' \in [Callers -> 0..now] /\ crossed' \in [Callers -> 0..2]
    BY <1>9, <2>7 DEF TakeLoad, TypeOK
  <2>10. /\ UNCHANGED <<clock, executors, turns, waits, due, stamp, sleeping, lastSleep, lastWakeup,
                      crashed>>
    BY <1>9 DEF TakeLoad
  <2>11. TypeOK'
    BY <2>2, <2>4, <2>5, <2>6, <2>9, <2>10 DEF TypeOK
  <2> QED
    BY <2>8, <2>11
<1>10. ASSUME NEW c \in Callers, Return(c) PROVE TypeOK' /\ Asking'
  BY <1>10 DEF Return, TypeOK, Asking, NoLoad
<1> HIDE DEF clock, counter, search
<1> QED
  BY <1>1, <1>2, <1>3, <1>4, <1>5, <1>6, <1>7, <1>8, <1>9, <1>10 DEF Next, ReadSleep, ReadWakeup

\* Each step keeps the time a poller has read past its transitions.
LEMMA InStepKept ==
  ASSUME TypeOK, InStep, [Next]_vars
  PROVE  InStep'
<1> DEFINE Good(q) == q \in due' => lastSleep'[q] <= stamp'[q] /\ lastWakeup'[q] <= stamp'[q]
<1> SUFFICES ASSUME NEW q \in Pollers PROVE Good(q)
  <2>1. due' \subseteq Pollers \/ \A q \in due' : Good(q)
    <3>1. due \subseteq Pollers
      BY DEF TypeOK, Range
    <3> QED
      BY <3>1 DEF Next, vars, Tick, counter, AddEventPoller, ReadSleep, ReadWakeup, ReadStamp, OnSleep,
                  OnWakeup, Unlock, Begin, First, ReadTime, TakeLoad, Return
  <2> QED
    BY <2>1 DEF InStep
<1>0. q \in due => lastSleep[q] <= stamp[q] /\ lastWakeup[q] <= stamp[q]
  BY DEF InStep
<1>1. ASSUME UNCHANGED counter PROVE Good(q)
  BY <1>0, <1>1 DEF counter
<1>2. ASSUME NEW p \in Pollers, AddEventPoller(p) PROVE Good(q)
  <2>1. p \notin due
    BY <1>2 DEF AddEventPoller, TypeOK
  <2> QED
    BY <1>0, <1>2, <2>1 DEF AddEventPoller, TypeOK
<1>3. ASSUME NEW p \in Pollers, ReadStamp(p) PROVE Good(q)
  <2>1. lastSleep[q] <= now /\ lastWakeup[q] <= now
    BY Sizes DEF TypeOK
  <2> QED
    BY <1>0, <1>3, <2>1 DEF ReadStamp, TypeOK
<1>4. ASSUME NEW p \in Pollers, OnSleep(p) \/ OnWakeup(p) PROVE Good(q)
  <2>1. due' = due \ {p} /\ stamp' = [stamp EXCEPT ![p] = 0]
    BY <1>4 DEF OnSleep, OnWakeup, Unlock
  <2>2. q # p => lastSleep'[q] = lastSleep[q] /\ lastWakeup'[q] = lastWakeup[q]
    BY <1>4 DEF OnSleep, OnWakeup, TypeOK
  <2> QED
    BY <1>0, <2>1, <2>2 DEF TypeOK
<1> HIDE DEF Good
<1>5. ASSUME NEW c \in Callers, Begin(c) \/ First(c) \/ ReadTime(c) \/ Return(c) PROVE Good(q)
  BY <1>1, <1>5 DEF Begin, First, ReadTime, Return
<1>6. ASSUME NEW c \in Callers, TakeLoad(c) PROVE Good(q)
  BY <1>0, <1>6 DEF TakeLoad, Good
<1>7. ASSUME NEW wall \in Walls, Tick(wall) PROVE Good(q)
  BY <1>1, <1>7 DEF Tick
<1>8. ASSUME UNCHANGED vars PROVE Good(q)
  BY <1>1, <1>8 DEF vars
<1> QED
  BY <1>2, <1>3, <1>4, <1>5, <1>6, <1>7, <1>8 DEF Next, ReadSleep, ReadWakeup

-----------------------------------------------------------------------------
(* The records are a stretch of the past *)

\* Records that are one stretch of time until the given end.
Stretch(rs, end) == /\ Len(rs) <= MaxCount /\ Tiled(rs)
                    /\ rs # <<>> => rs[Len(rs)].from + rs[Len(rs)].time = end

\* A poller with its records, and what it does.
Turn(rs, up, waiting, asleep) ==
  /\ ~up => asleep
  /\ waiting => asleep
  /\ asleep /\ ~waiting => rs = <<>>
  /\ rs # <<>> => rs[Len(rs)].sleep = ~asleep

\* The two invariants for each poller.
LEMMA TileOf ==
  ASSUME TypeOK, Turns, RecordsTile, NEW p \in Pollers
  PROVE  /\ Stretch(records[p], IF p \in waits THEN lastSleep[p] ELSE lastWakeup[p])
         /\ Turn(records[p], p \in Range(executors), p \in waits, sleeping[p])
<1>1. records[p] \in Seq(Record)
  BY DEF TypeOK
<1>2. records[p] # <<>> => Len(records[p]) > 0
  BY <1>1
<1>3. Stretch(records[p], IF p \in waits THEN lastSleep[p] ELSE lastWakeup[p])
  BY <1>2 DEF RecordsTile, Stretch, Tiled
<1>4. Turn(records[p], p \in Range(executors), p \in waits, sleeping[p])
  BY Zenon DEF Turns, Turn
<1> QED
  BY <1>3, <1>4

\* What holds of each poller after a step is the invariants after it.
LEMMA TileKept ==
  ASSUME TypeOK', \A p \in Pollers :
           /\ Stretch(records'[p], IF p \in waits' THEN lastSleep'[p] ELSE lastWakeup'[p])
           /\ Turn(records'[p], p \in Range(executors)', p \in waits', sleeping'[p])
  PROVE  Turns' /\ RecordsTile'
<1>1. Turns'
  BY Zenon DEF Turns, Turn
<1>2. RecordsTile'
  <2>1. \A p \in Pollers : records'[p] \in Seq(Record)
    BY DEF TypeOK
  <2>2. \A p \in Pollers : Len(records'[p]) > 0 => records'[p] # <<>>
    OBVIOUS
  <2> QED
    BY <2>2 DEF RecordsTile, Stretch, Tiled
<1> QED
  BY <1>1, <1>2

\* A record of what a poller did until the given time.
LEMMA JoinRecord ==
  ASSUME NEW end \in 0..MaxNow, NEW rs \in Seq(Record), NEW t \in 0..end, NEW b \in BOOLEAN,
         Stretch(rs, t), rs # <<>> => rs[Len(rs)].sleep = ~b
  PROVE  LET ks == Keep(Append(rs, [sleep |-> b, from |-> t, time |-> (end - t) % SizeT])) IN
         /\ Stretch(ks, end)
         /\ ks # <<>> => ks[Len(ks)].sleep = b
<1>1. PICK r \in Record : r = [sleep |-> b, from |-> t, time |-> (end - t) % SizeT]
  BY Elapsed
<1>2. r.sleep = b /\ r.from = t /\ r.time = end - t
  BY <1>1, Elapsed
<1>3. rs # <<>> => /\ rs[Len(rs)].sleep # r.sleep
                   /\ rs[Len(rs)].from + rs[Len(rs)].time = r.from
  BY <1>2 DEF Stretch
<1>4. LET ks == Keep(Append(rs, r)) IN
         /\ ks \in Seq(Record) /\ Len(ks) <= MaxCount /\ Tiled(ks)
         /\ ks # <<>> => ks[Len(ks)] = r
  BY <1>3, KeepTiled DEF Stretch
<1>5. r.from + r.time = end
  BY <1>2, Sizes
<1> QED
  BY <1>1, <1>2, <1>4, <1>5, Zenon DEF Stretch

\* Each step keeps the records of each poller one stretch that ends at its last transition.
LEMMA TileStep ==
  ASSUME TypeOK, TypeOK', Asking, InStep, Turns, RecordsTile, [Next]_vars
  PROVE  Turns' /\ RecordsTile'
<1> DEFINE Good(p) ==
      /\ Stretch(records'[p], IF p \in waits' THEN lastSleep'[p] ELSE lastWakeup'[p])
      /\ Turn(records'[p], p \in Range(executors)', p \in waits', sleeping'[p])
<1> SUFFICES ASSUME NEW q \in Pollers PROVE Good(q)
  BY TileKept
<1>0. /\ Stretch(records[q], IF q \in waits THEN lastSleep[q] ELSE lastWakeup[q])
      /\ Turn(records[q], q \in Range(executors), q \in waits, sleeping[q])
  BY TileOf
<1>t. /\ stamp[q] \in 0..MaxNow /\ records[q] \in Seq(Record) /\ sleeping[q] \in BOOLEAN
      /\ q \in due => lastSleep[q] \in 0..stamp[q] /\ lastWakeup[q] \in 0..stamp[q]
  <2>1. /\ now \in 0..MaxNow /\ stamp[q] \in 0..now /\ lastSleep[q] \in 0..now
        /\ lastWakeup[q] \in 0..now
    BY DEF TypeOK
  <2> QED
    BY <2>1, Sizes DEF TypeOK, InStep
<1>1. CASE UNCHANGED <<counter, executors>>
  BY <1>0, <1>1 DEF counter
<1>3. ASSUME NEW p \in Pollers, AddEventPoller(p) PROVE Good(q)
  <2>1. p \notin Range(executors) /\ UNCHANGED <<waits, sleeping, records>>
    BY <1>3 DEF AddEventPoller
  <2>2. CASE p = q
    <3>1. sleeping[q] /\ q \notin waits
      BY <1>0, <2>1, <2>2 DEF Turn, TypeOK
    <3>2. records[q] = <<>>
      BY <1>0, <3>1 DEF Turn
    <3> QED
      BY <1>0, <2>1, <3>1, <3>2 DEF Stretch, Turn
  <2>3. CASE p # q
    <3>1. lastSleep'[q] = lastSleep[q] /\ lastWakeup'[q] = lastWakeup[q]
      BY <1>3, <2>3 DEF AddEventPoller, TypeOK
    <3>2. q \in Range(executors) => q \in Range(executors)'
      <4>1. \A i \in 1..Len(executors) : executors'[i] = executors[i] /\ i \in 1..Len(executors')
        BY <1>3 DEF AddEventPoller, TypeOK
      <4>2. executors \in Seq(Pollers) /\ executors' \in Seq(Pollers)
        BY DEF TypeOK
      <4> QED
        BY <4>1, <4>2 DEF Range
    <3> QED
      BY <1>0, <2>1, <3>1, <3>2 DEF Turn
  <2> QED
    BY <2>2, <2>3
<1>4. ASSUME NEW p \in Pollers, OnSleep(p) PROVE Good(q)
  <2>1. /\ p \in Range(executors) /\ p \notin waits /\ waits' = waits \cup {p} /\ p \in due
        /\ UNCHANGED <<executors, lastWakeup>>
        /\ sleeping' = [sleeping EXCEPT ![p] = TRUE]
        /\ lastSleep' = [lastSleep EXCEPT ![p] = stamp[p]]
    BY <1>4 DEF OnSleep, Unlock, TypeOK
  <2>2. CASE p # q
    <3>1. /\ lastSleep'[q] = lastSleep[q] /\ sleeping'[q] = sleeping[q]
          /\ q \in waits' <=> q \in waits
      BY <2>1, <2>2 DEF TypeOK
    <3>2. records'[q] = records[q]
      BY <1>4, <2>2 DEF OnSleep, Account, TypeOK
    <3> QED
      BY <1>0, <2>1, <3>1, <3>2 DEF Turn
  <2>3. CASE p = q
    <3>1. q \in waits' /\ q \in Range(executors)' /\ lastSleep'[q] = stamp[q] /\ sleeping'[q] = TRUE
      BY <2>1, <2>3 DEF TypeOK
    <3>2. CASE sleeping[q]
      <4>1. records'[q] = records[q] /\ records[q] = <<>>
        BY <1>0, <1>4, <2>1, <2>3, <3>2 DEF OnSleep, Account, Turn
      <4> QED
        BY <1>0, <3>1, <4>1 DEF Stretch, Turn
    <3>3. CASE ~sleeping[q]
      <4>1. records'[q] = Keep(Append(records[q],
                [sleep |-> FALSE, from |-> lastWakeup[q], time |-> (stamp[q] - lastWakeup[q]) % SizeT]))
        BY <1>4, <2>3, <3>3 DEF OnSleep, Account, TypeOK
      <4>2. Stretch(records[q], lastWakeup[q])
        BY <1>0, <2>1, <2>3
      <4>3. records[q] # <<>> => records[q][Len(records[q])].sleep = ~FALSE
        BY <1>0, <3>3 DEF Turn
      <4>4. /\ Stretch(records'[q], stamp[q])
            /\ records'[q] # <<>> => records'[q][Len(records'[q])].sleep = FALSE
        <5>1. stamp[q] \in 0..MaxNow /\ lastWakeup[q] \in 0..stamp[q] /\ records[q] \in Seq(Record)
          BY <1>t, <2>1, <2>3
        <5>2. PICK ks : ks = Keep(Append(records[q], [sleep |-> FALSE, from |-> lastWakeup[q],
                                              time |-> (stamp[q] - lastWakeup[q]) % SizeT]))
          OBVIOUS
        <5>3. Stretch(ks, stamp[q]) /\ (ks # <<>> => ks[Len(ks)].sleep = FALSE)
          BY <4>2, <4>3, <5>1, <5>2, JoinRecord
        <5> QED
          BY <4>1, <5>2, <5>3
      <4> QED
        BY <3>1, <4>4 DEF Turn
    <3> QED
      BY <3>2, <3>3
  <2> QED
    BY <2>2, <2>3
<1>5. ASSUME NEW p \in Pollers, OnWakeup(p) PROVE Good(q)
  <2>1. /\ p \in waits /\ waits' = waits \ {p} /\ p \in due
        /\ UNCHANGED <<executors, lastSleep>>
        /\ sleeping' = [sleeping EXCEPT ![p] = FALSE]
        /\ lastWakeup' = [lastWakeup EXCEPT ![p] = stamp[p]]
    BY <1>5 DEF OnWakeup, Unlock
  <2>2. CASE p # q
    <3>1. /\ lastWakeup'[q] = lastWakeup[q] /\ sleeping'[q] = sleeping[q]
          /\ q \in waits' <=> q \in waits
      BY <2>1, <2>2 DEF TypeOK
    <3>2. records'[q] = records[q]
      BY <1>5, <2>2 DEF OnWakeup, Account, TypeOK
    <3> QED
      BY <1>0, <2>1, <3>1, <3>2 DEF Turn
  <2>3. CASE p = q
    <3>1. q \notin waits' /\ lastWakeup'[q] = stamp[q] /\ sleeping'[q] = FALSE
      BY <2>1, <2>3 DEF TypeOK
    <3>2. sleeping[q] /\ q \in Range(executors)'
      BY <1>0, <2>1, <2>3 DEF Turn, TypeOK
    <3>3. records'[q] = Keep(Append(records[q],
              [sleep |-> TRUE, from |-> lastSleep[q], time |-> (stamp[q] - lastSleep[q]) % SizeT]))
      BY <1>5, <2>3, <3>2 DEF OnWakeup, Account, TypeOK
    <3>4. Stretch(records[q], lastSleep[q])
      BY <1>0, <2>1, <2>3
    <3>5. records[q] # <<>> => records[q][Len(records[q])].sleep = ~TRUE
      BY <1>0, <3>2 DEF Turn
    <3>6. /\ Stretch(records'[q], stamp[q])
          /\ records'[q] # <<>> => records'[q][Len(records'[q])].sleep = TRUE
      BY <1>t, <2>1, <2>3, <3>3, <3>4, <3>5, JoinRecord
    <3> QED
      BY <3>1, <3>2, <3>6 DEF Turn
  <2> QED
    BY <2>2, <2>3
<1>9. ASSUME NEW c \in Callers, TakeLoad(c) PROVE Good(q)
  <2>1. PICK p \in Pollers, v \in Loads : \E k \in 0..Len(records[p]) :
           records' = [records EXCEPT ![p] = Left(p, k)]
    BY <1>9, Takes
  <2>2. PICK k \in 0..Len(records[p]) : records' = [records EXCEPT ![p] = Left(p, k)]
    BY <2>1
  <2>3. UNCHANGED <<executors, waits, sleeping, lastSleep, lastWakeup>>
    BY <1>9 DEF TakeLoad
  <2>4. CASE p # q
    BY <1>0, <2>2, <2>3, <2>4 DEF TypeOK
  <2>5. CASE p = q
    <3>1. records'[q] = SubSeq(records[q], k + 1, Len(records[q])) /\ k \in 0..Len(records[q])
      BY <2>2, <2>5 DEF Left, TypeOK
    <3>2. /\ Len(records'[q]) = Len(records[q]) - k /\ Tiled(records'[q])
          /\ records'[q] # <<>> => /\ records[q] # <<>>
                                   /\ records'[q][Len(records'[q])] = records[q][Len(records[q])]
      <4>1. Tiled(records[q])
        BY <1>0 DEF Stretch
      <4>2. k \in 0..Len(records[q])
        BY <3>1
      <4>3. LET ss == SubSeq(records[q], k + 1, Len(records[q])) IN
              /\ Len(ss) = Len(records[q]) - k /\ Tiled(ss)
              /\ ss # <<>> => records[q] # <<>> /\ ss[Len(ss)] = records[q][Len(records[q])]
        BY <1>t, <4>1, <4>2, SuffixTiled
      <4> QED
        BY <3>1, <4>3, Zenon
    <3>3. Len(records'[q]) <= MaxCount
      <4>1. /\ Len(records[q]) \in Nat /\ k \in Nat /\ MaxCount \in Nat
            /\ Len(records[q]) <= MaxCount
        BY <1>0, <1>t, <3>1, Sizes DEF Stretch
      <4> QED
        BY <3>2, <4>1
    <3>4. Stretch(records'[q], IF q \in waits THEN lastSleep[q] ELSE lastWakeup[q])
      BY <1>0, <3>2, <3>3, Zenon DEF Stretch
    <3>5. Turn(records'[q], q \in Range(executors), q \in waits, sleeping[q])
      BY <1>0, <3>2, Zenon DEF Turn
    <3> QED
      BY <2>3, <3>4, <3>5
  <2> QED
    BY <2>4, <2>5
<1> HIDE DEF Good
<1>u. ASSUME UNCHANGED vars PROVE Good(q)
  BY <1>1, <1>u DEF vars
<1>v. ASSUME NEW c \in Callers, Begin(c) \/ First(c) \/ ReadTime(c) \/ Return(c) PROVE Good(q)
  BY <1>1, <1>v DEF Begin, First, ReadTime, Return
<1>w. ASSUME NEW wall \in Walls, Tick(wall) PROVE Good(q)
  BY <1>1, <1>w DEF Tick
<1>x. ASSUME NEW p \in Pollers, ReadStamp(p) PROVE Good(q)
  BY <1>0, <1>x DEF ReadStamp, Good
<1> QED
  BY <1>3, <1>4, <1>5, <1>9, <1>u, <1>v, <1>w, <1>x DEF Next, ReadSleep, ReadWakeup

-----------------------------------------------------------------------------
(* Loads are percentages *)

\* The poller a caller asks.
LEMMA Asked ==
  ASSUME TypeOK, Asking, NEW c \in Callers, pc[c] \in {"load", "lock"}
  PROVE  /\ index[c] \in 1..Len(executors) /\ executors[index[c]] \in Pollers
         /\ executors[index[c]] \in Range(executors)
<1>1. index[c] \in 1..Len(executors) /\ executors \in Seq(Pollers)
  BY DEF Asking, TypeOK
<1> QED
  BY <1>1 DEF Range

\* A caller that has got a load goes on to the next one or is done.
LEMMA GoesOn ==
  ASSUME TypeOK, Asking, NEW c \in Callers, TakeLoad(c)
  PROVE  /\ pc'[c] \in {"load", "done"}
         /\ \A d \in Callers : d # c => pc'[d] = pc[d] /\ index'[d] = index[d]
<1>1. PICK v \in Loads : /\ index[c] \in 1..Len(executors)
                      /\ IF minLoad[c] = -1 THEN Decide(c, v) ELSE Compare(c, v)
  BY Takes
<1> QED
  BY <1>1, DecideType, CompareType

\* Each step keeps the time that was read past the transitions of the poller that is asked.
LEMMA PunctualStep ==
  ASSUME TypeOK, TypeOK', Asking, Punctual, [Next]_vars
  PROVE  Punctual'
<1> SUFFICES ASSUME NEW d \in Callers, pc'[d] = "lock"
             PROVE  TimeIsPast(executors[index[d]], current[d], crossed[d])'
  BY DEF Punctual
<1> DEFINE q == executors[index[d]]
           Good == TimeIsPast(executors[index[d]], current[d], crossed[d])'
<1>0. pc[d] = "lock" => q \in Pollers /\ q \in Range(executors) /\ index[d] \in 1..Len(executors)
  BY Asked
<1>1. ASSUME pc[d] = "lock", lastSleep'[q] = lastSleep[q], lastWakeup'[q] = lastWakeup[q],
             sleeping'[q] = sleeping[q], executors'[index[d]] = executors[index[d]],
             index'[d] = index[d], current'[d] = current[d], crossed'[d] = crossed[d]
      PROVE  Good
  <2>1. TimeIsPast(q, current[d], crossed[d])
    BY <1>1 DEF Punctual
  <2> QED
    BY <1>1, <2>1 DEF TimeIsPast
<1>2. ASSUME UNCHANGED <<counter, executors, search>> PROVE Good
  BY <1>1, <1>2 DEF counter, search
<1>3. ASSUME NEW p \in Pollers, AddEventPoller(p) PROVE Good
  <2>1. /\ pc[d] = "lock" /\ index'[d] = index[d] /\ current'[d] = current[d]
        /\ crossed'[d] = crossed[d] /\ sleeping' = sleeping
    BY <1>3 DEF AddEventPoller, search
  <2>2. p # q
    BY <1>0, <1>3, <2>1 DEF AddEventPoller
  <2>3. lastSleep'[q] = lastSleep[q] /\ lastWakeup'[q] = lastWakeup[q]
    BY <1>0, <1>3, <2>1, <2>2 DEF AddEventPoller, TypeOK
  <2>4. executors'[index[d]] = executors[index[d]]
    BY <1>0, <1>3, <2>1 DEF AddEventPoller, TypeOK
  <2> QED
    BY <1>1, <2>1, <2>3, <2>4
<1>4. ASSUME NEW p \in Pollers, OnSleep(p) \/ OnWakeup(p) PROVE Good
  <2>1. UNCHANGED <<executors, pc, current, index>> /\ Cross(p)
    BY <1>4 DEF OnSleep, OnWakeup, Unlock
  <2>2. pc[d] = "lock" /\ q \in Pollers
    BY <1>0, <2>1
  <2>3. CASE p # q
    <3>1. crossed'[d] = crossed[d]
      BY <2>1, <2>3 DEF Cross
    <3>2. lastSleep'[q] = lastSleep[q] /\ lastWakeup'[q] = lastWakeup[q] /\ sleeping'[q] = sleeping[q]
      BY <1>4, <2>2, <2>3 DEF OnSleep, OnWakeup, TypeOK
    <3> QED
      BY <1>1, <2>1, <2>2, <3>1, <3>2
  <2>4. CASE p = q
    <3>1. crossed[d] \in 0..2 /\ crossed'[d] = IF crossed[d] < 2 THEN crossed[d] + 1 ELSE crossed[d]
      BY <2>1, <2>2, <2>4 DEF Cross, TypeOK
    <3>2. CASE crossed[d] # 0
      BY <3>1, <3>2 DEF TimeIsPast
    <3>3. CASE crossed[d] = 0
      <4>1. lastSleep[q] <= current[d] /\ lastWakeup[q] <= current[d] /\ crossed'[d] # 0
        BY <2>2, <3>1, <3>3 DEF Punctual, TimeIsPast
      <4>2. (IF sleeping'[q] THEN lastWakeup'[q] ELSE lastSleep'[q]) <= current[d]
        BY <1>4, <2>2, <2>4, <4>1 DEF OnSleep, OnWakeup, TypeOK
      <4> QED
        BY <2>1, <4>1, <4>2 DEF TimeIsPast
    <3> QED
      BY <3>2, <3>3
  <2> QED
    BY <2>3, <2>4
<1>5. ASSUME NEW c \in Callers, Begin(c) \/ First(c) \/ TakeLoad(c) \/ Return(c) PROVE Good
  <2>1. pc'[c] # "lock"
    <3>1. CASE Begin(c) \/ First(c) \/ Return(c)
      BY <3>1 DEF Begin, First, Return, TypeOK
    <3>2. CASE TakeLoad(c)
      BY <3>2, GoesOn
    <3> QED
      BY <1>5, <3>1, <3>2
  <2>2. d # c
    BY <2>1
  <2>3. /\ UNCHANGED <<executors, sleeping, lastSleep, lastWakeup>>
        /\ pc'[d] = pc[d] /\ index'[d] = index[d] /\ current'[d] = current[d] /\ crossed'[d] = crossed[d]
    <3>1. CASE Begin(c) \/ First(c) \/ Return(c)
      BY <2>2, <3>1 DEF Begin, First, Return, TypeOK, counter
    <3>2. CASE TakeLoad(c)
      <4>1. pc'[d] = pc[d] /\ index'[d] = index[d]
        BY <2>2, <3>2, GoesOn
      <4> QED
        BY <2>2, <3>2, <4>1 DEF TakeLoad, TypeOK
    <3> QED
      BY <1>5, <3>1, <3>2
  <2> QED
    BY <1>1, <2>3
<1>6. ASSUME NEW c \in Callers, ReadTime(c) PROVE Good
  <2>1. UNCHANGED <<executors, sleeping, lastSleep, lastWakeup, index>>
    BY <1>6 DEF ReadTime, counter
  <2>2. CASE c = d
    <3>1. current'[d] = now /\ pc[d] = "load"
      BY <1>6, <2>2 DEF ReadTime, TypeOK
    <3>2. q \in Pollers
      BY <3>1, Asked
    <3>3. lastSleep[q] <= now /\ lastWakeup[q] <= now
      BY <3>2, Sizes DEF TypeOK
    <3> QED
      BY <2>1, <3>1, <3>3 DEF TimeIsPast
  <2>3. CASE c # d
    <3>1. pc'[d] = pc[d] /\ current'[d] = current[d] /\ crossed'[d] = crossed[d]
      BY <1>6, <2>3 DEF ReadTime, TypeOK
    <3> QED
      BY <1>1, <2>1, <3>1
  <2> QED
    BY <2>2, <2>3
<1>7. ASSUME NEW p \in Pollers, ReadStamp(p) PROVE Good
  BY <1>1, <1>7 DEF ReadStamp, search
<1> HIDE DEF Good
<1>8. ASSUME NEW wall \in Walls, Tick(wall) PROVE Good
  BY <1>2, <1>8 DEF Tick
<1>9. ASSUME UNCHANGED vars PROVE Good
  BY <1>2, <1>9 DEF vars
<1>10. Good
  BY <1>3, <1>4, <1>5, <1>6, <1>7, <1>8, <1>9 DEF Next, ReadSleep, ReadWakeup
<1> QED
  BY <1>10 DEF Good

\* No record, no time.
LEMMA NoTime ==
  ASSUME NEW kind
  PROVE  TimeOf(<<>>, kind) = 0
<1>1. <<>> \in Seq(Record) /\ Len(<<>>) = 0
  OBVIOUS
<1> QED
  BY <1>1, Sums

\* The records that are left are no longer than the clock has run.
LEMMA TimesFit ==
  ASSUME NEW rs \in Seq(Record), NEW end \in 0..MaxNow, Stretch(rs, end)
  PROVE  TimeOf(rs, FALSE) + TimeOf(rs, TRUE) <= MaxNow
<1>a. PICK a \in Nat : a = TimeOf(rs, FALSE)
  BY TimeType
<1>b. PICK b \in Nat : b = TimeOf(rs, TRUE)
  BY TimeType
<1> SUFFICES a + b <= MaxNow
  BY <1>a, <1>b, Zenon
<1>m. MaxNow \in Nat
  BY Sizes
<1>1. CASE rs = <<>>
  <2>1. a = 0 /\ b = 0
    BY <1>1, <1>a, <1>b, NoTime
  <2> QED
    BY <2>1, <1>m
<1>2. CASE rs # <<>>
  <2>1. rs[1] \in Record
    BY <1>2
  <2>2. rs[1].from \in Nat
    BY <2>1, Sizes DEF Record
  <2>3. Tiled(rs) /\ rs[Len(rs)].from + rs[Len(rs)].time = end
    BY <1>2 DEF Stretch
  <2>4. a + b = rs[Len(rs)].from + rs[Len(rs)].time - rs[1].from
    BY <1>2, <1>a, <1>b, <2>3, TimesOfTile, Zenon
  <2>5. rs[Len(rs)] \in Record
    BY <1>2
  <2>6. PICK f \in Nat, t \in Nat, g \in Nat :
          f = rs[Len(rs)].from /\ t = rs[Len(rs)].time /\ g = rs[1].from
    <3>1. rs[Len(rs)].from \in Nat /\ rs[Len(rs)].time \in Nat
      BY <2>5, Sizes DEF Record
    <3> QED
      BY <2>2, <3>1, Zenon
  <2>7. a + b = f + t - g /\ f + t = end
    BY <2>3, <2>4, <2>6, Zenon
  <2> QED
    BY <1>m, <2>7
<1> QED
  BY <1>1, <1>2

\* A caller whose poller has moved at most once since it read the time gets a percentage.
LEMMA LoadsArePercent ==
  ASSUME TypeOK, Asking, Turns, RecordsTile, Punctual
  PROVE  PunctualLoad
<1> SUFFICES ASSUME NEW c \in Callers, pc[c] = "lock", crossed[c] <= 1
             PROVE  Load(executors[index[c]], current[c]).values \subseteq 0..100
  BY DEF PunctualLoad, LoadsAtLock
<1>1. PICK p \in Pollers : p = executors[index[c]]
  BY Asked
<1>2. PICK at \in 0..now : at = current[c]
  BY DEF TypeOK
<1>3. (IF sleeping[p] THEN lastWakeup[p] ELSE lastSleep[p]) <= at
  BY <1>1, <1>2 DEF Punctual, TimeIsPast
<1>4. /\ now \in Nat /\ now <= MaxNow /\ MaxNow \in Nat /\ at \in Nat /\ at <= MaxNow /\ SizeT \in Nat
      /\ lastSleep[p] \in Nat /\ lastWakeup[p] \in Nat /\ 2 * MaxNow < SizeT
      /\ lastSleep[p] \in 0..MaxNow /\ lastWakeup[p] \in 0..MaxNow
  BY Sizes DEF TypeOK
<1>5. records[p] \in Seq(Record) /\ sleeping[p] \in BOOLEAN
  BY DEF TypeOK
<1>6. PICK k \in 0..Len(records[p]) :
         Load(p, at) = [values |-> IF Total(p, at, k) = 0 THEN {0}
                                   ELSE AsInt((100 * RunTime(p, at, k)) \div Total(p, at, k)),
                        left   |-> Left(p, k)]
  <2>1. /\ at \in Int /\ lastSleep[p] \in Int /\ lastWakeup[p] \in Int
    BY <1>4
  <2>2. records \in [Pollers -> Seq(Record)] /\ sleeping \in [Pollers -> BOOLEAN]
    BY DEF TypeOK
  <2> QED
    BY <2>1, <2>2, LoadIs
<1>7. Left(p, k) \in Seq(Record)
  BY <1>5 DEF Left
<1>8. PICK end \in 0..MaxNow : Stretch(records[p], end)
  <2>1. Stretch(records[p], IF p \in waits THEN lastSleep[p] ELSE lastWakeup[p])
    BY TileOf
  <2> QED
    BY <1>4, <2>1
<1>9. Stretch(Left(p, k), end)
  <2>1. Tiled(records[p]) /\ Len(records[p]) <= MaxCount /\ Len(records[p]) \in Nat /\ k \in Nat
    BY <1>5, <1>8 DEF Stretch
  <2>2. LET ss == SubSeq(records[p], k + 1, Len(records[p])) IN
         /\ ss \in Seq(Record) /\ Len(ss) = Len(records[p]) - k /\ Tiled(ss)
         /\ ss # <<>> => records[p] # <<>> /\ ss[Len(ss)] = records[p][Len(records[p])]
    BY <1>5, <2>1, SuffixTiled
  <2>3. Len(records[p]) - k <= MaxCount
    BY <2>1, Sizes
  <2> QED
    BY <1>8, <2>2, <2>3, Zenon DEF Left, Stretch
<1>a. PICK a \in Nat : a = TimeOf(Left(p, k), FALSE)
  BY <1>7, TimeType
<1>b. PICK b \in Nat : b = TimeOf(Left(p, k), TRUE)
  BY <1>7, TimeType
<1>c. a + b <= MaxNow
  BY <1>7, <1>9, <1>a, <1>b, TimesFit
<1>d. PICK d \in 0..MaxNow : d = Pending(p, at)
  <2>1. PICK t \in 0..at : t = IF sleeping[p] THEN lastWakeup[p] ELSE lastSleep[p]
    BY <1>3, <1>4
  <2>2. at - t \in 0..MaxNow /\ at - t < SizeT
    BY <1>4
  <2>3. Pending(p, at) = (at - t) % SizeT
    BY <2>1 DEF Pending
  <2> QED
    BY <2>2, <2>3, Remainder
<1>e. Total(p, at, k) = a + b + d
  <2>1. a + b + d \in Int /\ 0 <= a + b + d /\ a + b + d < SizeT
    BY <1>4, <1>c
  <2>2. Total(p, at, k) = (a + b + d) % SizeT
    BY <1>a, <1>b, <1>d, Zenon DEF Total
  <2> QED
    BY <2>1, <2>2, Remainder
<1>f. RunTime(p, at, k) \in Nat /\ RunTime(p, at, k) <= a + b + d
  <2>1. PICK e \in 0..MaxNow : e <= d /\ e = IF sleeping[p] THEN 0 ELSE d
    BY <1>4
  <2>2. a + e \in Int /\ 0 <= a + e /\ a + e < SizeT
    BY <1>4, <1>c
  <2>3. RunTime(p, at, k) = (a + e) % SizeT
    BY <1>a, <1>d, <2>1, Zenon DEF RunTime
  <2>4. RunTime(p, at, k) = a + e
    BY <2>2, <2>3, Remainder
  <2> QED
    BY <2>1, <2>4
<1>g. Load(p, at).values \subseteq 0..100
  <2>1. CASE a + b + d = 0
    <3>1. Load(p, at).values = {0}
      BY <1>6, <1>e, <2>1
    <3> QED
      BY <3>1
  <2>2. CASE a + b + d # 0
    <3>1. Total(p, at, k) \in Nat /\ Total(p, at, k) # 0 /\ RunTime(p, at, k) <= Total(p, at, k)
      BY <1>e, <1>f, <2>2
    <3>2. PICK q \in Nat : q <= 100 /\ q = (100 * RunTime(p, at, k)) \div Total(p, at, k)
      BY <1>f, <3>1, Percent
    <3>3. Load(p, at).values = AsInt(q)
      <4>1. Load(p, at).values = IF Total(p, at, k) = 0 THEN {0}
                                 ELSE AsInt((100 * RunTime(p, at, k)) \div Total(p, at, k))
        BY <1>6
      <4> QED
        BY <3>1, <3>2, <4>1, Zenon
    <3>4. q \in Nat /\ q <= 100
      BY <3>2, Zenon
    <3> HIDE <3>2
    <3>5. AsInt(q) = {q} /\ q \in 0..100
      BY <3>4, Sizes DEF AsInt
    <3> QED
      BY <3>3, <3>5
  <2> QED
    BY <2>1, <2>2
<1> QED
  BY <1>1, <1>2, <1>g

-----------------------------------------------------------------------------
(* The least of the loads *)

\* Each step keeps the choice of a call the best of what it has seen.
LEMMA SearchStep ==
  ASSUME TypeOK, TypeOK', Asking, Searching, [Next]_vars
  PROVE  Searching'
<1> DEFINE Good(d) ==
        /\ minLoad'[d] = least'[d].load
        /\ pc'[d] \in {"out", "first"} => minLoad'[d] = -1
        /\ pc'[d] = "done" => minLoad'[d] # -1
        /\ minLoad'[d] = -1 => least'[d] = NoLoad
        /\ minLoad'[d] = -1 /\ pc'[d] \in {"load", "lock"} => preferred'[d] = index'[d]
        /\ minLoad'[d] # -1 => preferred'[d] \in least'[d].by
<1> SUFFICES ASSUME NEW d \in Callers PROVE Good(d)
  BY DEF Searching
<1>0. /\ minLoad[d] = least[d].load
      /\ pc[d] \in {"out", "first"} => minLoad[d] = -1
      /\ pc[d] = "done" => minLoad[d] # -1
      /\ minLoad[d] = -1 => least[d] = NoLoad
      /\ minLoad[d] = -1 /\ pc[d] \in {"load", "lock"} => preferred[d] = index[d]
      /\ minLoad[d] # -1 => preferred[d] \in least[d].by
  BY DEF Searching
<1>1. ASSUME minLoad'[d] = minLoad[d], least'[d] = least[d], preferred'[d] = preferred[d],
             index'[d] = index[d],
             \/ pc'[d] = pc[d]
             \/ pc[d] = "out" /\ pc'[d] = "first"
             \/ pc[d] = "load" /\ pc'[d] = "lock"
      PROVE  Good(d)
  BY <1>0, <1>1
<1>2. CASE UNCHANGED search
  BY <1>1, <1>2 DEF search
<1>3. ASSUME NEW c \in Callers, Begin(c) \/ ReadTime(c) PROVE Good(d)
  BY <1>1, <1>3 DEF Begin, ReadTime, TypeOK
<1>4. ASSUME NEW c \in Callers, First(c) PROVE Good(d)
  <2>1. /\ pc[c] = "first" /\ UNCHANGED <<minLoad, least>>
        /\ index' = [index EXCEPT ![c] = pos + 1] /\ preferred' = [preferred EXCEPT ![c] = pos + 1]
        /\ pc' = [pc EXCEPT ![c] = IF crashed' THEN "first" ELSE "load"]
    BY <1>4 DEF First
  <2>2. CASE d # c
    BY <1>1, <2>1, <2>2 DEF TypeOK
  <2>3. CASE d = c
    <3>1. /\ index'[d] = pos + 1 /\ preferred'[d] = pos + 1
          /\ minLoad'[d] = -1 /\ least'[d] = NoLoad /\ pc'[d] \in {"first", "load"}
      BY <1>0, <2>1, <2>3 DEF TypeOK
    <3> QED
      BY <3>1 DEF NoLoad
  <2> QED
    BY <2>2, <2>3
<1>5. ASSUME NEW c \in Callers, Return(c) PROVE Good(d)
  <2>1. CASE d # c
    BY <1>1, <1>5, <2>1 DEF Return, TypeOK
  <2>2. CASE d = c
    <3>1. minLoad'[d] = -1 /\ least'[d] = NoLoad /\ pc'[d] = "out"
      BY <1>5, <2>2 DEF Return, TypeOK
    <3> QED
      BY <3>1 DEF NoLoad
  <2> QED
    BY <2>1, <2>2
<1>6. ASSUME NEW c \in Callers, TakeLoad(c) PROVE Good(d)
  <2>0. PICK v \in Loads :
           /\ index[c] \in 1..Len(executors)
           /\ least' = [least EXCEPT ![c] = Less(@, index[c], v)]
           /\ IF minLoad[c] = -1 THEN Decide(c, v) ELSE Compare(c, v)
    BY <1>6, Takes
  <2>1. CASE d # c
    <3>1. pc'[d] = pc[d] /\ index'[d] = index[d]
      BY <1>6, <2>1, GoesOn
    <3>2. least'[d] = least[d]
      BY <2>0, <2>1 DEF TypeOK
    <3>3. minLoad'[d] = minLoad[d] /\ preferred'[d] = preferred[d]
      BY <2>0, <2>1 DEF Decide, Compare, TypeOK
    <3> QED
      BY <1>1, <3>1, <3>2, <3>3
  <2>2. CASE d = c
    <3>1. pc'[d] \in {"load", "done"}
      BY <1>6, <2>2, GoesOn
    <3>2. least'[d] = Less(least[d], index[d], v)
      BY <2>0, <2>2 DEF TypeOK
    <3>3. CASE minLoad[d] = -1
      <4>1. Decide(d, v)
        BY <2>0, <2>2, <3>3
      <4>2. minLoad'[d] = v /\ preferred'[d] = preferred[d] /\ preferred[d] = index[d]
        BY <1>0, <1>6, <2>2, <3>3, <4>1 DEF Decide, TypeOK, TakeLoad
      <4>3. least[d] = NoLoad /\ v # -1
        BY <1>0, <3>3, LoadSet
      <4>4. Less(NoLoad, index[d], v) = [load |-> v, by |-> {index[d]}]
        BY <4>3 DEF Less, NoLoad
      <4>5. least'[d].load = v /\ least'[d].by = {index[d]}
        BY <3>2, <4>3, <4>4
      <4> QED
        BY <3>1, <4>2, <4>3, <4>5
    <3>4. CASE minLoad[d] # -1
      <4>1. Compare(d, v)
        BY <2>0, <2>2, <3>4
      <4>2. /\ minLoad[d] \in Int /\ v \in Int
            /\ least[d] # NoLoad /\ least[d].load = minLoad[d]
        <5>1. minLoad[d] \in Loads
          BY <3>4 DEF TypeOK
        <5>2. minLoad[d] \in Int /\ v \in Int
          BY <5>1, LoadSet
        <5> QED
          BY <1>0, <3>4, <5>2 DEF NoLoad
      <4>3. least'[d].load = IF v < minLoad[d] THEN v ELSE minLoad[d]
        BY <3>2, <4>2 DEF Less
      <4>4. least'[d].by = IF v = minLoad[d] THEN least[d].by \cup {index[d]}
                           ELSE IF v < minLoad[d] THEN {index[d]} ELSE least[d].by
        BY <3>2, <4>2 DEF Less
      <4>5. CASE v <= minLoad[d]
        <5>1. minLoad'[d] = v /\ preferred'[d] = index[d]
          BY <4>1, <4>5 DEF Compare, TypeOK
        <5>2. least'[d].load = v /\ index[d] \in least'[d].by
          BY <4>2, <4>3, <4>4, <4>5
        <5>3. v # -1
          BY LoadSet
        <5> QED
          BY <3>1, <5>1, <5>2, <5>3
      <4>6. CASE ~(v <= minLoad[d])
        <5>1. minLoad'[d] = minLoad[d] /\ preferred'[d] = preferred[d]
          BY <4>1, <4>6 DEF Compare, TypeOK
        <5>2. least'[d].load = minLoad[d] /\ least'[d].by = least[d].by
          BY <4>2, <4>3, <4>4, <4>6
        <5> QED
          BY <1>0, <3>1, <3>4, <5>1, <5>2
      <4> QED
        BY <4>5, <4>6
    <3> QED
      BY <3>3, <3>4
  <2> QED
    BY <2>1, <2>2
<1>7. ASSUME NEW p \in Pollers, AddEventPoller(p) PROVE Good(d)
  BY <1>1, <1>7 DEF AddEventPoller, search
<1>8. ASSUME NEW p \in Pollers, ReadStamp(p) \/ OnSleep(p) \/ OnWakeup(p) PROVE Good(d)
  BY <1>1, <1>8 DEF ReadStamp, OnSleep, OnWakeup, Unlock, search
<1> HIDE DEF Good
<1>9. ASSUME NEW wall \in Walls, Tick(wall) PROVE Good(d)
  BY <1>2, <1>9 DEF Tick
<1>10. CASE UNCHANGED vars
  BY <1>2, <1>10 DEF vars
<1> QED
  BY <1>3, <1>4, <1>5, <1>6, <1>7, <1>8, <1>9, <1>10 DEF Next, ReadSleep, ReadWakeup

-----------------------------------------------------------------------------
(* The theorems *)

\* The inductive invariant.
PoolInv == TypeOK /\ Asking /\ InStep /\ Turns /\ RecordsTile /\ Punctual /\ Searching

\* The invariant holds before anything has run.
LEMMA InitInv == Init => PoolInv
<1> SUFFICES ASSUME Init PROVE PoolInv
  OBVIOUS
<1>1. /\ Range(executors) = {} /\ executors \in Seq(Pollers) /\ Len(executors) = 0
  BY DEF Init, Range
<1>2. /\ \A S : <<>> \in Seq(S)
      /\ Len(<<>>) = 0
  OBVIOUS
<1>3. TypeOK
  <2>1. now \in 0..MaxNow /\ 0 \in 0..now
    BY Sizes DEF Init
  <2>2. /\ lastSleep \in [Pollers -> 0..now] /\ lastWakeup \in [Pollers -> 0..now]
        /\ current \in [Callers -> 0..now] /\ stamp \in [Pollers -> 0..now]
    BY <2>1 DEF Init
  <2>3. records \in [Pollers -> Seq(Record)] /\ waits \subseteq Range(executors)
        /\ turns \in 0..MaxTurns /\ due \subseteq Range(executors)
    BY <1>2, Sizes DEF Init
  <2>4. /\ minLoad \in [Callers -> Loads \cup {-1}]
        /\ least \in [Callers -> [load : Loads \cup {-1}, by : SUBSET Nat]]
        /\ pos \in Nat
    BY DEF Init, NoLoad
  <2>5. sleeping \in [Pollers -> BOOLEAN] /\ crashed \in BOOLEAN /\ last \in Walls
    BY DEF Init
  <2>6. /\ pc \in [Callers -> {"out", "first", "load", "lock", "done"}]
        /\ crossed \in [Callers -> 0..2] /\ index \in [Callers -> Nat]
        /\ preferred \in [Callers -> Nat]
    BY DEF Init
  <2> QED
    BY <1>1, <2>1, <2>2, <2>3, <2>4, <2>5, <2>6 DEF TypeOK
<1>4. Asking /\ InStep /\ Punctual /\ Searching
  BY DEF Init, Asking, InStep, Punctual, Searching, NoLoad
<1>5. Turns
  BY DEF Init, Turns
<1>6. RecordsTile
  BY Sizes DEF Init, RecordsTile
<1> QED
  BY <1>3, <1>4, <1>5, <1>6 DEF PoolInv

\* Each step keeps it.
LEMMA InvKept == PoolInv /\ [Next]_vars => PoolInv'
<1> SUFFICES ASSUME PoolInv, [Next]_vars PROVE PoolInv'
  OBVIOUS
<1>1. TypeOK /\ Asking /\ InStep /\ Turns /\ RecordsTile /\ Punctual /\ Searching
  BY DEF PoolInv
<1>2. TypeOK' /\ Asking' /\ InStep'
  BY <1>1, TypeStep, InStepKept
<1>3. Turns' /\ RecordsTile'
  BY <1>1, <1>2, TileStep
<1>4. Punctual'
  BY <1>1, <1>2, PunctualStep
<1>5. Searching'
  BY <1>1, <1>2, SearchStep
<1> QED
  BY <1>2, <1>3, <1>4, <1>5 DEF PoolInv

\* It is always true.
LEMMA InvHolds == Spec => []PoolInv
BY InitInv, InvKept, PTL DEF Spec

\* Every variable keeps its type: a load is an int that is never -1, a percentage of any size
\* or what the conversion makes of one that is too great, and a record lasts no longer than
\* the clock has run (ThreadLoadCounter.h:36-95, ThreadLoadCounter.cc:143).
THEOREM PoolTyping == Spec => []TypeOK
<1>1. PoolInv => TypeOK
  BY DEF PoolInv
<1> QED
  BY <1>1, InvHolds, PTL

\* The records of a poller are one stretch of its past, up to its last transition, whatever
\* other threads drop from their front (ThreadLoadCounter.cc:36-47, 72-82, 128-138).
THEOREM Tiles == Spec => []RecordsTile
<1>1. PoolInv => RecordsTile
  BY DEF PoolInv
<1> QED
  BY <1>1, InvHolds, PTL

\* The poller that is chosen had the least of the loads its call has taken, whatever other
\* callers do to pos_ meanwhile (TaskExecutorGetter.cc:15-34).
THEOREM LeastIsChosen == Spec => []LeastLoaded
<1>1. PoolInv => LeastLoaded
  BY Zenon DEF PoolInv, Searching, LeastLoaded
<1> QED
  BY <1>1, InvHolds, PTL

\* A load is between 0 and 100 unless its poller both sleeps and wakes between the reading
\* of the time and the lock: the sums and the window loop do not wrap around, and the int
\* holds the quotient (ThreadLoadCounter.cc:93-143).
THEOREM PercentInTime == Spec => []PunctualLoad
<1>1. PoolInv => PunctualLoad
  BY LoadsArePercent DEF PoolInv
<1> QED
  BY <1>1, InvHolds, PTL

-----------------------------------------------------------------------------
(* Semphore *)

\* The variables keep their types (Semphore.h:65).
THEOREM SemphoreTyping == SemSpec => []SemTypeOK
<1>1. SemInit => SemTypeOK
  BY DEF SemInit, SemTypeOK
<1>2. SemTypeOK /\ [SemNext]_semVars => SemTypeOK'
  BY PostAssumption
     DEF SemTypeOK, SemNext, semVars, Wait, Recheck, SpuriousWakeup, Post, NotifyOne,
         NotifyAll, Blocked
<1> QED
  BY <1>1, <1>2, PTL DEF SemSpec

\* The notified threads are finitely many, so they can be counted.
LEMMA WokenFinite == IsFiniteSet(Woken) /\ Cardinality(Woken) \in Nat
<1>1. Woken \in SUBSET Threads
  BY DEF Woken
<1> QED
  BY <1>1, ThreadsAssumption, FS_Subset, FS_CardinalityType

\* A thread that leaves the woken set takes one from its size.
LEMMA OneLeaves ==
  ASSUME SemTypeOK, NEW t \in Threads, st[t] = "woken",
         NEW s \in {"running", "blocked"}, st' = [st EXCEPT ![t] = s]
  PROVE  Cardinality(Woken') = Cardinality(Woken) - 1
<1>1. Woken' = Woken \ {t}
  BY DEF Woken, SemTypeOK
<1>2. t \in Woken
  BY DEF Woken
<1> QED
  BY <1>1, <1>2, WokenFinite, FS_RemoveElement

\* A thread that is notified adds one to its size.
LEMMA OneJoins ==
  ASSUME SemTypeOK, NEW t \in Threads, st[t] = "blocked",
         st' = [st EXCEPT ![t] = "woken"]
  PROVE  Cardinality(Woken') = Cardinality(Woken) + 1
<1>1. Woken' = Woken \cup {t}
  BY DEF Woken, SemTypeOK
<1>2. t \notin Woken
  BY DEF Woken
<1> QED
  BY <1>1, <1>2, WokenFinite, FS_AddElement

\* Semphore never strands a permit beside a sleeping thread (Semphore.h:21-61).
THEOREM NoPermitStranded == SemSpec => []NoStrandedPermit
<1>1. SemInit => NoStrandedPermit
  BY DEF SemInit, NoStrandedPermit, Blocked
<1>2. SemTypeOK /\ NoStrandedPermit /\ [SemNext]_semVars => NoStrandedPermit'
  <2> SUFFICES ASSUME SemTypeOK, NoStrandedPermit, [SemNext]_semVars, Blocked' # {}
               PROVE  nn' <= Cardinality(Woken')
    BY DEF NoStrandedPermit
  <2> USE WokenFinite
  <2>1. CASE UNCHANGED semVars
    BY <2>1 DEF semVars, NoStrandedPermit, Blocked, Woken
  <2>2. ASSUME NEW t \in Threads, Wait(t)
        PROVE  nn' <= Cardinality(Woken')
    <3>1. Woken' = Woken
      BY <2>2 DEF Wait, Woken, SemTypeOK
    <3>2. CASE nn = 0
      BY <2>2, <3>1, <3>2 DEF Wait
    <3>3. CASE nn > 0
      <4>1. Blocked' = Blocked /\ nn' = nn - 1
        BY <2>2, <3>3 DEF Wait, Blocked
      <4> QED
        BY <3>1, <4>1 DEF NoStrandedPermit, SemTypeOK
    <3> QED
      BY <3>2, <3>3 DEF SemTypeOK
  <2>3. ASSUME NEW t \in Threads, Recheck(t)
        PROVE  nn' <= Cardinality(Woken')
    <3>0. st[t] = "woken" /\ t \in Woken
      BY <2>3 DEF Recheck, Woken
    <3>1. CASE nn = 0
      <4>1. Cardinality(Woken') = Cardinality(Woken) - 1
        BY <2>3, <3>0, <3>1, OneLeaves DEF Recheck
      <4>2. Cardinality(Woken) # 0
        BY <3>0, FS_EmptySet
      <4>3. nn' = 0
        BY <2>3, <3>1 DEF Recheck
      <4> QED
        BY <4>1, <4>2, <4>3
    <3>2. CASE nn > 0
      <4>1. /\ Cardinality(Woken') = Cardinality(Woken) - 1
            /\ nn' = nn - 1
            /\ st' = [st EXCEPT ![t] = "running"]
        BY <2>3, <3>0, <3>2, OneLeaves DEF Recheck
      <4>2. Blocked' = Blocked
        BY <3>0, <4>1 DEF Blocked, SemTypeOK
      <4> QED
        BY <4>1, <4>2 DEF NoStrandedPermit, SemTypeOK
    <3> QED
      BY <3>1, <3>2 DEF SemTypeOK
  <2>4. ASSUME NEW t \in Threads, SpuriousWakeup(t)
        PROVE  nn' <= Cardinality(Woken')
    <3>1. Cardinality(Woken') = Cardinality(Woken) + 1 /\ nn' = nn
      BY <2>4, OneJoins DEF SpuriousWakeup
    <3>2. Blocked # {}
      BY <2>4 DEF SpuriousWakeup, Blocked
    <3> QED
      BY <3>1, <3>2 DEF NoStrandedPermit, SemTypeOK
  <2>5. ASSUME NEW n \in PostSizes, Post(n)
        PROVE  nn' <= Cardinality(Woken')
    <3>1. CASE n = 1 /\ Blocked # {}
      <4>1. PICK t \in Blocked : st' = [st EXCEPT ![t] = "woken"]
        BY <2>5, <3>1 DEF Post, NotifyOne
      <4>2. Cardinality(Woken') = Cardinality(Woken) + 1
        BY <4>1, OneJoins DEF Blocked
      <4>3. nn' = nn + 1
        BY <2>5, <3>1 DEF Post
      <4> QED
        BY <3>1, <4>2, <4>3 DEF NoStrandedPermit, SemTypeOK
    <3>2. CASE n = 1 /\ Blocked = {}
      BY <2>5, <3>2 DEF Post, NotifyOne, Blocked
    <3>3. CASE n # 1
      BY <2>5, <3>3 DEF Post, NotifyAll, Blocked
    <3> QED
      BY <3>1, <3>2, <3>3
  <2> QED
    BY <2>1, <2>2, <2>3, <2>4, <2>5 DEF SemNext
<1> QED
  BY <1>1, <1>2, SemphoreTyping, PTL DEF SemSpec

-----------------------------------------------------------------------------
\* The safety part of what CountingSemaphore promises.
AbstractSafety == Abstract!Init /\ [][Abstract!Next]_(Abstract!vars)

\* Each step of wait and post is a step of the counting semaphore or leaves its
\* permits and waiters alone: no permit is made up, lost or taken twice.
THEOREM StepsAreSemaphoreSteps == SemSpec => AbstractSafety
<1> DEFINE W == Blocked \cup Woken
<1>1. SemInit => Abstract!Init
  BY DEF SemInit, Abstract!Init, Blocked, Woken
<1>2. SemTypeOK /\ [SemNext]_semVars => [Abstract!Next]_(Abstract!vars)
  <2> SUFFICES ASSUME SemTypeOK, [SemNext]_semVars
               PROVE  [Abstract!Next]_(Abstract!vars)
    OBVIOUS
  <2> USE DEF Abstract!Next, Abstract!vars, Abstract!Arrive, Abstract!Pass,
              Abstract!Release
  <2>1. CASE UNCHANGED semVars
    BY <2>1 DEF semVars, Blocked, Woken
  <2>2. ASSUME NEW t \in Threads, Wait(t)
        PROVE  [Abstract!Next]_(Abstract!vars)
    <3>1. t \notin W
      BY <2>2 DEF Wait, Blocked, Woken
    <3>2. CASE nn = 0
      <4>1. W' = W \cup {t}
        BY <2>2, <3>2 DEF Wait, Blocked, Woken, SemTypeOK
      <4> QED
        BY <2>2, <3>1, <3>2, <4>1 DEF Wait
    <3>3. CASE nn > 0
      <4>1. W' = W \ {t} /\ nn' = nn - 1
        BY <2>2, <3>1, <3>3 DEF Wait, Blocked, Woken
      <4> QED
        BY <3>3, <4>1
    <3> QED
      BY <3>2, <3>3 DEF SemTypeOK
  <2>3. ASSUME NEW t \in Threads, Recheck(t)
        PROVE  [Abstract!Next]_(Abstract!vars)
    <3>1. CASE nn = 0
      <4>1. W' = W /\ nn' = nn
        BY <2>3, <3>1 DEF Recheck, Blocked, Woken, SemTypeOK
      <4> QED
        BY <4>1
    <3>2. CASE nn > 0
      <4>1. W' = W \ {t} /\ nn' = nn - 1
        BY <2>3, <3>2 DEF Recheck, Blocked, Woken, SemTypeOK
      <4> QED
        BY <3>2, <4>1
    <3> QED
      BY <3>1, <3>2 DEF SemTypeOK
  <2>4. ASSUME NEW t \in Threads, SpuriousWakeup(t)
        PROVE  [Abstract!Next]_(Abstract!vars)
    <3>1. W' = W /\ nn' = nn
      BY <2>4 DEF SpuriousWakeup, Blocked, Woken, SemTypeOK
    <3> QED
      BY <3>1
  <2>5. ASSUME NEW n \in PostSizes, Post(n)
        PROVE  [Abstract!Next]_(Abstract!vars)
    <3>1. W' = W
      BY <2>5 DEF Post, NotifyOne, NotifyAll, Blocked, Woken, SemTypeOK
    <3>2. nn' = nn + n
      BY <2>5 DEF Post
    <3> QED
      BY <3>1, <3>2
  <2> QED
    BY <2>1, <2>2, <2>3, <2>4, <2>5 DEF SemNext
<1> QED
  BY <1>1, <1>2, SemphoreTyping, PTL DEF SemSpec, AbstractSafety
=============================================================================
