---------------------------- MODULE Logger_proofs ----------------------------
(***************************************************************************)
(* Proofs about AsyncLogWriter and Logger for every number of threads,     *)
(* entries and channels: entries stay in order on their way through the    *)
(* writer, none is forgotten, each step of the writer is a step of the log *)
(* sink, and each channel prints what a thread logs in its order.          *)
(***************************************************************************)
EXTENDS Logger, SequenceTheorems, TLAPS

\* What a writer may do, whoever logs and destroys it.
WriterSafety == Init /\ [][Next]_vars

\* Each step of the writer keeps the types.
LEMMA TypeStep ==
  ASSUME TypeOK, [Next]_vars
  PROVE  TypeOK'
<1> USE DEF TypeOK, semVars
<1>1. ASSUME NEW c \in Clients, Post(c) PROVE TypeOK'
  BY <1>1 DEF Post, Sem!Release
<1>2. ASSUME NEW c \in Clients, NEW e \in Entries, WriteLog(c, e) PROVE TypeOK'
  BY <1>2 DEF WriteLog
<1>3. CASE SetExit \/ Join
  BY <1>3 DEF SetExit, Join
<1>4. CASE ExitPost
  BY <1>4 DEF ExitPost, Sem!Release
<1>5. CASE Top \/ Sleep \/ Pass
  BY <1>5 DEF Top, Sleep, Pass, Sem!Arrive, Sem!Pass
<1>6. CASE Take
  <2>1. batch' \in Seq(Entries) /\ pendding' \in Seq(Entries)
    BY <1>6 DEF Take
  <2> QED
    BY <1>6, <2>1 DEF Take
<1>7. CASE WriteToChannels
  <2>1. Head(batch) \in Entries /\ Tail(batch) \in Seq(Entries)
    BY <1>7 DEF WriteToChannels
  <2> QED
    BY <1>7, <2>1 DEF WriteToChannels
<1>8. CASE BatchEnds
  BY <1>8 DEF BatchEnds
<1>9. CASE Gone \/ UNCHANGED vars
  BY <1>9 DEF Gone, vars
<1> QED
  BY <1>1, <1>2, <1>3, <1>4, <1>5, <1>6, <1>7, <1>8, <1>9 DEF Next, Running, Exiting

\* They hold at first.
LEMMA TypeInit ==
  ASSUME Init
  PROVE  TypeOK
<1>1. \A S : <<>> \in Seq(S)
  OBVIOUS
<1> QED
  BY <1>1 DEF Init, TypeOK, Sem!Init

\* They always hold.
LEMMA WriterTypes == WriterSafety => []TypeOK
BY TypeInit, TypeStep, PTL DEF WriterSafety

\* Every variable keeps its type (Log.h:257-263).
THEOREM Typing == Spec => []TypeOK
BY WriterTypes, PTL DEF Spec, WriterSafety

-----------------------------------------------------------------------------
\* Moving the head of the middle sequence to the end of the first one leaves the
\* concatenation as it is.
LEMMA MoveHead ==
  ASSUME NEW S, NEW p \in Seq(S), NEW q \in Seq(S), NEW r \in Seq(S), q # <<>>
  PROVE  Append(p, Head(q)) \o Tail(q) \o r = p \o q \o r
<1>1. q = <<Head(q)>> \o Tail(q) /\ Head(q) \in S /\ Tail(q) \in Seq(S)
  BY HeadTailProperties
<1>2. Append(p, Head(q)) = p \o <<Head(q)>>
  BY <1>1
<1>3. (p \o <<Head(q)>>) \o Tail(q) = p \o (<<Head(q)>> \o Tail(q))
  BY <1>1
<1>4. Append(p, Head(q)) \o Tail(q) = p \o q
  BY <1>1, <1>2, <1>3
<1> QED
  BY <1>4

\* Appending to a concatenation is appending to its last part.
LEMMA AppendLast ==
  ASSUME NEW S, NEW e \in S
  PROVE  \A p, q \in Seq(S) : Append(p \o q, e) = p \o Append(q, e)
<1> TAKE p, q \in Seq(S)
<1>1. Append(q, e) = q \o <<e>> /\ Append(p \o q, e) = (p \o q) \o <<e>>
  OBVIOUS
<1>2. (p \o q) \o <<e>> = p \o (q \o <<e>>)
  OBVIOUS
<1> QED
  BY <1>1, <1>2

\* A list with nothing taken from it has to be in "write" to hold a batch.
BatchInWrite == wpc # "write" => batch = <<>>

\* The invariant of EntriesInOrder needs BatchInWrite: Take overwrites batch, which is
\* empty then.
LEMMA WriterOrder == WriterSafety => [](EntriesInOrder /\ BatchInWrite)
<1> DEFINE Inv == EntriesInOrder /\ BatchInWrite
<1> USE DEF EntriesInOrder, BatchInWrite
<1>1. Init => Inv
  BY DEF Init
<1>2. TypeOK /\ Inv /\ [Next]_vars => Inv'
  <2> SUFFICES ASSUME TypeOK, Inv, [Next]_vars PROVE Inv'
    OBVIOUS
  <2>0. /\ pendding \in Seq(Entries) /\ batch \in Seq(Entries)
        /\ written \in Seq(Entries)
    BY DEF TypeOK
  <2>1. ASSUME NEW c \in Clients, Post(c) PROVE Inv'
    BY <2>1 DEF Post
  <2>2. ASSUME NEW c \in Clients, NEW e \in Entries, WriteLog(c, e) PROVE Inv'
    <3>1. written \o batch \in Seq(Entries)
      BY <2>0
    <3>2. \A p, q \in Seq(Entries) : Append(p \o q, e) = p \o Append(q, e)
      BY AppendLast
    <3>3. Append(written \o batch \o pendding, e) = written \o batch \o Append(pendding, e)
      BY <2>0, <3>1, <3>2, Zenon
    <3> QED
      BY <2>2, <3>3 DEF WriteLog
  <2>3. CASE SetExit \/ Exiting
    BY <2>3 DEF SetExit, Exiting, ExitPost, Join
  <2>4. CASE Top \/ Sleep \/ Pass
    BY <2>4 DEF Top, Sleep, Pass
  <2>5. CASE Take
    <3>1. batch = <<>> /\ batch' = pendding /\ pendding' = <<>>
      BY <2>5 DEF Take
    <3>2. written \o <<>> \o pendding = written \o pendding \o <<>>
      BY <2>0
    <3> QED
      BY <2>5, <3>1, <3>2 DEF Take
  <2>6. CASE WriteToChannels
    BY <2>0, <2>6, MoveHead DEF WriteToChannels
  <2>7. CASE BatchEnds
    BY <2>7 DEF BatchEnds
  <2>8. CASE Gone \/ UNCHANGED vars
    BY <2>8 DEF Gone, vars
  <2> QED
    BY <2>1, <2>2, <2>3, <2>4, <2>5, <2>6, <2>7, <2>8 DEF Next, Running
<1> QED
  BY <1>1, <1>2, WriterTypes, PTL DEF WriterSafety

\* Entries reach the channels once and in order (Log.h:218-241).
THEOREM OrderKept == Spec => []EntriesInOrder
BY WriterOrder, PTL DEF Spec, WriterSafety

\* No entry is forgotten by the writer.
LEMMA WriterForgetsNone == WriterSafety => []NoEntryForgotten
<1> USE DEF NoEntryForgotten
<1>1. Init => NoEntryForgotten
  BY DEF Init
<1>2. TypeOK /\ NoEntryForgotten /\ [Next]_vars => NoEntryForgotten'
  <2> SUFFICES ASSUME TypeOK, NoEntryForgotten, [Next]_vars PROVE NoEntryForgotten'
    OBVIOUS
  <2>0. permits \in Nat
    BY DEF TypeOK
  <2>1. ASSUME NEW c \in Clients, Post(c) PROVE NoEntryForgotten'
    BY <2>0, <2>1 DEF Post, Sem!Release
  <2>2. ASSUME NEW c \in Clients, NEW e \in Entries, WriteLog(c, e)
        PROVE  NoEntryForgotten'
    BY <2>2 DEF WriteLog
  <2>3. CASE SetExit \/ Exiting
    BY <2>0, <2>3 DEF SetExit, Exiting, ExitPost, Join, Sem!Release, semVars
  <2>4. CASE Top \/ Sleep \/ Pass
    BY <2>4 DEF Top, Sleep, Pass, Sem!Arrive, Sem!Pass, semVars
  <2>5. CASE Take
    BY <2>5 DEF Take
  <2>6. CASE WriteToChannels \/ BatchEnds
    BY <2>6 DEF WriteToChannels, BatchEnds, semVars
  <2>7. CASE Gone \/ UNCHANGED vars
    BY <2>7 DEF Gone, vars, semVars
  <2> QED
    BY <2>1, <2>2, <2>3, <2>4, <2>5, <2>6, <2>7 DEF Next, Running
<1> QED
  BY <1>1, <1>2, WriterTypes, PTL DEF WriterSafety

\* The writer thread never sleeps on an entry that nobody will wake it for
\* (Log.h:219-234).
THEOREM NoneForgotten == Spec => []NoEntryForgotten
BY WriterForgetsNone, PTL DEF Spec, WriterSafety

-----------------------------------------------------------------------------
\* The safety part of what LogSink promises.
SinkSafety == Sink!Init /\ [][Sink!Next]_(Sink!vars)

\* The writer is a sink.
LEMMA WriterSinks == WriterSafety => SinkSafety
<1>1. Init => Sink!Init
  BY DEF Init, Sink!Init
<1>2. TypeOK /\ EntriesInOrder /\ [Next]_vars => [Sink!Next]_(Sink!vars)
  <2> SUFFICES ASSUME TypeOK, EntriesInOrder, [Next]_vars
               PROVE  [Sink!Next]_(Sink!vars)
    OBVIOUS
  <2> USE DEF Sink!Next, Sink!vars
  <2>1. ASSUME NEW c \in Clients, Post(c) PROVE [Sink!Next]_(Sink!vars)
    BY <2>1 DEF Post
  <2>2. ASSUME NEW c \in Clients, NEW e \in Entries, WriteLog(c, e)
        PROVE  [Sink!Next]_(Sink!vars)
    BY <2>2 DEF WriteLog, Sink!Accept
  <2>3. CASE SetExit
    BY <2>3 DEF SetExit, Sink!Close
  <2>4. CASE Exiting \/ Top \/ Sleep \/ Pass \/ Take \/ BatchEnds
    BY <2>4 DEF Exiting, ExitPost, Join, Top, Sleep, Pass, Take, BatchEnds
  <2>5. CASE WriteToChannels
    <3>1. /\ pendding \in Seq(Entries) /\ batch \in Seq(Entries)
          /\ written \in Seq(Entries) /\ batch # <<>>
      BY <2>5 DEF TypeOK, WriteToChannels
    <3>2. /\ Len(written) < Len(accepted)
          /\ accepted[Len(written) + 1] = Head(batch)
      BY <3>1 DEF EntriesInOrder
    <3> QED
      BY <2>5, <3>2 DEF WriteToChannels, Sink!Write
  <2>6. CASE Gone \/ UNCHANGED vars
    BY <2>6 DEF Gone, vars
  <2> QED
    BY <2>1, <2>2, <2>3, <2>4, <2>5, <2>6 DEF Next, Running
<1> QED
  BY <1>1, <1>2, WriterTypes, WriterOrder, PTL DEF WriterSafety, SinkSafety

\* Every step of the two lists and of exit is a step of the log sink or leaves it
\* alone: what is written next is the first entry accepted and not yet written.
THEOREM StepsAreSinkSteps == Spec => SinkSafety
BY WriterSinks DEF Spec, WriterSafety

-----------------------------------------------------------------------------
(* The Logger.  The steps of statements and of setWriter do to the writer what it *)
(* allows.                                                                        *)

Points == {"out", "open", "post", "channels"}
LType ==
    /\ channels \in Seq(Channels) /\ installed \in BOOLEAN
    /\ context \in [Clients -> Entries \cup {None}] /\ at \in [Clients -> Points]
    /\ ending \subseteq Clients /\ next \in [Clients -> Nat \ {0}]
    /\ shown \in [Channels -> Seq(Entries \cup {Blank})]
    /\ said \in Seq(Entries) /\ by \in [Entries -> Clients \cup {None}]
    /\ \A c \in Clients : at[c] \in {"post", "channels"} => context[c] \in Entries

(* The order of the entries. *)

Distinct(s) == \A i, j \in 1..Len(s) : s[i] = s[j] => i = j
Ahead(s, d, e) == \E i, j \in 1..Len(s) : i < j /\ s[i] = d /\ s[j] = e
Ordered(s, q) == \A i, j \in 1..Len(q) : i < j => Ahead(s, q[i], q[j])
Precede(s, D, E) == \A d \in D, e \in E : Ahead(s, d, e)

\* A context_ is the entry of its thread, and is said once.
Statements ==
    /\ Distinct(said) /\ Distinct(channels)
    /\ \A e \in Elements(said) : by[e] # None
    /\ \A c \in Clients :
        /\ at[c] = "out" => context[c] = None
        /\ at[c] \in {"post", "channels"} => context[c] \in Elements(said)
        /\ at[c] = "open" => context[c] \notin Elements(said)
        /\ context[c] # None => by[context[c]] = c

\* A thread writes itself before the writer is set or after it is gone.
Phases ==
    /\ installed => dpc = "alive"
    /\ ~installed /\ dpc = "alive" => accepted = <<>>
    /\ dpc = "gone" => wpc = "done"
    /\ \A c \in Clients : at[c] = "channels" => ~installed /\ (wpc = "done" \/ accepted = <<>>)

Printed(sh) == Elements(sh) \ {Blank}

\* What is printed was said before what the writer has.
Upstream(s, b, p) ==
    /\ Elements(b) \cup Elements(p) \subseteq Elements(s)
    /\ Ordered(s, b) /\ Ordered(s, p) /\ Precede(s, Elements(b), Elements(p))
Flow == /\ Upstream(said, batch, pendding)
        /\ accepted = <<>> => batch = <<>> /\ pendding = <<>>
        /\ \A ch \in Channels :
             /\ Printed(shown[ch]) \subseteq Elements(said)
             /\ wpc # "done" =>
                  Precede(said, Printed(shown[ch]), Elements(batch) \cup Elements(pendding))

\* What a thread has had printed was said before what it is about to print itself.
DirectFlow ==
    \A c \in Clients : \A k \in 1..Len(channels) : at[c] = "channels" /\ next[c] <= k =>
        \A d \in Printed(shown[channels[k]]) : by[d] = c => Ahead(said, d, context[c])

PrintInv == Statements /\ Phases /\ Flow /\ DirectFlow

-----------------------------------------------------------------------------
\* A step of the Logger leaves the writer alone or is a step of the writer.
LEMMA StepOfWriter ==
  ASSUME LType, [LNext]_<<vars, loggerVars>>
  PROVE  [Next]_vars
<1>1. ASSUME NEW c \in Clients, Leave(c) PROVE [Next]_vars
  BY <1>1 DEF Leave, Posted, Direct, Next
<1>2. ASSUME NEW c \in Clients, NEW e \in Entries, Capture(c, e) PROVE [Next]_vars
  BY <1>2 DEF Capture
<1>3. ASSUME NEW c \in Clients, NEW last \in BOOLEAN, Insert(c, last) PROVE [Next]_vars
  <2>1. CASE context[c] = None
    BY <1>3, <2>1 DEF Insert
  <2>2. CASE context[c] # None
    <3>1. PICK e \in Entries : e = context[c]
      BY <2>2 DEF LType
    <3>2. WriteLog(c, e) \/ UNCHANGED vars
      BY <1>3, <2>2, <3>1 DEF Insert, Write, WriteLog
    <3> QED
      BY <3>2 DEF Next
  <2> QED
    BY <2>1, <2>2
<1>4. CASE (\E ch \in Channels : AddLogChannel(ch)) \/ SetWriter
  BY <1>4 DEF AddLogChannel, SetWriter
<1>5. CASE DropWriter
  BY <1>5 DEF DropWriter, Next
<1>6. CASE WriterRuns \/ WriterExits
  BY <1>6 DEF WriterRuns, WriterShows, WriterExits, Running, Next
<1>7. CASE Stopped
  BY <1>7 DEF Stopped, Next
<1>8. CASE UNCHANGED <<vars, loggerVars>>
  BY <1>8
<1> QED
  BY <1>1, <1>2, <1>3, <1>4, <1>5, <1>6, <1>7, <1>8 DEF LNext

\* A channel prints an entry or an empty line.
LEMMA LineType ==
  ASSUME NEW ch, NEW e
  PROVE  Line(ch, e) \in {e, Blank}
BY DEF Line

\* Each step of the Logger keeps the types.
LEMMA LTypeStep ==
  ASSUME TypeOK, LType, [LNext]_<<vars, loggerVars>>
  PROVE  LType'
<1> USE DEF LType, Points, statement, loggerVars, Reset
<1>1. ASSUME NEW c \in Clients, Posted(c) PROVE LType'
  BY <1>1 DEF Posted
<1>2. ASSUME NEW c \in Clients, Direct(c) PROVE LType'
  <2>1. CASE next[c] <= Len(channels)
    <3>1. channels[next[c]] \in Channels
      BY <2>1
    <3>2. PICK ch \in Channels : ch = channels[next[c]]
      BY <3>1
    <3>3. Line(ch, context[c]) \in Entries \cup {Blank}
      <4>1. context[c] \in Entries
        BY <1>2 DEF Direct
      <4>2. Line(ch, context[c]) \in {context[c], Blank}
        BY LineType
      <4> QED
        BY <4>1, <4>2
    <3>4. PICK x \in Entries \cup {Blank} : x = Line(ch, context[c])
      BY <3>3
    <3>5. shown' = [shown EXCEPT ![ch] = Append(shown[ch], x)]
      BY <1>2, <2>1, <3>2, <3>4 DEF Direct
    <3>6. shown' \in [Channels -> Seq(Entries \cup {Blank})]
      BY <3>4, <3>5
    <3>7. /\ next' = [next EXCEPT ![c] = @ + 1]
          /\ UNCHANGED <<context, at, ending, vars, channels, installed, said, by>>
      BY <1>2, <2>1 DEF Direct
    <3> QED
      BY <3>6, <3>7
  <2>2. CASE ~(next[c] <= Len(channels))
    BY <1>2, <2>2 DEF Direct
  <2> QED
    BY <2>1, <2>2
<1>3. ASSUME NEW c \in Clients, NEW e \in Entries, Capture(c, e) PROVE LType'
  BY <1>3 DEF Capture
<1>4. ASSUME NEW c \in Clients, NEW last \in BOOLEAN, Insert(c, last) PROVE LType'
  <2>1. CASE context[c] = None
    BY <1>4, <2>1 DEF Insert
  <2>2. CASE context[c] # None
    <3>1. PICK e \in Entries : e = context[c]
      BY <2>2
    <3>2. PICK l \in {"post", "channels"} : at' = [at EXCEPT ![c] = l]
      BY <1>4, <2>2 DEF Insert, Write
    <3>3. /\ said' = Append(said, e) /\ next' = [next EXCEPT ![c] = 1]
          /\ ending' \subseteq ending \cup {c}
          /\ UNCHANGED <<channels, installed, context, shown, by>>
      BY <1>4, <2>2, <3>1 DEF Insert, Write
    <3>4. said' \in Seq(Entries)
      BY <3>1, <3>3
    <3> QED
      BY <3>1, <3>2, <3>3, <3>4
  <2> QED
    BY <2>1, <2>2
<1>5. ASSUME NEW ch \in Channels, AddLogChannel(ch) PROVE LType'
  BY <1>5 DEF AddLogChannel
<1>6. CASE SetWriter \/ DropWriter
  BY <1>6 DEF SetWriter, DropWriter
<1>7. CASE WriterShows
  <2>1. Head(batch) \in Entries
    BY <1>7 DEF WriterShows, WriteToChannels, TypeOK
  <2>2. ASSUME NEW ch \in Channels
        PROVE  Append(shown[ch], Line(ch, Head(batch))) \in Seq(Entries \cup {Blank})
    <3>1. Line(ch, Head(batch)) \in Entries \cup {Blank}
      BY <2>1, LineType
    <3> QED
      BY <3>1
  <2>3. shown' \in [Channels -> Seq(Entries \cup {Blank})]
    BY <1>7, <2>2 DEF WriterShows
  <2> QED
    BY <1>7, <2>3 DEF WriterShows
<1>8. CASE (WriterRuns /\ ~WriterShows) \/ WriterExits \/ Stopped \/ UNCHANGED <<vars, loggerVars>>
  BY <1>8 DEF WriterRuns, WriterExits, Stopped
<1> QED
  BY <1>1, <1>2, <1>3, <1>4, <1>5, <1>6, <1>7, <1>8 DEF LNext, Leave, WriterRuns

\* What a sequence holds with one more element, or without its head.
LEMMA AppendAt ==
  ASSUME NEW S, NEW s \in Seq(S), NEW x \in S
  PROVE  /\ Len(Append(s, x)) = Len(s) + 1 /\ Len(s) \in Nat
         /\ Append(s, x)[Len(s) + 1] = x
         /\ \A i \in 1..Len(s) : Append(s, x)[i] = s[i] /\ i \in 1..Len(s) + 1
         /\ \A i \in 1..Len(s) + 1 : i = Len(s) + 1 \/ i \in 1..Len(s)
         /\ Elements(Append(s, x)) = Elements(s) \cup {x}
<1> DEFINE a == Append(s, x)
<1>1. /\ Len(a) = Len(s) + 1 /\ a[Len(s) + 1] = x /\ \A i \in 1..Len(s) : a[i] = s[i]
      /\ Len(s) \in Nat
  OBVIOUS
<1> HIDE DEF a
<1>2. /\ \A i \in 1..Len(s) + 1 : i = Len(s) + 1 \/ i \in 1..Len(s)
      /\ \A i \in 1..Len(s) : i \in 1..Len(s) + 1
      /\ Len(s) + 1 \in 1..Len(s) + 1
  BY <1>1
<1>3. /\ \A y : y \in Elements(s) <=> \E i \in 1..Len(s) : y = s[i]
      /\ \A y : y \in Elements(a) <=> \E i \in 1..Len(s) + 1 : y = a[i]
  BY <1>1 DEF Elements
<1>4. Elements(a) = Elements(s) \cup {x}
  BY <1>1, <1>2, <1>3
<1> QED
  BY <1>1, <1>2, <1>4 DEF a

\* A sequence without its first element.
LEMMA TailAt ==
  ASSUME NEW S, NEW s \in Seq(S), s # <<>>
  PROVE  /\ Head(s) \in Elements(s) /\ Elements(Tail(s)) \subseteq Elements(s)
         /\ 1 \in 1..Len(s) /\ Head(s) = s[1]
         /\ \A i \in 1..Len(Tail(s)) : i + 1 \in 1..Len(s) /\ Tail(s)[i] = s[i + 1] /\ 1 < i + 1
<1> DEFINE a == Tail(s)
<1>1. /\ 1 \in 1..Len(s) /\ Head(s) = s[1]
      /\ \A i \in 1..Len(a) : i + 1 \in 1..Len(s) /\ a[i] = s[i + 1] /\ 1 < i + 1
  OBVIOUS
<1> HIDE DEF a
<1>2. Head(s) \in Elements(s) /\ Elements(a) \subseteq Elements(s)
  BY <1>1 DEF Elements
<1> QED
  BY <1>1, <1>2 DEF a

\* What is said last comes after all the rest.
LEMMA SaidGrows ==
  ASSUME NEW s \in Seq(Entries), NEW e \in Entries
  PROVE  /\ \A d, f : Ahead(s, d, f) => Ahead(Append(s, e), d, f)
         /\ \A d \in Elements(s) : Ahead(Append(s, e), d, e)
<1> DEFINE a == Append(s, e)
<1>1. /\ Len(a) = Len(s) + 1 /\ Len(s) \in Nat /\ a[Len(s) + 1] = e
      /\ \A i \in 1..Len(s) : a[i] = s[i] /\ i \in 1..Len(s) + 1
  BY AppendAt
<1> HIDE DEF a
<1>2. ASSUME NEW d, NEW f, Ahead(s, d, f) PROVE Ahead(a, d, f)
  BY <1>1, <1>2 DEF Ahead
<1>3. ASSUME NEW d \in Elements(s) PROVE Ahead(a, d, e)
  <2>1. PICK i \in 1..Len(s) : s[i] = d
    BY <1>3 DEF Elements
  <2>2. Len(s) + 1 \in 1..Len(s) + 1 /\ i < Len(s) + 1
    BY <1>1
  <2> QED
    BY <1>1, <2>1, <2>2 DEF Ahead
<1> QED
  BY <1>2, <1>3 DEF a

\* A new element behind occurs once.
LEMMA DistinctAppend ==
  ASSUME NEW S, NEW s \in Seq(S), NEW x \in S, Distinct(s), x \notin Elements(s)
  PROVE  Distinct(Append(s, x))
<1> DEFINE a == Append(s, x)
<1>1. /\ Len(a) = Len(s) + 1 /\ a[Len(s) + 1] = x
      /\ \A i \in 1..Len(s) : a[i] = s[i]
      /\ \A i \in 1..Len(s) + 1 : i = Len(s) + 1 \/ i \in 1..Len(s)
  BY AppendAt
<1>2. \A i \in 1..Len(s) : s[i] # x
  BY DEF Elements
<1> HIDE DEF a
<1> QED
  BY <1>1, <1>2 DEF Distinct, a

\* Each context_ stays the entry of its thread, and is said once.
LEMMA StatementsStep ==
  ASSUME TypeOK, LType, Statements, [LNext]_<<vars, loggerVars>>
  PROVE  Statements'
<1>0. /\ context \in [Clients -> Entries \cup {None}] /\ at \in [Clients -> Points]
      /\ said \in Seq(Entries) /\ by \in [Entries -> Clients \cup {None}]
      /\ channels \in Seq(Channels) /\ None \notin Entries /\ None \notin Clients
      /\ \A e \in Elements(said) : e \in Entries
  BY LoggerAssumption DEF LType, Elements
<1> USE DEF statement, loggerVars, Reset
<1>1. ASSUME UNCHANGED <<said, channels, by, context, at>> PROVE Statements'
  BY <1>1 DEF Statements, Distinct, Elements
<1>2. ASSUME NEW c \in Clients, Reset(c), UNCHANGED <<said, channels, by>> PROVE Statements'
  <2>1. /\ context'[c] = None /\ at'[c] \in {"out", "open"}
        /\ \A d \in Clients \ {c} : context'[d] = context[d] /\ at'[d] = at[d]
    BY <1>0, <1>2
  <2>2. Distinct(said') /\ Distinct(channels') /\ Elements(said') = Elements(said)
    BY <1>2 DEF Statements
  <2> QED
    BY <1>0, <1>2, <2>1, <2>2 DEF Statements, Distinct, Elements
<1>a. ASSUME Distinct(said'), Distinct(channels'), \A e \in Elements(said') : by'[e] # None,
             \A c \in Clients :
                 /\ at'[c] = "out" => context'[c] = None
                 /\ at'[c] \in {"post", "channels"} => context'[c] \in Elements(said')
                 /\ at'[c] = "open" => context'[c] \notin Elements(said')
                 /\ context'[c] # None => by'[context'[c]] = c
      PROVE  Statements'
  BY <1>a DEF Statements, Distinct, Elements
<1>3. ASSUME NEW c \in Clients, NEW e \in Entries, Capture(c, e) PROVE Statements'
  <2>1. /\ at[c] = "out" /\ by[e] = None /\ UNCHANGED <<said, channels>>
        /\ context'[c] = e /\ at'[c] = "open" /\ by'[e] = c
        /\ \A d \in Clients \ {c} : context'[d] = context[d] /\ at'[d] = at[d]
        /\ \A f \in Entries \ {e} : by'[f] = by[f]
    BY <1>0, <1>3 DEF Capture
  <2>2. e \notin Elements(said)
    BY <2>1 DEF Statements
  <2>3. said' = said /\ channels' = channels
    BY <2>1
  <2>4. \A d \in Clients \ {c} : context[d] # e
    BY <1>0, <2>1 DEF Statements
  <2> QED
    BY <1>0, <1>a, <2>1, <2>2, <2>3, <2>4 DEF Statements
<1>4. ASSUME NEW c \in Clients, NEW last \in BOOLEAN, Insert(c, last) PROVE Statements'
  <2>1. CASE context[c] = None
    <3>1. /\ at'[c] = "out" /\ \A d \in Clients \ {c} : at'[d] = at[d]
          /\ said' = said /\ channels' = channels /\ by' = by /\ context' = context
      BY <1>0, <1>4, <2>1 DEF Insert
    <3> QED
      BY <1>a, <2>1, <3>1 DEF Statements
  <2>2. CASE context[c] # None
    <3>1. PICK e \in Entries : e = context[c]
      BY <1>0, <2>2
    <3>2. /\ at[c] = "open" /\ at'[c] \in {"post", "channels"}
          /\ \A d \in Clients \ {c} : at'[d] = at[d]
          /\ said' = Append(said, e) /\ channels' = channels /\ by' = by /\ context' = context
      BY <1>0, <1>4, <2>2, <3>1 DEF Insert, Write
    <3>3. e \notin Elements(said) /\ by[e] = c
      BY <2>2, <3>1, <3>2 DEF Statements
    <3>4. Distinct(said') /\ Elements(said') = Elements(said) \cup {e}
      <4>1. Distinct(said)
        BY DEF Statements
      <4>2. Distinct(Append(said, e))
        BY <1>0, <3>3, <4>1, DistinctAppend
      <4>3. Elements(Append(said, e)) = Elements(said) \cup {e}
        BY <1>0, AppendAt
      <4> QED
        BY <3>2, <4>2, <4>3
    <3>5. \A d \in Clients \ {c} : context[d] # e
      BY <1>0, <3>3 DEF Statements
    <3> QED
      BY <1>0, <1>a, <3>1, <3>2, <3>3, <3>4, <3>5 DEF Statements
  <2> QED
    BY <2>1, <2>2
<1>5. ASSUME NEW ch \in Channels, AddLogChannel(ch) PROVE Statements'
  <2>1. /\ ch \notin Elements(channels) /\ channels' = Append(channels, ch)
        /\ said' = said /\ context' = context /\ at' = at /\ by' = by
    BY <1>5 DEF AddLogChannel
  <2>2. Distinct(channels)
    BY DEF Statements
  <2>3. Distinct(channels')
    BY <1>0, <2>1, <2>2, DistinctAppend
  <2> QED
    BY <1>a, <2>1, <2>3 DEF Statements
<1>6. ASSUME NEW c \in Clients, Leave(c) PROVE Statements'
  <2>1. CASE Posted(c)
    BY <1>2, <2>1 DEF Posted
  <2>2. CASE Direct(c)
    BY <1>1, <1>2, <2>2 DEF Direct
  <2> QED
    BY <1>6, <2>1, <2>2 DEF Leave
<1>7. CASE SetWriter \/ DropWriter \/ WriterRuns \/ WriterExits \/ Stopped
           \/ UNCHANGED <<vars, loggerVars>>
  BY <1>1, <1>7 DEF SetWriter, DropWriter, WriterRuns, WriterShows, WriterExits, Stopped
<1> QED
  BY <1>3, <1>4, <1>5, <1>6, <1>7 DEF LNext

\* A thread prints itself only while the writer has nothing to print.
LEMMA PhasesStep ==
  ASSUME TypeOK, LType, Phases, [LNext]_<<vars, loggerVars>>
  PROVE  Phases'
<1>0. at \in [Clients -> Points]
  BY DEF LType
<1> USE DEF Phases, statement, loggerVars, vars
<1>1. ASSUME NEW c \in Clients, Leave(c) PROVE Phases'
  <2>1. /\ UNCHANGED <<installed, dpc, accepted, wpc>>
        /\ \A d \in Clients : at'[d] = "channels" => at[d] = "channels"
    BY <1>0, <1>1 DEF Leave, Posted, Direct, Post, Reset
  <2> QED
    BY <2>1
<1>2. ASSUME NEW c \in Clients, NEW e \in Entries, Capture(c, e) PROVE Phases'
  BY <1>0, <1>2 DEF Capture
<1>3. ASSUME NEW c \in Clients, NEW last \in BOOLEAN, Insert(c, last) PROVE Phases'
  <2>1. CASE context[c] = None
    BY <1>0, <1>3, <2>1 DEF Insert
  <2>2. CASE context[c] # None /\ installed
    <3>1. /\ UNCHANGED <<installed, dpc, wpc>>
          /\ \A d \in Clients : at'[d] # "channels"
      BY <1>0, <1>3, <2>2 DEF Insert, Write, WriteLog
    <3> QED
      BY <2>2, <3>1
  <2>3. CASE context[c] # None /\ ~installed
    <3>1. /\ UNCHANGED <<installed, dpc, wpc, accepted>> /\ dpc \in {"alive", "gone"}
      BY <1>3, <2>3 DEF Insert, Write
    <3> QED
      BY <2>3, <3>1
  <2> QED
    BY <2>1, <2>2, <2>3
<1>4. CASE (\E ch \in Channels : AddLogChannel(ch)) \/ SetWriter
  BY <1>4 DEF AddLogChannel, SetWriter, Quiet
<1>5. CASE DropWriter
  BY <1>5 DEF DropWriter, SetExit, Quiet
<1>6. CASE WriterRuns
  <2>1. UNCHANGED <<installed, dpc, accepted, at>> /\ (wpc = "done" => wpc' = "done")
    BY <1>6 DEF WriterRuns, WriterShows, WriteToChannels, Top, Sleep, Pass, Take, BatchEnds
  <2> QED
    BY <2>1
<1>7. CASE WriterExits
  BY <1>7 DEF WriterExits, Exiting, ExitPost, Join
<1>8. CASE Stopped \/ UNCHANGED <<vars, loggerVars>>
  BY <1>8 DEF Stopped, Gone
<1> QED
  BY <1>1, <1>2, <1>3, <1>4, <1>5, <1>6, <1>7, <1>8 DEF LNext

\* What is put behind everything said keeps the order, and what is taken from the head too.
LEMMA UpstreamAppend ==
  ASSUME NEW s \in Seq(Entries), NEW b \in Seq(Entries), NEW p \in Seq(Entries),
         NEW e \in Entries, Upstream(s, b, p)
  PROVE  Upstream(Append(s, e), b, p) /\ Upstream(Append(s, e), b, Append(p, e))
<1> DEFINE t == Append(s, e)
           q == Append(p, e)
<1>1. /\ \A d, f : Ahead(s, d, f) => Ahead(t, d, f)
      /\ \A d \in Elements(s) : Ahead(t, d, e)
      /\ Elements(t) = Elements(s) \cup {e} /\ Elements(q) = Elements(p) \cup {e}
  BY SaidGrows, AppendAt
<1>2. /\ Len(q) = Len(p) + 1 /\ Len(p) \in Nat /\ q[Len(p) + 1] = e
      /\ \A i \in 1..Len(p) : q[i] = p[i]
      /\ \A i \in 1..Len(p) + 1 : i = Len(p) + 1 \/ i \in 1..Len(p)
  BY AppendAt
<1>3. \A i \in 1..Len(p) : p[i] \in Elements(p)
  BY DEF Elements
<1> HIDE DEF t, q
<1>4. Upstream(t, b, p)
  BY <1>1 DEF Upstream, Ordered, Precede
<1>5. Ordered(t, q)
  <2> SUFFICES ASSUME NEW i \in 1..Len(q), NEW j \in 1..Len(q), i < j
               PROVE  Ahead(t, q[i], q[j])
    BY DEF Ordered
  <2>1. i \in 1..Len(p) /\ q[i] = p[i]
    BY <1>2
  <2>2. CASE j = Len(p) + 1
    BY <1>1, <1>2, <1>3, <2>1, <2>2 DEF Upstream
  <2>3. CASE j \in 1..Len(p)
    BY <1>2, <1>4, <2>1, <2>3 DEF Upstream, Ordered
  <2> QED
    BY <1>2, <2>2, <2>3
<1>6. Precede(t, Elements(b), Elements(q))
  BY <1>1, <1>4 DEF Upstream, Precede
<1>7. Upstream(t, b, q)
  BY <1>1, <1>4, <1>5, <1>6 DEF Upstream
<1> QED
  BY <1>4, <1>7 DEF t, q

\* The entry that is taken was said before those still on the way.
LEMMA UpstreamTail ==
  ASSUME NEW s, NEW b \in Seq(Entries), b # <<>>, NEW p \in Seq(Entries), Upstream(s, b, p)
  PROVE  /\ Upstream(s, Tail(b), p)
         /\ \A e \in Elements(Tail(b)) \cup Elements(p) : Ahead(s, Head(b), e)
<1> DEFINE a == Tail(b)
<1>1. /\ Head(b) \in Elements(b) /\ Elements(a) \subseteq Elements(b)
      /\ 1 \in 1..Len(b) /\ Head(b) = b[1]
      /\ \A i \in 1..Len(a) : i + 1 \in 1..Len(b) /\ a[i] = b[i + 1] /\ 1 < i + 1
  BY TailAt
<1> HIDE DEF a
<1>2. Ordered(s, a)
  <2> SUFFICES ASSUME NEW i \in 1..Len(a), NEW j \in 1..Len(a), i < j
               PROVE  Ahead(s, a[i], a[j])
    BY DEF Ordered
  <2>1. i + 1 < j + 1
    OBVIOUS
  <2> QED
    BY <1>1, <2>1 DEF Upstream, Ordered
<1>3. Upstream(s, a, p)
  BY <1>1, <1>2 DEF Upstream, Precede
<1>4. \A e \in Elements(a) : Ahead(s, Head(b), e)
  <2>1. \A i \in 1..Len(a) : Ahead(s, Head(b), a[i])
    BY <1>1 DEF Upstream, Ordered
  <2> QED
    BY <2>1 DEF Elements
<1>5. \A e \in Elements(p) : Ahead(s, Head(b), e)
  BY <1>1 DEF Upstream, Precede
<1> QED
  BY <1>3, <1>4, <1>5 DEF a

\* The entries flow through the writer in the order in which they were said.
LEMMA FlowStep ==
  ASSUME TypeOK, LType, Statements, Phases, Flow, [LNext]_<<vars, loggerVars>>
  PROVE  Flow'
<1>0. /\ said \in Seq(Entries) /\ batch \in Seq(Entries) /\ pendding \in Seq(Entries)
      /\ shown \in [Channels -> Seq(Entries \cup {Blank})] /\ channels \in Seq(Channels)
      /\ accepted \in Seq(Entries)
      /\ context \in [Clients -> Entries \cup {None}] /\ Blank \notin Entries
  BY LoggerAssumption DEF LType, TypeOK
<1>a. ASSUME Upstream(said', batch', pendding'),
             accepted' = <<>> => batch' = <<>> /\ pendding' = <<>>,
             \A ch \in Channels :
                 /\ Printed(shown'[ch]) \subseteq Elements(said')
                 /\ wpc' # "done" =>
                      Precede(said', Printed(shown'[ch]), Elements(batch') \cup Elements(pendding'))
      PROVE  Flow'
  BY <1>a DEF Flow, Upstream, Ordered, Precede, Ahead, Printed, Elements
<1>1. ASSUME UNCHANGED <<said, batch, pendding, accepted, shown>>, wpc = "done" => wpc' = "done"
      PROVE  Flow'
  BY <1>1, <1>a DEF Flow
<1> USE DEF statement, loggerVars, vars
\* A thread that prints itself.
<1>2. ASSUME NEW c \in Clients, Direct(c) PROVE Flow'
  <2>1. CASE next[c] <= Len(channels)
    <3>1. PICK ch \in Channels : ch = channels[next[c]]
      BY <1>0, <2>1 DEF LType
    <3>2. PICK e \in Entries : e = context[c]
      BY <1>2 DEF Direct, LType
    <3>3. PICK x \in Entries \cup {Blank} : x = Line(ch, e) /\ x \in {e, Blank}
      BY <3>2, LineType
    <3>4. /\ UNCHANGED <<said, batch, pendding, accepted, wpc>> /\ at[c] = "channels"
          /\ shown'[ch] = Append(shown[ch], x)
          /\ \A h \in Channels \ {ch} : shown'[h] = shown[h]
      BY <1>0, <1>2, <2>1, <3>1, <3>2, <3>3 DEF Direct
    <3>5. Printed(shown'[ch]) \subseteq Printed(shown[ch]) \cup {e}
      <4>0. shown[ch] \in Seq(Entries \cup {Blank})
        BY <1>0
      <4>1. Elements(Append(shown[ch], x)) = Elements(shown[ch]) \cup {x}
        BY <4>0, AppendAt
      <4> QED
        BY <3>3, <3>4, <4>1 DEF Printed
    <3>6. e \in Elements(said)
      BY <3>2, <3>4 DEF Statements
    <3>7. wpc # "done" => batch = <<>> /\ pendding = <<>>
      BY <3>4 DEF Phases, Flow
    <3>8. \A q : q = <<>> => Elements(q) = {}
      BY DEF Elements
    <3>9. wpc # "done" => Elements(batch) \cup Elements(pendding) = {}
      BY <3>7, <3>8
    <3>10. \A h \in Channels : Printed(shown'[h]) \subseteq Elements(said)
      BY <3>4, <3>5, <3>6 DEF Flow
    <3>11. wpc # "done" => \A h \in Channels :
             Precede(said, Printed(shown'[h]), Elements(batch) \cup Elements(pendding))
      BY <3>9 DEF Precede
    <3> QED
      BY <1>a, <3>4, <3>10, <3>11 DEF Flow
  <2>2. CASE ~(next[c] <= Len(channels))
    BY <1>1, <1>2, <2>2 DEF Direct
  <2> QED
    BY <2>1, <2>2
\* An entry is said and printed by the thread, or given to the writer.
<1>3. ASSUME NEW c \in Clients, NEW last \in BOOLEAN, Insert(c, last) PROVE Flow'
  <2>1. CASE context[c] = None
    BY <1>1, <1>3, <2>1 DEF Insert
  <2>2. CASE context[c] # None
    <3>1. PICK e \in Entries : e = context[c]
      BY <1>0, <2>2
    <3>2. /\ said' = Append(said, e) /\ UNCHANGED <<batch, wpc, shown>>
          /\ \/ UNCHANGED <<pendding, accepted>>
             \/ pendding' = Append(pendding, e) /\ accepted' = Append(accepted, e)
      BY <1>3, <2>2, <3>1 DEF Insert, Write, WriteLog
    <3>3. /\ \A d, f : Ahead(said, d, f) => Ahead(said', d, f)
          /\ \A d \in Elements(said) : Ahead(said', d, e)
          /\ Elements(said') = Elements(said) \cup {e}
      BY <1>0, <3>2, SaidGrows, AppendAt
    <3>4. Upstream(said, batch, pendding)
      BY DEF Flow
    <3>5. Upstream(said', batch', pendding')
      BY <1>0, <3>2, <3>4, UpstreamAppend
    <3>6. Elements(pendding') \subseteq Elements(pendding) \cup {e}
      <4>1. Elements(Append(pendding, e)) = Elements(pendding) \cup {e}
        BY <1>0, AppendAt
      <4>2. CASE pendding' = pendding
        BY <4>2
      <4> QED
        BY <3>2, <4>1, <4>2
    <3>7. accepted' = <<>> => batch' = <<>> /\ pendding' = <<>>
      <4>1. Append(accepted, e) # <<>>
        BY <1>0, AppendProperties
      <4> QED
        BY <3>2, <4>1 DEF Flow
    <3>8. ASSUME NEW ch \in Channels
          PROVE  /\ Printed(shown'[ch]) \subseteq Elements(said')
                 /\ wpc' # "done" =>
                      Precede(said', Printed(shown'[ch]), Elements(batch') \cup Elements(pendding'))
      BY <3>2, <3>3, <3>6 DEF Flow, Precede
    <3> QED
      BY <1>a, <3>5, <3>7, <3>8
  <2> QED
    BY <2>1, <2>2
\* The writer prints the head of the batch, or takes the list.
<1>4. CASE WriterShows
  <2>1. PICK e : e = Head(batch)
    OBVIOUS
  <2>2. /\ batch # <<>> /\ batch' = Tail(batch) /\ UNCHANGED <<said, pendding, accepted, wpc>>
        /\ wpc = "write"
    BY <1>4 DEF WriterShows, WriteToChannels
  <2>3. /\ Upstream(said, batch', pendding)
        /\ \A f \in Elements(batch') \cup Elements(pendding) : Ahead(said, e, f)
    BY <1>0, <2>1, <2>2, UpstreamTail DEF Flow
  <2>4. e \in Entries /\ e \in Elements(batch) /\ Elements(batch') \subseteq Elements(batch)
    BY <1>0, <2>1, <2>2, TailAt
  <2>5. ASSUME NEW ch \in Channels PROVE Printed(shown'[ch]) \subseteq Printed(shown[ch]) \cup {e}
    <3>1. PICK x \in Entries \cup {Blank} : x = Line(ch, e) /\ x \in {e, Blank}
      BY <2>4, LineType
    <3>2. shown'[ch] = shown[ch] \/ shown'[ch] = Append(shown[ch], x)
      BY <1>4, <2>1, <3>1 DEF WriterShows
    <3>a. shown[ch] \in Seq(Entries \cup {Blank})
      BY <1>0
    <3>3. Elements(Append(shown[ch], x)) = Elements(shown[ch]) \cup {x}
      BY <3>a, AppendAt
    <3> QED
      BY <3>1, <3>2, <3>3 DEF Printed
  <2>6. e \in Elements(said)
    BY <2>4 DEF Flow, Upstream
  <2>7. ASSUME NEW ch \in Channels
        PROVE  /\ Printed(shown'[ch]) \subseteq Elements(said)
               /\ Precede(said, Printed(shown'[ch]), Elements(batch') \cup Elements(pendding))
    BY <2>2, <2>3, <2>4, <2>5, <2>6 DEF Flow, Precede
  <2>8. accepted = <<>> => batch' = <<>> /\ pendding = <<>>
    BY <2>2 DEF Flow
  <2> QED
    BY <1>a, <2>2, <2>3, <2>7, <2>8
<1>5. CASE Take /\ UNCHANGED loggerVars
  <2>1. /\ batch' = pendding /\ pendding' = <<>> /\ UNCHANGED <<said, accepted, shown>>
        /\ wpc # "done"
    BY <1>5 DEF Take
  <2>2. \A q : q = <<>> => Elements(q) = {} /\ Len(q) = 0
    BY DEF Elements
  <2>3. Upstream(said, batch', pendding')
    BY <2>1, <2>2 DEF Flow, Upstream, Ordered, Precede
  <2>4. \A ch \in Channels :
            Precede(said, Printed(shown[ch]), Elements(batch') \cup Elements(pendding'))
    BY <2>1, <2>2 DEF Flow, Precede
  <2> QED
    BY <1>a, <2>1, <2>3, <2>4 DEF Flow
<1>6. CASE WriterRuns /\ ~WriterShows /\ ~Take
  BY <1>1, <1>6 DEF WriterRuns, Top, Sleep, Pass, BatchEnds
<1>7. ASSUME NEW c \in Clients, Posted(c) \/ \E e \in Entries : Capture(c, e) PROVE Flow'
  BY <1>1, <1>7 DEF Posted, Post, Capture
<1>8. CASE (\E ch \in Channels : AddLogChannel(ch)) \/ SetWriter \/ DropWriter \/ WriterExits
           \/ Stopped \/ UNCHANGED <<vars, loggerVars>>
  BY <1>1, <1>8 DEF AddLogChannel, SetWriter, DropWriter, SetExit, WriterExits, Exiting, ExitPost,
                    Join, Stopped, Gone
<1> QED
  BY <1>2, <1>3, <1>4, <1>5, <1>6, <1>7, <1>8 DEF LNext, Leave, WriterRuns

\* What a thread prints itself comes after what it has had printed.
LEMMA DirectFlowStep ==
  ASSUME TypeOK, LType, Statements, Phases, Flow, DirectFlow, [LNext]_<<vars, loggerVars>>
  PROVE  DirectFlow'
<1>0. /\ said \in Seq(Entries) /\ by \in [Entries -> Clients \cup {None}]
      /\ shown \in [Channels -> Seq(Entries \cup {Blank})] /\ channels \in Seq(Channels)
      /\ context \in [Clients -> Entries \cup {None}] /\ at \in [Clients -> Points]
      /\ next \in [Clients -> Nat \ {0}]
      /\ \A ch \in Channels : Printed(shown[ch]) \subseteq Elements(said)
      /\ \A k \in 1..Len(channels) : channels[k] \in Channels
      /\ \A e \in Elements(said) : e \in Entries
  <2>1. \A e \in Elements(said) : e \in Entries
    BY DEF LType, Elements
  <2> QED
    BY <2>1 DEF LType, Flow
<1>a. ASSUME \A c \in Clients : \A k \in 1..Len(channels') :
                 at'[c] = "channels" /\ next'[c] <= k =>
                     \A d \in Printed(shown'[channels'[k]]) :
                         by'[d] = c => Ahead(said', d, context'[c])
      PROVE  DirectFlow'
  BY <1>a DEF DirectFlow, Ahead, Printed, Elements
<1> USE DEF statement, loggerVars, vars
\* Steps that print nothing and say nothing.
<1>1. ASSUME UNCHANGED <<said, shown, channels, by>>,
             \A c \in Clients : at'[c] = "channels" =>
                 at[c] = "channels" /\ next'[c] = next[c] /\ context'[c] = context[c]
      PROVE  DirectFlow'
  BY <1>1, <1>a DEF DirectFlow
<1>2. ASSUME NEW c \in Clients, Direct(c) PROVE DirectFlow'
  <2>1. CASE next[c] <= Len(channels)
    <3>1. PICK n \in 1..Len(channels) : n = next[c]
      BY <1>0, <2>1
    <3>2. PICK ch \in Channels : ch = channels[n]
      BY <1>0, <3>1
    <3>3. PICK e \in Entries : e = context[c]
      BY <1>2 DEF Direct, LType
    <3>4. PICK x \in Entries \cup {Blank} : x = Line(ch, e) /\ x \in {e, Blank}
      BY <3>3, LineType
    <3>5. /\ UNCHANGED <<said, channels, by, context, at>> /\ at[c] = "channels"
          /\ shown'[ch] = Append(shown[ch], x)
          /\ \A h \in Channels \ {ch} : shown'[h] = shown[h]
          /\ next'[c] = n + 1 /\ \A d \in Clients \ {c} : next'[d] = next[d]
      BY <1>0, <1>2, <2>1, <3>1, <3>2, <3>3, <3>4 DEF Direct
    <3>6. Printed(shown'[ch]) \subseteq Printed(shown[ch]) \cup {e}
      <4>0. shown[ch] \in Seq(Entries \cup {Blank})
        BY <1>0
      <4>1. Elements(Append(shown[ch], x)) = Elements(shown[ch]) \cup {x}
        BY <4>0, AppendAt
      <4> QED
        BY <3>4, <3>5, <4>1 DEF Printed
    <3>7. by[e] = c
      BY <3>3, <3>5, LoggerAssumption DEF Statements
    <3>8. ASSUME NEW d \in Clients, NEW k \in 1..Len(channels), at[d] = "channels", next'[d] <= k,
                 NEW f \in Printed(shown'[channels[k]]), by[f] = d
          PROVE  Ahead(said, f, context[d])
      <4>1. CASE d = c
        <5>1. k # n /\ next[d] <= k
          BY <3>1, <3>5, <3>8, <4>1
        <5>2. channels[k] # ch
          BY <3>2, <5>1 DEF Statements, Distinct
        <5>3. f \in Printed(shown[channels[k]])
          BY <1>0, <3>5, <3>8, <5>2
        <5> QED
          BY <3>8, <5>1, <5>3 DEF DirectFlow
      <4>2. CASE d # c
        <5>1. next[d] <= k /\ f # e
          BY <3>5, <3>7, <3>8, <4>2
        <5>2. f \in Printed(shown[channels[k]])
          BY <1>0, <3>5, <3>6, <3>8, <5>1
        <5> QED
          BY <3>8, <5>1, <5>2 DEF DirectFlow
      <4> QED
        BY <4>1, <4>2
    <3> QED
      BY <1>a, <3>5, <3>8
  <2>2. CASE ~(next[c] <= Len(channels))
    BY <1>0, <1>1, <1>2, <2>2 DEF Direct, Reset
  <2> QED
    BY <2>1, <2>2
<1>3. ASSUME NEW c \in Clients, NEW last \in BOOLEAN, Insert(c, last) PROVE DirectFlow'
  <2>1. CASE context[c] = None
    BY <1>0, <1>1, <1>3, <2>1 DEF Insert
  <2>2. CASE context[c] # None
    <3>1. PICK e \in Entries : e = context[c]
      BY <1>0, <2>2
    <3>2. /\ said' = Append(said, e) /\ UNCHANGED <<shown, channels, by, context>>
          /\ \A d \in Clients \ {c} : at'[d] = at[d] /\ next'[d] = next[d]
      BY <1>0, <1>3, <2>2, <3>1 DEF Insert, Write
    <3>3. /\ \A d, f : Ahead(said, d, f) => Ahead(said', d, f)
          /\ \A d \in Elements(said) : Ahead(said', d, e)
      BY <1>0, <3>2, SaidGrows
    <3>4. ASSUME NEW d \in Clients, NEW k \in 1..Len(channels), at'[d] = "channels", next'[d] <= k,
                 NEW f \in Printed(shown[channels[k]]), by[f] = d
          PROVE  Ahead(said', f, context[d])
      <4>1. CASE d = c
        BY <1>0, <3>1, <3>3, <3>4, <4>1
      <4>2. CASE d # c
        BY <3>2, <3>3, <3>4, <4>2 DEF DirectFlow
      <4> QED
        BY <4>1, <4>2
    <3> QED
      BY <1>a, <3>2, <3>4
  <2> QED
    BY <2>1, <2>2
<1>4. ASSUME NEW c \in Clients, NEW e \in Entries, Capture(c, e) PROVE DirectFlow'
  <2>1. /\ by[e] = None /\ UNCHANGED <<said, shown, channels, next>>
        /\ \A f \in Entries \ {e} : by'[f] = by[f]
        /\ \A d \in Clients : at'[d] = "channels" => d # c
        /\ \A d \in Clients \ {c} : at'[d] = at[d] /\ context'[d] = context[d]
    BY <1>0, <1>4 DEF Capture
  <2>2. e \notin Elements(said)
    BY <2>1 DEF Statements
  <2>3. ASSUME NEW ch \in Channels, NEW f \in Printed(shown[ch]) PROVE by'[f] = by[f]
    BY <1>0, <2>1, <2>2
  <2>4. ASSUME NEW d \in Clients, NEW k \in 1..Len(channels), at'[d] = "channels", next'[d] <= k,
               NEW f \in Printed(shown[channels[k]]), by'[f] = d
        PROVE  Ahead(said, f, context'[d])
    <3>1. d # c /\ at[d] = "channels" /\ next[d] <= k /\ context'[d] = context[d]
      BY <2>1, <2>4
    <3>2. by[f] = d
      BY <1>0, <2>3, <2>4
    <3> QED
      BY <2>4, <3>1, <3>2 DEF DirectFlow
  <2> QED
    BY <1>a, <2>1, <2>4
\* While the writer prints, no thread prints itself.
<1>5. CASE WriterShows
  <2>1. wpc = "write" /\ batch # <<>> /\ UNCHANGED at
    BY <1>5 DEF WriterShows, WriteToChannels
  <2>2. \A c \in Clients : at'[c] # "channels"
    BY <2>1 DEF Phases, Flow
  <2> QED
    BY <1>a, <2>2
<1>6. CASE \E ch \in Channels : AddLogChannel(ch)
  <2>1. \A c \in Clients : at'[c] # "channels"
    BY <1>6 DEF AddLogChannel
  <2> QED
    BY <1>a, <2>1
<1>7. ASSUME NEW c \in Clients, Posted(c) PROVE DirectFlow'
  BY <1>0, <1>1, <1>7 DEF Posted, Reset
<1>8. CASE (WriterRuns /\ ~WriterShows) \/ SetWriter \/ DropWriter \/ WriterExits \/ Stopped
           \/ UNCHANGED <<vars, loggerVars>>
  BY <1>1, <1>8 DEF WriterRuns, SetWriter, DropWriter, WriterExits, Stopped
<1> QED
  BY <1>2, <1>3, <1>4, <1>5, <1>6, <1>7, <1>8 DEF LNext, Leave

\* What a channel has printed, thread by thread.
InSaidOrder(s, b, q) ==
    \A i, j \in 1..Len(q) :
        i < j /\ q[i] # Blank /\ q[j] # Blank /\ b[q[i]] = b[q[j]] => Ahead(s, q[i], q[j])
ShownInOrder == \A ch \in Channels : InSaidOrder(said, by, shown[ch])

\* An entry printed after all that was said before it keeps the order.
LEMMA PrintsInOrder ==
  ASSUME NEW s, NEW b, NEW q \in Seq(Entries \cup {Blank}), NEW x \in Entries \cup {Blank},
         InSaidOrder(s, b, q),
         \A d \in Printed(q) : x # Blank /\ b[d] = b[x] => Ahead(s, d, x)
  PROVE  InSaidOrder(s, b, Append(q, x))
<1> DEFINE a == Append(q, x)
<1>1. /\ Len(a) = Len(q) + 1 /\ Len(q) \in Nat /\ a[Len(q) + 1] = x
      /\ \A i \in 1..Len(q) : a[i] = q[i]
      /\ \A i \in 1..Len(q) + 1 : i = Len(q) + 1 \/ i \in 1..Len(q)
  BY AppendAt
<1>2. \A i \in 1..Len(q) : q[i] # Blank => q[i] \in Printed(q)
  BY DEF Printed, Elements
<1> HIDE DEF a
<1>3. SUFFICES ASSUME NEW i \in 1..Len(a), NEW j \in 1..Len(a), i < j,
                      a[i] # Blank, a[j] # Blank, b[a[i]] = b[a[j]]
               PROVE  Ahead(s, a[i], a[j])
  BY DEF InSaidOrder, a
<1>4. i \in 1..Len(q) /\ a[i] = q[i]
  BY <1>1, <1>3
<1>5. CASE j = Len(q) + 1
  BY <1>1, <1>2, <1>3, <1>4, <1>5
<1>6. CASE j \in 1..Len(q)
  BY <1>1, <1>3, <1>4, <1>6 DEF InSaidOrder
<1> QED
  BY <1>1, <1>5, <1>6

\* Each step keeps what is shown in order.
LEMMA ShownStep ==
  ASSUME TypeOK, LType, PrintInv, ShownInOrder, [LNext]_<<vars, loggerVars>>
  PROVE  ShownInOrder'
<1>0. /\ said \in Seq(Entries) /\ batch \in Seq(Entries)
      /\ by \in [Entries -> Clients \cup {None}]
      /\ shown \in [Channels -> Seq(Entries \cup {Blank})] /\ channels \in Seq(Channels)
      /\ context \in [Clients -> Entries \cup {None}]
      /\ \A k \in 1..Len(channels) : channels[k] \in Channels
  BY DEF LType, TypeOK
<1>a. ASSUME \A ch \in Channels : InSaidOrder(said', by', shown'[ch]) PROVE ShownInOrder'
  BY <1>a DEF ShownInOrder, InSaidOrder, Ahead
<1>b. ASSUME NEW ch \in Channels
      PROVE  /\ shown[ch] \in Seq(Entries \cup {Blank}) /\ InSaidOrder(said, by, shown[ch])
             /\ Printed(shown[ch]) \subseteq Elements(said)
             /\ \A i \in 1..Len(shown[ch]) : shown[ch][i] # Blank =>
                    shown[ch][i] \in Entries /\ shown[ch][i] \in Elements(said)
  <2>1. shown[ch] \in Seq(Entries \cup {Blank}) /\ Printed(shown[ch]) \subseteq Elements(said)
    BY <1>0 DEF PrintInv, Flow
  <2>2. \A i \in 1..Len(shown[ch]) : shown[ch][i] \in Elements(shown[ch])
    BY DEF Elements
  <2> QED
    BY <2>1, <2>2 DEF Printed, ShownInOrder
<1> USE DEF statement, loggerVars, vars
<1>1. ASSUME UNCHANGED <<said, shown, by>> PROVE ShownInOrder'
  BY <1>1, <1>a DEF ShownInOrder
<1>2. ASSUME NEW c \in Clients, Direct(c) PROVE ShownInOrder'
  <2>1. CASE next[c] <= Len(channels)
    <3>1. PICK n \in 1..Len(channels) : n = next[c]
      BY <2>1 DEF LType
    <3>2. PICK ch \in Channels : ch = channels[n]
      BY <1>0, <3>1
    <3>3. PICK e \in Entries : e = context[c]
      BY <1>2 DEF Direct, LType
    <3>4. PICK x \in Entries \cup {Blank} : x = Line(ch, e) /\ x \in {e, Blank}
      BY <3>3, LineType
    <3>5. /\ UNCHANGED <<said, by>> /\ at[c] = "channels"
          /\ shown'[ch] = Append(shown[ch], x)
          /\ \A h \in Channels \ {ch} : shown'[h] = shown[h]
      BY <1>0, <1>2, <2>1, <3>1, <3>2, <3>3, <3>4 DEF Direct
    <3>6. by[e] = c
      BY <3>3, <3>5, LoggerAssumption DEF PrintInv, Statements
    <3>7. \A d \in Printed(shown[ch]) : by[d] = c => Ahead(said, d, e)
      BY <3>1, <3>2, <3>3, <3>5 DEF PrintInv, DirectFlow
    <3>8. \A d \in Printed(shown[ch]) : x # Blank /\ by[d] = by[x] => Ahead(said, d, x)
      BY <3>4, <3>6, <3>7
    <3>9. InSaidOrder(said, by, Append(shown[ch], x))
      BY <1>b, <3>8, PrintsInOrder
    <3> QED
      BY <1>a, <1>b, <3>5, <3>9
  <2>2. CASE ~(next[c] <= Len(channels))
    BY <1>1, <1>2, <2>2 DEF Direct
  <2> QED
    BY <2>1, <2>2
<1>3. CASE WriterShows
  <2>1. PICK e : e = Head(batch)
    OBVIOUS
  <2>2. batch # <<>> /\ wpc = "write" /\ UNCHANGED <<said, by>>
    BY <1>3 DEF WriterShows, WriteToChannels
  <2>3. e \in Entries /\ e \in Elements(batch)
    BY <1>0, <2>1, <2>2, TailAt
  <2>4. ASSUME NEW ch \in Channels PROVE InSaidOrder(said, by, shown'[ch])
    <3>1. PICK x \in Entries \cup {Blank} : x = Line(ch, e) /\ x \in {e, Blank}
      BY <2>3, LineType
    <3>2. shown'[ch] = shown[ch] \/ shown'[ch] = Append(shown[ch], x)
      BY <1>3, <2>1, <3>1 DEF WriterShows
    <3>3. \A d \in Printed(shown[ch]) : x # Blank /\ by[d] = by[x] => Ahead(said, d, x)
      BY <2>2, <2>3, <3>1 DEF PrintInv, Flow, Precede
    <3>4. InSaidOrder(said, by, Append(shown[ch], x))
      BY <1>b, <3>3, PrintsInOrder
    <3> QED
      BY <1>b, <3>2, <3>4
  <2> QED
    BY <1>a, <2>2, <2>4
<1>4. ASSUME NEW c \in Clients, NEW last \in BOOLEAN, Insert(c, last) PROVE ShownInOrder'
  <2>1. CASE context[c] = None
    BY <1>1, <1>4, <2>1 DEF Insert
  <2>2. CASE context[c] # None
    <3>1. PICK e \in Entries : e = context[c]
      BY <1>0, <2>2
    <3>2. said' = Append(said, e) /\ shown' = shown /\ by' = by
      BY <1>4, <2>2, <3>1 DEF Insert, Write
    <3>3. \A d, f : Ahead(said, d, f) => Ahead(said', d, f)
      BY <1>0, <3>2, SaidGrows
    <3>4. ASSUME NEW ch \in Channels PROVE InSaidOrder(said', by, shown[ch])
      BY <1>b, <3>3 DEF InSaidOrder
    <3> QED
      BY <1>a, <3>2, <3>4
  <2> QED
    BY <2>1, <2>2
<1>5. ASSUME NEW c \in Clients, NEW e \in Entries, Capture(c, e) PROVE ShownInOrder'
  <2>1. /\ by[e] = None /\ UNCHANGED <<said, shown>>
        /\ \A f \in Entries \ {e} : by'[f] = by[f]
    BY <1>0, <1>5 DEF Capture
  <2>2. e \notin Elements(said)
    BY <2>1 DEF PrintInv, Statements
  <2>3. ASSUME NEW ch \in Channels PROVE InSaidOrder(said, by', shown[ch])
    <3>1. \A i \in 1..Len(shown[ch]) : shown[ch][i] # Blank => by'[shown[ch][i]] = by[shown[ch][i]]
      BY <1>b, <2>1, <2>2
    <3> QED
      BY <1>b, <3>1 DEF InSaidOrder
  <2> QED
    BY <1>a, <2>1, <2>3
<1>6. CASE (WriterRuns /\ ~WriterShows) \/ SetWriter \/ DropWriter \/ WriterExits \/ Stopped
           \/ (\E ch \in Channels : AddLogChannel(ch)) \/ (\E c \in Clients : Posted(c))
           \/ UNCHANGED <<vars, loggerVars>>
  BY <1>1, <1>6 DEF WriterRuns, SetWriter, DropWriter, WriterExits, Stopped, AddLogChannel, Posted
<1> QED
  BY <1>2, <1>3, <1>4, <1>5, <1>6 DEF LNext, Leave

\* The writer of a Logger is a writer: what is proved of it above holds.
LEMMA LoggerKeeps == LSpec => WriterSafety /\ [](TypeOK /\ LType /\ PrintInv)
<1> DEFINE Inv == TypeOK /\ LType /\ PrintInv
<1>1. LInit => Inv
  <2> SUFFICES ASSUME LInit PROVE Inv
    OBVIOUS
  <2>1. /\ \A S : <<>> \in Seq(S)
        /\ \A q : q = <<>> => Elements(q) = {} /\ Len(q) = 0
    BY DEF Elements
  <2>2. TypeOK
    BY TypeInit DEF LInit
  <2>3. LType
    <3>1. /\ channels \in Seq(Channels) /\ said \in Seq(Entries)
          /\ shown \in [Channels -> Seq(Entries \cup {Blank})]
      BY <2>1 DEF LInit
    <3>2. /\ installed \in BOOLEAN /\ ending \subseteq Clients
          /\ context \in [Clients -> Entries \cup {None}]
          /\ by \in [Entries -> Clients \cup {None}]
      BY DEF LInit
    <3>a. next \in [Clients -> Nat \ {0}]
      BY DEF LInit
    <3>3. at \in [Clients -> Points] /\ \A c \in Clients : at[c] = "out"
      BY DEF LInit, Points
    <3>4. "out" \notin {"post", "channels"}
      OBVIOUS
    <3> QED
      BY <3>1, <3>2, <3>a, <3>3, <3>4 DEF LType
  <2>4. Statements
    BY <2>1 DEF LInit, Statements, Distinct
  <2>5. Phases
    BY DEF LInit, Init, Phases
  <2>6. Flow
    BY <2>1 DEF LInit, Init, Flow, Upstream, Ordered, Precede, Printed
  <2>7. DirectFlow
    BY <2>1 DEF LInit, DirectFlow
  <2> QED
    BY <2>2, <2>3, <2>4, <2>5, <2>6, <2>7 DEF PrintInv
<1>2. Inv /\ [LNext]_<<vars, loggerVars>> => Inv' /\ [Next]_vars
  BY StepOfWriter, TypeStep, LTypeStep, StatementsStep, PhasesStep, FlowStep, DirectFlowStep
     DEF PrintInv
<1>3. LInit => Init
  BY DEF LInit
<1> QED
  BY <1>1, <1>2, <1>3, PTL DEF LSpec, WriterSafety

\* The types of the Logger and its statements (Log.h:73-90, 186-197, 257-263).
THEOREM LoggerTyping == LSpec => [](TypeOK /\ LType)
BY LoggerKeeps, PTL

\* Between the threads that log and the channels, no entry is lost, doubled or overtaken in
\* the writer, and the writer does not sleep on one, also while setWriter sets and
\* destroys it (Log.h:186-191, 218-255).
THEOREM LoggerKeepsOrder == LSpec => [](EntriesInOrder /\ NoEntryForgotten)
BY LoggerKeeps, WriterOrder, WriterForgetsNone, PTL

\* Each channel prints what a thread logs in its order and no entry of it twice, whoever
\* prints, and when a writer is set or destroyed between two statements
\* (Log.h:186-197, 218-241, 274-294).
THEOREM ThreadsKeepOrder == LSpec => []ThreadOrder
<1>1. LInit => ShownInOrder
  <2> SUFFICES ASSUME LInit, NEW ch \in Channels PROVE InSaidOrder(said, by, shown[ch])
    BY DEF ShownInOrder
  <2>1. Len(shown[ch]) = 0
    BY DEF LInit
  <2> QED
    BY <2>1 DEF InSaidOrder
<1>2. TypeOK /\ LType /\ PrintInv /\ ShownInOrder /\ [LNext]_<<vars, loggerVars>> => ShownInOrder'
  BY ShownStep
<1>3. TypeOK /\ LType /\ PrintInv /\ ShownInOrder => ThreadOrder
  <2> SUFFICES ASSUME LType, PrintInv, ShownInOrder, NEW ch \in Channels,
                      NEW i \in DOMAIN shown[ch], NEW j \in DOMAIN shown[ch], i < j,
                      Blank \notin {shown[ch][i], shown[ch][j]},
                      by[shown[ch][i]] = by[shown[ch][j]]
               PROVE  Before(shown[ch][i], shown[ch][j]) /\ shown[ch][i] # shown[ch][j]
    BY DEF ThreadOrder
  <2>1. DOMAIN shown[ch] = 1..Len(shown[ch]) /\ DOMAIN said = 1..Len(said)
    BY DEF LType
  <2>2. Ahead(said, shown[ch][i], shown[ch][j])
    BY <2>1 DEF ShownInOrder, InSaidOrder
  <2>3. PICK k, l \in 1..Len(said) : k < l /\ said[k] = shown[ch][i] /\ said[l] = shown[ch][j]
    BY <2>2 DEF Ahead
  <2>4. said[k] # said[l]
    BY <2>3 DEF PrintInv, Statements, Distinct
  <2> QED
    BY <2>1, <2>3, <2>4 DEF Before
<1> QED
  BY <1>1, <1>2, <1>3, LoggerKeeps, PTL DEF LSpec
=============================================================================
