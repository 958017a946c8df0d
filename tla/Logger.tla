------------------------------- MODULE Logger -------------------------------
(***************************************************************************)
(* avc::util::Logger (log/Log.h) and the statements that write to it.  A   *)
(* LogContextCapture on the stack of a thread collects an entry and writes *)
(* it at each manipulator and when it is destroyed: through the            *)
(* AsyncLogWriter if one is set, else to the channels in the same thread.  *)
(*                                                                         *)
(* As in the tests, channels are added before anything is logged, and      *)
(* setWriter is called when no thread is in writeLog: neither channels_    *)
(* nor writer_ is protected.  setWriter with another writer, or none,      *)
(* destroys the one that was set (SetExit to Join of AsyncLogWriter).      *)
(***************************************************************************)
EXTENDS AsyncLogWriter, FiniteSets

CONSTANTS Channels,     \* LogChannel objects
          Level,        \* env_.level of each entry
          MinLevel,     \* level_ of each channel
          None,         \* no context_
          Blank         \* a line without text

ASSUME LoggerAssumption ==
    /\ None \notin Entries \cup Clients /\ Blank \notin Entries
    /\ Level \in [Entries -> Nat] /\ MinLevel \in [Channels -> Nat]

VARIABLES
    channels,           \* channels_
    installed,          \* writer_ is set
    context,            \* context_ of the statement each thread is in
    at,                 \* where that thread is
    ending,             \* threads whose capture is being destroyed
    next,               \* the channel a thread that writes itself comes to
    shown,              \* what each channel has printed
    said,               \* history: entries in the order in which writeLog was called
    by                  \* history: the thread of each

statement == <<context, at, ending, next>>
loggerVars == <<channels, installed, statement, shown, said, by>>

LInit ==
    /\ Init
    /\ channels = <<>> /\ installed = FALSE
    /\ context = [c \in Clients |-> None] /\ at = [c \in Clients |-> "out"]
    /\ ending = {} /\ next = [c \in Clients |-> 1]
    /\ shown = [ch \in Channels |-> <<>>]
    /\ said = <<>> /\ by = [e \in Entries |-> None]

\* No thread is in writeLog.
Quiet == \A c \in Clients : at[c] \notin {"post", "channels"}

AddLogChannel(ch) ==
    /\ \A c \in Clients : at[c] = "out"
    /\ said = <<>> /\ ch \notin Elements(channels)
    /\ channels' = Append(channels, ch)
    /\ UNCHANGED <<vars, installed, statement, shown, said, by>>

SetWriter ==
    /\ ~installed /\ dpc = "alive" /\ Quiet
    /\ installed' = TRUE
    /\ UNCHANGED <<vars, channels, statement, shown, said, by>>

DropWriter ==
    /\ installed /\ Quiet /\ SetExit
    /\ installed' = FALSE
    /\ UNCHANGED <<channels, statement, shown, said, by>>

\* format leaves out an entry below the level of the channel; the end of the line is
\* printed all the same.
Line(ch, e) == IF Level[e] < MinLevel[ch] THEN Blank ELSE e

-----------------------------------------------------------------------------
(* A log statement. *)

Capture(c, e) ==
    /\ at[c] = "out" /\ by[e] = None
    /\ context' = [context EXCEPT ![c] = e]
    /\ at' = [at EXCEPT ![c] = "open"] /\ by' = [by EXCEPT ![e] = c]
    /\ UNCHANGED <<vars, channels, installed, ending, next, shown, said>>

\* Logger::writeLog.
Write(c) ==
    /\ said' = Append(said, context[c])
    /\ IF installed
       THEN WriteLog(c, context[c]) /\ at' = [at EXCEPT ![c] = "post"]
       ELSE at' = [at EXCEPT ![c] = "channels"] /\ UNCHANGED vars
    /\ next' = [next EXCEPT ![c] = 1]

\* A manipulator, which the destructor also inserts: the entry is written if there is
\* a context_.  None is inserted while setWriter waits for the old writer.
Insert(c, last) ==
    /\ at[c] = "open" /\ dpc \in {"alive", "gone"}
    /\ IF context[c] # None
       THEN Write(c) /\ ending' = IF last THEN ending \cup {c} ELSE ending
       ELSE /\ last /\ at' = [at EXCEPT ![c] = "out"]
            /\ UNCHANGED <<vars, next, ending, said>>
    /\ UNCHANGED <<channels, installed, context, shown, by>>

\* Mutant: the manipulator leaves context_ as it is.
KeepContext(c) ==
    /\ at' = [at EXCEPT ![c] = IF c \in ending THEN "out" ELSE "open"]
    /\ ending' = ending \ {c} /\ UNCHANGED context

\* writeLog returns and context_ is reset; the destructor, if it is that, ends.
Reset(c) ==
    /\ context' = [context EXCEPT ![c] = None]
    /\ at' = [at EXCEPT ![c] = IF c \in ending THEN "out" ELSE "open"]
    /\ ending' = ending \ {c}

\* AsyncLogWriter::writeLog ends with the post.
Posted(c) ==
    /\ at[c] = "post" /\ Post(c) /\ Reset(c)
    /\ UNCHANGED <<channels, installed, next, shown, said, by>>

\* writeLogToChannels in the thread that logs, a channel at a time.
Direct(c) ==
    /\ at[c] = "channels"
    /\ IF next[c] <= Len(channels)
       THEN /\ shown' = [shown EXCEPT ![channels[next[c]]] =
                             Append(@, Line(channels[next[c]], context[c]))]
            /\ next' = [next EXCEPT ![c] = @ + 1] /\ UNCHANGED <<context, at, ending>>
       ELSE Reset(c) /\ UNCHANGED <<shown, next>>
    /\ UNCHANGED <<vars, channels, installed, said, by>>

-----------------------------------------------------------------------------
\* The writer thread gives an entry to every channel; no other thread writes to one
\* meanwhile.
WriterShows ==
    /\ WriteToChannels
    /\ shown' = [ch \in Channels |-> IF ch \in Elements(channels)
                                     THEN Append(shown[ch], Line(ch, Head(batch)))
                                     ELSE shown[ch]]
    /\ UNCHANGED <<channels, installed, statement, said, by>>

WriterRuns ==
    \/ WriterShows
    \/ (Top \/ Sleep \/ Pass \/ Take \/ BatchEnds) /\ UNCHANGED loggerVars

WriterExits == Exiting /\ UNCHANGED loggerVars

Stopped == Gone /\ Quiet /\ UNCHANGED loggerVars

Leave(c) == Posted(c) \/ Direct(c)

LNext ==
    \/ \E ch \in Channels : AddLogChannel(ch)
    \/ SetWriter \/ DropWriter \/ WriterRuns \/ WriterExits \/ Stopped
    \/ \E c \in Clients : \/ Leave(c)
                          \/ \E e \in Entries : Capture(c, e)
                          \/ \E last \in BOOLEAN : Insert(c, last)

LFairness == /\ \A c \in Clients : WF_<<vars, loggerVars>>(Leave(c))
             /\ WF_<<vars, loggerVars>>(WriterRuns)
             /\ WF_<<vars, loggerVars>>(WriterExits)

LSpec == LInit /\ [][LNext]_<<vars, loggerVars>> /\ LFairness
-----------------------------------------------------------------------------
\* Entry d was given to writeLog before entry e.
Before(d, e) == \E i, j \in DOMAIN said : i < j /\ said[i] = d /\ said[j] = e

\* Each channel prints what a thread logs in the order in which it logs it, and no
\* entry twice, whether the thread or the writer prints, when a writer is set between
\* two statements or two manipulators of one, and when it is destroyed
\* (Log.h:186-197, 218-241, 274-294).
ThreadOrder ==
    \A ch \in Channels : \A i, j \in DOMAIN shown[ch] :
        LET d == shown[ch][i] e == shown[ch][j] IN
        i < j /\ Blank \notin {d, e} /\ by[d] = by[e] => Before(d, e) /\ d # e
=============================================================================
