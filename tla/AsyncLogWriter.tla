--------------------------- MODULE AsyncLogWriter ---------------------------
(***************************************************************************)
(* avc::util::AsyncLogWriter (log/Log.h): threads that log append to       *)
(* pendding_ and post the semaphore; the writer thread takes the whole     *)
(* list at a time and hands its entries to the channels.  The semaphore is *)
(* the counting semaphore that Semphore.tla implements.                    *)
(*                                                                         *)
(* The writer is destroyed by the thread that replaces it in the Logger or *)
(* destroys the Logger, when no thread is in writeLog.                     *)
(***************************************************************************)
EXTENDS Integers, Sequences

CONSTANTS Clients,      \* threads that log
          Writer,       \* thread_
          Entries       \* log entries: each is logged once

ASSUME WriterAssumption == Writer \notin Clients

VARIABLES
    exit,               \* exit_
    permits,            \* semphore_: its counter
    waiters,            \* semphore_: the writer thread, if it sleeps
    pendding,           \* pendding_
    wpc,                \* where the writer thread is
    batch,              \* tmp of run, from the entry at hand on
    posting,            \* clients between the push and the post of writeLog
    dpc,                \* where the destructor is
    accepted,           \* history: entries pushed, in order
    written             \* history: entries the channels were given, in order

semVars == <<permits, waiters>>
vars == <<exit, semVars, pendding, wpc, batch, posting, dpc, accepted, written>>

Sem == INSTANCE CountingSemaphore WITH Threads <- {Writer}, PostSizes <- {1}

Elements(s) == {s[i] : i \in 1..Len(s)}

Init ==
    /\ exit = FALSE /\ Sem!Init
    /\ pendding = <<>> /\ batch = <<>>
    /\ wpc = "top" /\ posting = {} /\ dpc = "alive"
    /\ accepted = <<>> /\ written = <<>>

\* writeLog: push under mutex_ ...
WriteLog(c, e) ==
    /\ dpc = "alive" /\ c \notin posting
    /\ e \notin Elements(accepted)
    /\ pendding' = Append(pendding, e) /\ accepted' = Append(accepted, e)
    /\ posting' = posting \cup {c}
    /\ UNCHANGED <<exit, semVars, wpc, batch, dpc, written>>

\* Mutant: the semaphore is posted only if the list was empty before.
PostIfFirst(c) ==
    /\ c \in posting
    /\ IF Len(pendding) > 1 THEN UNCHANGED semVars ELSE Sem!Release(1)
    /\ posting' = posting \ {c}
    /\ UNCHANGED <<exit, pendding, wpc, batch, dpc, accepted, written>>

\* ... then post.
Post(c) ==
    /\ c \in posting
    /\ Sem!Release(1)
    /\ posting' = posting \ {c}
    /\ UNCHANGED <<exit, pendding, wpc, batch, dpc, accepted, written>>

-----------------------------------------------------------------------------
(* exit(), called by the destructor. *)

SetExit ==
    /\ dpc = "alive" /\ posting = {}
    /\ exit' = TRUE /\ dpc' = "post"
    /\ UNCHANGED <<semVars, pendding, wpc, batch, posting, accepted, written>>

\* Mutant: the writer thread is not woken.
ExitQuietly ==
    /\ dpc = "post"
    /\ dpc' = "join"
    /\ UNCHANGED <<exit, semVars, pendding, wpc, batch, posting, accepted, written>>

ExitPost ==
    /\ dpc = "post"
    /\ Sem!Release(1)
    /\ dpc' = "join"
    /\ UNCHANGED <<exit, pendding, wpc, batch, posting, accepted, written>>

Join ==
    /\ dpc = "join" /\ wpc = "done"
    /\ dpc' = "gone"
    /\ UNCHANGED <<exit, semVars, pendding, wpc, batch, posting, accepted, written>>

-----------------------------------------------------------------------------
(* run(), the writer thread. *)

Top ==
    /\ wpc = "top"
    /\ wpc' = IF exit THEN "done" ELSE "wait"
    /\ UNCHANGED <<exit, semVars, pendding, batch, posting, dpc, accepted, written>>

Sleep ==
    /\ wpc = "wait"
    /\ Sem!Arrive(Writer)
    /\ UNCHANGED <<exit, pendding, wpc, batch, posting, dpc, accepted, written>>

Pass ==
    /\ wpc = "wait"
    /\ Sem!Pass(Writer)
    /\ wpc' = "take"
    /\ UNCHANGED <<exit, pendding, batch, posting, dpc, accepted, written>>

\* Mutant: the list is copied and not emptied.
TakeCopy ==
    /\ wpc = "take"
    /\ wpc' = IF pendding = <<>> THEN "top" ELSE "write"
    /\ batch' = pendding
    /\ UNCHANGED <<exit, semVars, pendding, posting, dpc, accepted, written>>

\* Under mutex_: continue if there is nothing, else take the whole list.
Take ==
    /\ wpc = "take"
    /\ wpc' = IF pendding = <<>> THEN "top" ELSE "write"
    /\ batch' = pendding /\ pendding' = <<>>
    /\ UNCHANGED <<exit, semVars, posting, dpc, accepted, written>>

\* Mutant: the last entry of a batch goes first.
WriteLast ==
    /\ wpc = "write" /\ batch # <<>>
    /\ written' = Append(written, batch[Len(batch)])
    /\ batch' = SubSeq(batch, 1, Len(batch) - 1)
    /\ UNCHANGED <<exit, semVars, pendding, wpc, posting, dpc, accepted>>

\* writeLogToChannels for the next entry of the batch.
WriteToChannels ==
    /\ wpc = "write" /\ batch # <<>>
    /\ written' = Append(written, Head(batch))
    /\ batch' = Tail(batch)
    /\ UNCHANGED <<exit, semVars, pendding, wpc, posting, dpc, accepted>>

BatchEnds ==
    /\ wpc = "write" /\ batch = <<>>
    /\ wpc' = "top"
    /\ UNCHANGED <<exit, semVars, pendding, batch, posting, dpc, accepted, written>>

-----------------------------------------------------------------------------
Running == Top \/ Sleep \/ Pass \/ Take \/ WriteToChannels \/ BatchEnds
Exiting == ExitPost \/ Join

Gone == dpc = "gone" /\ UNCHANGED vars

Next == \/ \E c \in Clients : Post(c) \/ \E e \in Entries : WriteLog(c, e)
        \/ SetExit \/ Exiting \/ Running \/ Gone

Fairness == /\ \A c \in Clients : WF_vars(Post(c))
            /\ WF_vars(Running) /\ WF_vars(Exiting)

Spec == Init /\ [][Next]_vars /\ Fairness

-----------------------------------------------------------------------------
TypeOK ==
    /\ exit \in BOOLEAN /\ permits \in Nat /\ waiters \subseteq {Writer}
    /\ pendding \in Seq(Entries) /\ batch \in Seq(Entries)
    /\ wpc \in {"top", "wait", "take", "write", "done"}
    /\ posting \subseteq Clients
    /\ dpc \in {"alive", "post", "join", "gone"}
    /\ accepted \in Seq(Entries) /\ written \in Seq(Entries)

\* No entry is lost, doubled or overtaken on its way through the two lists, by any
\* number of threads that log and at any point of run and of exit
\* (Log.h:218-224, 231-241).
EntriesInOrder == accepted = written \o batch \o pendding

\* The writer thread does not sleep on an entry: there is a permit, a thread that
\* will post one, or the writer is about to look (Log.h:219-234).
NoEntryForgotten ==
    pendding # <<>> => permits > 0 \/ posting # {} \/ wpc = "take"

Sink == INSTANCE LogSink WITH closed <- exit

\* The writer is a log sink: entries are written once, in order, and all of them
\* as long as the writer is not told to exit.
IsLogSink == Sink!Spec

\* The destructor returns (Log.h:245-255).
ExitReturns == dpc = "post" ~> dpc = "gone"
=============================================================================
