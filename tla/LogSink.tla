------------------------------ MODULE LogSink ------------------------------
(***************************************************************************)
(* What a LogWriter (log/Log.h) promises the threads that log: each entry  *)
(* goes to the channels once, in the order in which the entries were       *)
(* accepted, and, until the writer is told to exit, before long.           *)
(***************************************************************************)
EXTENDS Naturals, Sequences

CONSTANT Entries

VARIABLES accepted,     \* entries writeLog has taken over, in order
          written,      \* entries the channels have been given, in order
          closed        \* the writer was told to exit

vars == <<accepted, written, closed>>

Init == accepted = <<>> /\ written = <<>> /\ closed = FALSE

Accept(e) == accepted' = Append(accepted, e) /\ UNCHANGED <<written, closed>>

Write == /\ Len(written) < Len(accepted)
         /\ written' = Append(written, accepted[Len(written) + 1])
         /\ UNCHANGED <<accepted, closed>>

Close == closed' = TRUE /\ UNCHANGED <<accepted, written>>

Next == (\E e \in Entries : Accept(e)) \/ Write \/ Close

Spec == Init /\ [][Next]_vars /\ WF_vars(~closed /\ Write)
=============================================================================
