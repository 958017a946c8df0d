----------------------------- MODULE MCSemphore -----------------------------
(* Semphore with four waiting threads and posts of 0, 1 and 2 permits. *)
EXTENDS Semphore, TLC

CONSTANTS t1, t2, t3, t4

MCThreads == {t1, t2, t3, t4}
MCPostSizes == {0, 1, 2}
=============================================================================
