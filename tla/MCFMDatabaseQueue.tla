-------------------------- MODULE MCFMDatabaseQueue ---------------------------
(* FMDatabaseQueue with three calls, one of them by reference, one
   task that closes its own queue and one that calls it. *)
EXTENDS FMDatabaseQueue

CONSTANTS t1, t2, t3

ThreeTasks == {t1, t2, t3}
OneByRef == {t2}
OneCloses == {t3}
OneCalls == {t1}
===============================================================================
