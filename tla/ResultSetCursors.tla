--------------------------- MODULE ResultSetCursors ---------------------------
(***************************************************************************)
(* What a client of FMDatabase may believe about result sets: every open   *)
(* result set is a private cursor.  It starts before the first row, moves  *)
(* one row at a time, only when it is asked to, and never moves because    *)
(* another result set, an update or the statement cache did something.     *)
(*                                                                         *)
(* testStatementCachingWorks (Tests/FMDatabaseTests.mm:744) calls this the *)
(* primary check: "with the old implementation of statement caching, rs2   *)
(* would have rejiggered the (cached) statement used by rs1".              *)
(***************************************************************************)
EXTENDS Naturals

CONSTANT ResultSets     \* identities of FMResultSet objects

VARIABLES open,         \* the result sets that can still be stepped
          position      \* rows each of them has returned, 0 when not open

cursorVars == <<open, position>>

Init ==
    /\ open = {}
    /\ position = [r \in ResultSets |-> 0]

\* executeQuery hands out a new result set, before its first row.
Create(r) ==
    /\ r \notin open
    /\ open' = open \union {r}
    /\ UNCHANGED position

\* next() returned true: one row further, no other result set moved.
Advance(r) ==
    /\ r \in open
    /\ position' = [position EXCEPT ![r] = @ + 1]
    /\ UNCHANGED open

\* The result sets C end: by close(), by next() running off the last row,
\* by their destructor, or by the connection giving up their statements.
Finish(C) ==
    /\ open' = open \ C
    /\ position' = [r \in ResultSets |-> IF r \in C THEN 0 ELSE position[r]]

Next ==
    \/ \E r \in ResultSets : Create(r) \/ Advance(r)
    \/ \E C \in SUBSET ResultSets : Finish(C)

Spec == Init /\ [][Next]_cursorVars
===============================================================================
