----------------------------- MODULE MCFMDatabase -----------------------------
(* FMDatabase on small sets of statements, queries and result sets. *)
EXTENDS FMDatabase

CONSTANTS q1, q2, s1, s2, s3, r1, r2, r3

TwoQueries == {q1, q2}
ThreeStmts == {s1, s2, s3}
TwoResultSets == {r1, r2}
ThreeResultSets == {r1, r2, r3}
===============================================================================
