--------------------------- MODULE MCTransactions ----------------------------
(* Transactions with few rows and savepoint names.  Rows and names are       *)
(* interchangeable: Transactions takes any of them, and names none.          *)
EXTENDS Transactions, TLC

CONSTANTS w1, w2, n1, n2, n3

TwoRows == {w1, w2}
ThreeNames == {n1, n2, n3}

MildAndAll == {StatementErrors, FaultKinds}

Symmetry == Permutations(TwoRows) \union Permutations(ThreeNames)
==============================================================================
