------------------------------ MODULE MCVariant -------------------------------
(* Variant with three objects.  Objects, addresses and payloads are         *)
(* interchangeable: Variant names none of them, and the only CHOOSE takes   *)
(* the one member of a set.                                                 *)
EXTENDS Variant, TLC

CONSTANTS v1, v2, v3, a1, a2, a3, a4, x1, x2

ThreeVars == {v1, v2, v3}
FourNodes == {a1, a2, a3, a4}
TwoPayloads == {x1, x2}

Symmetry == Permutations(ThreeVars) \union Permutations(FourNodes)
               \union Permutations(TwoPayloads)
===============================================================================
