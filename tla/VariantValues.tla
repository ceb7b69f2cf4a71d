---------------------------- MODULE VariantValues -----------------------------
(***************************************************************************)
(* What Variant.hpp promises: a Variant is a value.  Assigning to one      *)
(* replaces what it holds, a copy holds the same, a moved-from one holds   *)
(* nothing, and no operation on one Variant changes another.               *)
(***************************************************************************)
CONSTANTS Vars,      \* the Variant objects
          Values,    \* what a Variant can hold, the empty value among them
          Empty      \* Variant::null

VARIABLE value       \* what each object holds; Empty before construction

Init == value = [v \in Vars |-> Empty]

\* Construction from a plain value, and assignment of one.
Set(v, x) == value' = [value EXCEPT ![v] = x]

Copy(v, o) == value' = [value EXCEPT ![v] = value[o]]

Move(v, o) == v # o /\ value' = [value EXCEPT ![v] = value[o], ![o] = Empty]

Next ==
    \/ \E v \in Vars, x \in Values : Set(v, x)
    \/ \E v, o \in Vars : Copy(v, o) \/ Move(v, o)

Spec == Init /\ [][Next]_value
===============================================================================
