---------------------------- MODULE MCBusyHandler -----------------------------
(* BusyHandler with sleeps of one or two units. *)
EXTENDS BusyHandler

NoneOrFour == {0, 4}
===============================================================================
