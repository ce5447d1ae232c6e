---------------------------- MODULE MCAdvertise ----------------------------
(***************************************************************************)
(* Advertise with two addresses to move between, and none.                 *)
(***************************************************************************)
EXTENDS Advertise, TLC

Addresses == {None, "here", "there"}

============================================================================
