------------------------------- MODULE MCDev -------------------------------
(***************************************************************************)
(* A project with one generated file and one background command, on a      *)
(* machine with two addresses to move between, and none.                   *)
(***************************************************************************)
EXTENDS Dev, TLC

Addresses == {None, "here", "there"}
MCIpOf(a) == a
MCCodes == {0, 3}

============================================================================
