------------------------------- MODULE MCRun -------------------------------
(***************************************************************************)
(* `autonet run` on a machine with one interface: the address it has is    *)
(* the answer, and without one there is no answer.                         *)
(***************************************************************************)
EXTENDS Run, TLC

Links     == {"up"}
Routes    == {"default"}
Leaving   == {10, None}     \* the address goes and comes back

MCResolve(s) == s.addresses
MCAnswer(selection) == selection
MCAffects(a, b) == a # b
MCRequested(s) == TRUE

\* 256 is 0 to whoever keeps its low byte; a child that is killed reports 1 on
\* Windows.
Codes == {256}

============================================================================
