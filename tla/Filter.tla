------------------------------- MODULE Filter -------------------------------
(***************************************************************************)
(* Iterator::filter, wherever the code filters a list it keeps the order   *)
(* of.  The elements that stay are told by their positions.                *)
(***************************************************************************)
EXTENDS Integers, FiniteSets

\* The elements of a sequence at these positions, in order.
Picked(seq, positions) ==
    [k \in 1..Cardinality(positions) |->
        seq[CHOOSE i \in positions : Cardinality({j \in positions : j <= i}) = k]]

============================================================================
