--------------------------- MODULE MCFleetDispatch ---------------------------
(***************************************************************************)
(* Instances of FleetDispatch for TLC: the items of one batch, placed by   *)
(* the plan.                                                               *)
(***************************************************************************)
EXTENDS FleetDispatch, TLC

CONSTANTS i1, i2, b1, b2, s1, s2

OneBatch == [i \in Items |-> b1]
Symmetric == Permutations(Items)
Unpinned == [i \in Items |-> None]
=============================================================================
