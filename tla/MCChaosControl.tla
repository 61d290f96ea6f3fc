--------------------------- MODULE MCChaosControl ---------------------------
(***************************************************************************)
(* Instances of ChaosControl for TLC.  Every baseline capability is issued *)
(* for the one Trial of the instance, so handles and tokens may be         *)
(* permuted.                                                               *)
(***************************************************************************)
EXTENDS ChaosControl, TLC

CONSTANT TheRun

MCTokenRun == [t \in Tokens |-> TheRun]

Symmetric == Permutations(Handles) \cup Permutations(Tokens)
                \cup Permutations(FaultTypes)
=============================================================================
