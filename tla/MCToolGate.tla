------------------------------ MODULE MCToolGate ------------------------------
(***************************************************************************)
(* Instances of ToolGate for TLC.  The calls under way, the servers and    *)
(* the plans are interchangeable: no definition orders or names one.       *)
(***************************************************************************)
EXTENDS ToolGate, TLC

Interchangeable == Permutations(Slots) \cup Permutations(Servers) \cup Permutations(Plans)
=============================================================================
