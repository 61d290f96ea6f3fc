-------------------------- MODULE MCHarnessSession --------------------------
(***************************************************************************)
(* Instances of HarnessSession for TLC.                                    *)
(***************************************************************************)
EXTENDS HarnessSession
=============================================================================
