--------------------------- MODULE MCTrialCampaign ---------------------------
(***************************************************************************)
(* Instances of TrialCampaign for TLC.                                     *)
(***************************************************************************)
EXTENDS TrialCampaign

EachCase == {<<k>> : k \in AllKinds \ {"C0"}} \cup {<<"C0", "C0">>}
Waiting == {<<"D5">>, <<"D8">>}
=============================================================================
