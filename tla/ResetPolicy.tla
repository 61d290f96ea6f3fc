----------------------------- MODULE ResetPolicy -----------------------------
(***************************************************************************)
(* What the platform does to the environment after a trial, chosen from    *)
(* the evidence of the trial: the tier of the reset (reset_policy.py) and  *)
(* whether a full reinstallation may follow (recovery_state.py).           *)
(*                                                                         *)
(* Evidence is a mapping in which a key may be true, false or missing, and *)
(* the code tells a false value from a missing one: here every key has one *)
(* of the three values of Marks.  Each key stands for the alternative      *)
(* spellings that the code accepts with the same meaning.                  *)
(***************************************************************************)
EXTENDS Naturals

Marks == {"yes", "no", "none"}

\* the four paths that must not reach a reinstallation, by the signal each writes
Signals == {"recovery_raised", "controller_restarted", "cleanup_handle_missing",
            "capability_loss_rollback_failed"}
Attempted == {"rollback_attempted", "cleanup_attempted"}
Outcomes == {"rollback_verified", "cleanup_verified"}
Dirtied == {"main_fault_ever_active", "target_replaced"}
Restricted == {"permission_revoked", "permission_restore_verified",
               "capability_rebound_verified", "tool_channel_interrupted"}
Restored == {"permission_restore_verified", "capability_rebound_verified"}

Keys == Signals \cup Attempted \cup Outcomes \cup Dirtied \cup Restricted
        \cup {"operation_outcome_uncertain", "operation_outcome_reconciled",
              "foreign_active_faults", "fault_inventory_qualified",
              "chaos_inventory_clear", "fault_absent"}

Mark(b) == IF b THEN "yes" ELSE "no"
Truthy(e, S) == \E k \in S : e[k] = "yes"
Falsey(e, S) == \E k \in S : e[k] = "no"
-----------------------------------------------------------------------------
(***************************************************************************)
(* classify_recovery: is the recovery known to be good, and may the system *)
(* under test be reinstalled.                                              *)
(***************************************************************************)
RollbackFailed(e) == Truthy(e, Attempted) /\ Falsey(e, Outcomes)

RecoveryState(e) ==
    CASE Truthy(e, Signals) \/ RollbackFailed(e) -> "UNVERIFIED"
      [] OTHER -> IF Truthy(e, Restored \cup {"rollback_verified"} \cup Attempted)
                  THEN "VERIFIED" ELSE "NOT_REQUIRED"

\* mutant: only the written signals count
UnverifiedBySignal(e) == Truthy(e, Signals)

Unverified(e) == RecoveryState(e) = "UNVERIFIED"
-----------------------------------------------------------------------------
(***************************************************************************)
(* classify_reset_policy: the least tier that prepares the next trial.     *)
(***************************************************************************)
OutcomeOpen(e) == /\ e["operation_outcome_uncertain"] = "yes"
                  /\ e["operation_outcome_reconciled"] # "yes"
UnknownOrFailed(e) == RollbackFailed(e) \/ OutcomeOpen(e)
ForeignOrUnobserved(e) == \/ e["foreign_active_faults"] = "yes"
                          \/ e["fault_inventory_qualified"] = "no"

InferTier(e) ==
    CASE UnknownOrFailed(e) \/ ForeignOrUnobserved(e) -> "T3"
      [] OTHER -> IF Truthy(e, Dirtied) THEN "T2"
                  ELSE IF Truthy(e, Restricted) THEN "T1" ELSE "T0"

\* an operator who names a tier has decided; explicit is that tier or "none"
Tier(e, explicit) == IF explicit = "none" THEN InferTier(e) ELSE explicit
ReinstallAuthorized(e, explicit) == explicit # "none" \/ ~Unverified(e)

\* reset_with_policy: verify the environment as it is, reinstall, or stop
Treatment(e, explicit) ==
    CASE Tier(e, explicit) # "T3" -> "verify"
      [] OTHER -> IF ReinstallAuthorized(e, explicit) THEN "reinstall" ELSE "withhold"
=============================================================================
