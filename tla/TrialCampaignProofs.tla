------------------------ MODULE TrialCampaignProofs ------------------------
(***************************************************************************)
(* Proofs about a campaign: for any requests, any number of failed calls   *)
(* and of monitor threads left behind, what a trial hands to the next one  *)
(* is clean, what the finalizer and the rollback report is so, the Agent   *)
(* is credited only with what it did, and the system under test is taken   *)
(* down only after a recovery that was judged good.                        *)
(*                                                                         *)
(* The invariant IInv says, for each place of the campaign's own thread,   *)
(* how the records of the trial (the fault, the disturbance, the recovery, *)
(* the reset) agree there, whatever the Agent, the monitor, the observer   *)
(* and the timers did in between.  Each step is proved to keep it in two   *)
(* lemmas, one for the types and one for the rest.                         *)
(***************************************************************************)
EXTENDS TrialCampaign, TLAPS

USE BoundsAssumption

\* Places of the campaign's thread: while the trial is opened, once the monitor
\* was joined, once the finalizer has judged, and while the reset is under way.
Opening == {"prepare", "provision", "session"}
AfterJoin == Places \ {"prepare", "provision", "session", "finish", "join"}
Judged == {"caploss", "rollback", "evaluate", "restore", "reset", "preflight", "uninstall",
           "deploy", "conclude"}
Tidying == {"reset", "preflight", "uninstall", "deploy", "conclude", "next", "ended"}

\* Who removes a fault while the session is on.
Removers == {"agent", "timer", "monitor"}

(***************************************************************************)
(* The inductive invariant: what holds in which place of the thread,       *)
(***************************************************************************)
Phases ==
    /\ camp.status = "RUNNING" <=> camp.pc # "ended"
    /\ sess.on => camp.pc = "session"
    /\ camp.pc \in {"abandon", "undo"} => Rescuing
    /\ camp.pc \in Judged /\ ~Rescuing => recovery.made
    /\ camp.pc = "caploss" => camp.kind = "D8"
    /\ camp.pc \in Opening =>
          /\ ~fin.absent /\ ~fin.destroyed
          /\ ~recovery.made /\ recovery.by = "none"
    /\ camp.pc \notin Tidying => tidy.restore = "none" /\ tidy.reset = "none"
    /\ tidy.reset = "yes" => camp.pc \in {"conclude", "next", "ended"}

\* what the record of the disturbance says of the policy and of the timer,
Policies ==
    /\ camp.kind \in {"C0", "D2", "D6"} => dist.policy # "disturbed"
    /\ dist.timer # "off" => camp.kind = "D5"
    /\ dist.timer \in {"set", "restoring"} => dist.rec = "open"
    /\ dist.attempt \in {"WAITING_TRIGGER", "APPLYING"} => dist.rec = "none"
    /\ dist.attempt = "APPLYING" => camp.kind \notin {"C0", "D8"}
    /\ camp.kind = "D8" /\ camp.pc \in Opening => dist.attempt = "WAITING_TRIGGER"
    /\ dist.rec = "rolled" => dist.policy # "disturbed"
    /\ dist.attempt = "ROLLBACK_FAILED" => dist.rec # "none"
    /\ RolledBackIsTrue

\* what the reports of the finalizer say of the fault,
Faults ==
    /\ env.origin = "own" => ~env.ever
    /\ fin.absent \/ fin.destroyed => ~OwnedLive
    /\ recovery.made /\ recovery.clear => ~Live
    /\ AbsenceIsReal
    /\ recovery.made /\ recovery.absent /\ Live => recovery.foreign
    /\ camp.pc \in {"prepare", "provision"} => ~OwnedLive /\ ~env.ever

\* who removed the fault, and which thread may have been at it,
Credits ==
    /\ sess.on /\ env.ever /\ ~Live => env.remover \in Removers
    /\ sess.accepted \/ sess.event = "accepted" =>
          env.ever /\ ~Live /\ env.remover \in Removers
    /\ env.ever /\ ~Live /\ env.remover = "monitor" => mon.fallback \/ mon.pc = "record"
    /\ ~sess.seen => mon.pc = "off"
    /\ camp.pc \in AfterJoin => mon.pc \in {"off", "done"} \/ (mon.pc \in MonBusy
          /\ late < slow)
    /\ late <= slow
    /\ recovery.by = "AGENT_TOOL" => sess.accepted
    /\ AgentCreditIsEarned

\* no disturbance is still applied but the replacement of the target (D2),
OnlyReplaced == dist.rec = "open" => camp.kind = "D2"

\* the gate lets a fault of Chaos Mesh pass, and a finalizer has told of it,
MeshReported == Live => env.exec = "mesh" /\ (recovery.made => recovery.foreign)

\* and what the reset leaves.
Resets ==
    /\ tidy.restore = "yes" => dist.policy = "none"
    /\ tidy.reset = "yes" => OnlyReplaced /\ MeshReported
    /\ camp.pc \in {"preflight", "uninstall", "deploy"} =>
          OnlyReplaced /\ (recovery.made => recovery.absent)
    /\ camp.pc \in {"uninstall", "deploy"} => tidy.preflight
    /\ env.sut = "down" => camp.pc \in {"deploy", "conclude", "ended"} /\ tidy.reset # "yes"
    /\ camp.pc = "gates" => Settled /\ ~Live
    /\ LeftClean

Core == Phases /\ Policies /\ Faults /\ Credits /\ Resets
IInv == TypeOK /\ Core

\* The steps of the campaign's thread, by the part of the trial they belong to.
SessionPhase ==
    \/ Gates \/ TrialBegin \/ CampaignOver \/ SessionRaises
    \/ \E report \in {"completed", "failed", "cancelled"} : SessionEnds(report)
    \/ \E ok \in BOOLEAN : Prepare(ok) \/ Provision(ok)
    \/ \E ok \in BOOLEAN, outcome \in {"known", "unknown"} : Apply(ok, outcome)
FinalPhase ==
    \/ FinishMonitor \/ JoinMonitor \/ Score \/ AwaitRestoration \/ FinRaises
    \/ \E ok \in BOOLEAN : Fallback(ok) \/ FinPre(ok) \/ FinWait(ok)
                            \/ FinDestroy(ok) \/ FinPost(ok)
UndoPhase ==
    \/ \E ok \in BOOLEAN :
          CapabilityLossEnds(ok) \/ Rollback(ok) \/ Undo(ok)
    \/ \E ok \in BOOLEAN, valid \in BOOLEAN : Evaluate(ok, valid)
    \/ \E ok \in BOOLEAN, restored \in BOOLEAN : Abandon(ok, restored)
ResetPhase ==
    \/ \E ok \in BOOLEAN :
          Restore(ok) \/ Preflight(ok) \/ Uninstall(ok) \/ Conclude(ok)
    \/ \E ok \in BOOLEAN, b \in BOOLEAN : Reset(ok, b) \/ Deploy(ok, b)

(***************************************************************************)
(* What the helpers of the actions do to their record, field by field.     *)
(***************************************************************************)
SameTrial == /\ camp'.status = camp.status /\ camp'.kind = camp.kind
             /\ camp'.trial = camp.trial /\ camp'.outer = camp.outer
Moved(pc) == camp' \in Camps /\ camp'.pc = pc /\ camp'.mode = camp.mode /\ SameTrial
Raised == camp' \in Camps /\ camp'.pc = "finish" /\ camp'.mode = "rescue" /\ SameTrial
EndedAs(status) == /\ camp' \in Camps /\ camp'.pc = "ended" /\ camp'.status = status
                   /\ camp'.mode = camp.mode /\ camp'.kind = camp.kind
                   /\ camp'.trial = camp.trial

\* the fault is gone, and the first to remove it is known
Removed(who) ==
    /\ env' \in Environments
    /\ env'.fault = "none" /\ env'.origin = env.origin /\ env'.exec = env.exec
    /\ env'.ever = env.ever /\ env'.noted = env.noted /\ env'.sut = env.sut
    /\ Live => env'.remover = who
    /\ ~Live => env'.remover = env.remover

\* An exception inside the trial leads to the emergency cleanup.
LEMMA RaiseEffect ==
  ASSUME TypeOK, Raise
  PROVE  Raised
  BY DEF TypeOK, Raise, Raised, SameTrial, Camps, Places

\* A move of the thread changes its place only.
LEMMA GotoEffect ==
  ASSUME TypeOK, NEW pc \in Places, Goto(pc)
  PROVE  Moved(pc)
  BY DEF TypeOK, Goto, Moved, SameTrial, Camps, Places

\* The end of a campaign sets its status.
LEMMA FinishEffect ==
  ASSUME TypeOK, NEW status \in Ended, Finish(status)
  PROVE  EndedAs(status) /\ camp'.outer = camp.outer
  BY DEF TypeOK, Finish, EndedAs, Camps, Places, Ended

\* An exception caught by run's outer handler ends the campaign FAILED.
LEMMA OuterEffect ==
  ASSUME TypeOK, OuterFail
  PROVE  EndedAs("FAILED") /\ camp'.outer
  BY DEF TypeOK, OuterFail, EndedAs, Camps, Places, Ended

Someone == {"agent", "timer", "self", "monitor", "observer", "finalizer"}

\* A removal leaves no fault, and remembers only the first remover.
LEMMA RemoveEffect ==
  ASSUME TypeOK, NEW who \in Someone, Remove(who)
  PROVE  Removed(who)
  BY DEF TypeOK, Remove, Removed, Environments, Live, Someone

\* A prepared trial is provisioned next.
LEMMA PrepareEffect ==
  ASSUME TypeOK, Prepare(TRUE)
  PROVE  Moved("provision")
<1>1. camp' = [camp EXCEPT !.pc = "provision", !.runtime = TRUE]
  BY DEF Prepare
<1> QED BY <1>1 DEF TypeOK, Moved, SameTrial, Camps, Places

\* A provisioned trial goes on with its session.
LEMMA ProvisionEffect ==
  ASSUME TypeOK, Provision(TRUE)
  PROVE  Moved("session")
<1>1. camp' = [camp EXCEPT !.pc = "session", !.provisioned = TRUE]
  BY DEF Provision
<1> QED BY <1>1 DEF TypeOK, Moved, SameTrial, Camps, Places

\* what an evaluation, an application of the disturbance (done, or failed) and
\* a reset do, as far as the invariant can tell
EvaluatedAs == /\ At("evaluate") /\ (Moved("restore") \/ Raise)
               /\ UNCHANGED <<env, sess, threads, dist, cleaning, stop, slow>>

\* An evaluation goes on with the permissions, or raises.
LEMMA EvaluateEffect ==
  ASSUME TypeOK, NEW ok \in BOOLEAN, NEW valid \in BOOLEAN, Evaluate(ok, valid)
  PROVE  EvaluatedAs
<1> DEFINE v == (camp.valid /\ valid)
<1>1. v \in BOOLEAN
  OBVIOUS
<1>2. /\ ok = TRUE => camp' = [camp EXCEPT !.pc = "restore", !.valid = v]
      /\ ok # TRUE => Raise
  BY DEF Evaluate
<1>3. At("evaluate") /\ UNCHANGED <<env, sess, threads, dist, cleaning, stop, slow>>
  BY DEF Evaluate
<1> HIDE DEF v
<1>4. CASE ok = TRUE
  <2>1. camp' = [camp EXCEPT !.pc = "restore", !.valid = v]
    BY <1>2, <1>4
  <2>2. Moved("restore")
    BY <1>1, <2>1 DEF TypeOK, Moved, SameTrial, Camps, Places
  <2> QED BY <1>3, <2>2 DEF EvaluatedAs
<1>5. CASE ok # TRUE
  <2>1. Raise
    BY <1>2, <1>5
  <2> QED BY <1>3, <2>1 DEF EvaluatedAs
<1> QED BY <1>4, <1>5
Recs == {"none", "open", "rolled"}
Policy == {"none", "base", "disturbed"}
Timers == {"off", "set", "restoring", "done", "failed"}
AppliedAs ==
    /\ InSession /\ dist.attempt = "APPLYING"
    /\ UNCHANGED <<camp, env, sess, threads, cleaning, stop, slow>>
    /\ dist' \in Disturbances /\ dist'.attempt = "APPLIED"
    /\ camp.kind = "D6" => dist'.rec = "rolled" /\ dist'.policy = dist.policy
    /\ camp.kind # "D6" => dist'.rec = "open"
    /\ camp.kind = "D2" => dist'.policy = dist.policy
    /\ camp.kind = "D5" => dist'.timer = "set"
    /\ camp.kind # "D5" => dist'.timer = dist.timer
NotAppliedAs ==
    /\ InSession /\ dist.attempt = "APPLYING"
    /\ Raise /\ sess' = [sess EXCEPT !.on = FALSE]
    /\ UNCHANGED <<env, threads, cleaning, stop, slow>>
    /\ dist' \in Disturbances /\ dist'.attempt = "APPLICATION_FAILED"
    /\ dist'.rec = dist.rec /\ dist'.timer = dist.timer
    /\ camp.kind \notin {"D3", "D4"} => dist'.policy = dist.policy

\* An applied disturbance is on record, and D6 is taken back at once.
LEMMA AppliedEffect ==
  ASSUME TypeOK, NEW outcome \in {"known", "unknown"}, Apply(TRUE, outcome)
  PROVE  AppliedAs
<1> DEFINE r == IF camp.kind = "D6" THEN "rolled" ELSE "open"
           p == IF camp.kind \in {"D2", "D6"} THEN dist.policy ELSE "disturbed"
           t == IF camp.kind = "D5" THEN "set" ELSE dist.timer
<1>1. r \in Recs /\ p \in Policy /\ t \in Timers
  BY DEF TypeOK, Disturbances, Recs, Policy, Timers
<1>2. /\ dist' = [dist EXCEPT !.attempt = "APPLIED", !.outcome = outcome, !.rec = r,
                              !.policy = p, !.timer = t]
  BY DEF Apply
<1>0. /\ InSession /\ dist.attempt = "APPLYING"
      /\ UNCHANGED <<camp, env, sess, threads, cleaning, stop, slow>>
  BY DEF Apply
<1>3. /\ camp.kind = "D6" => r = "rolled" /\ p = dist.policy
      /\ camp.kind # "D6" => r = "open"
      /\ camp.kind = "D2" => p = dist.policy
      /\ camp.kind = "D5" => t = "set"
      /\ camp.kind # "D5" => t = dist.timer
  OBVIOUS
<1> HIDE DEF r, p, t
<1>4. /\ dist'.attempt = "APPLIED" /\ dist'.rec = r /\ dist'.policy = p /\ dist'.timer = t
  BY <1>2 DEF TypeOK, Disturbances
<1>5. dist' \in Disturbances
  <2>1. dist' = [attempt |-> "APPLIED", rec |-> r, outcome |-> outcome, policy |-> p,
                 timer |-> t]
    BY <1>2 DEF TypeOK, Disturbances
  <2> QED BY <1>1, <2>1 DEF Disturbances, Attempts, Recs, Policy, Timers
<1> QED BY <1>0, <1>3, <1>4, <1>5 DEF AppliedAs

\* A failed application may have disturbed the policy of D3 and D4.
LEMMA NotAppliedEffect ==
  ASSUME TypeOK, NEW outcome \in {"known", "unknown"}, Apply(FALSE, outcome)
  PROVE  NotAppliedAs
<1> DEFINE p == IF camp.kind \in {"D3", "D4"} THEN "disturbed" ELSE dist.policy
<1>1. p \in Policy
  BY DEF TypeOK, Disturbances, Policy
<1>2. /\ dist' = [dist EXCEPT !.attempt = "APPLICATION_FAILED", !.policy = p]
  BY DEF Apply
<1>0. /\ InSession /\ dist.attempt = "APPLYING"
      /\ Raise /\ sess' = [sess EXCEPT !.on = FALSE]
      /\ UNCHANGED <<env, threads, cleaning, stop, slow>>
  BY DEF Apply
<1>3. camp.kind \notin {"D3", "D4"} => p = dist.policy
  OBVIOUS
<1> HIDE DEF p
<1>4. /\ dist' \in Disturbances /\ dist'.attempt = "APPLICATION_FAILED"
      /\ dist'.rec = dist.rec /\ dist'.policy = p /\ dist'.timer = dist.timer
  BY <1>1, <1>2 DEF TypeOK, Disturbances, Attempts, Policy
<1> QED BY <1>0, <1>3, <1>4 DEF NotAppliedAs

\* The timer of D5 takes the policy back,
LEMMA TimerRestored ==
  ASSUME TypeOK, RestoreD5(TRUE)
  PROVE  /\ dist' \in Disturbances /\ dist'.attempt = "RESTORED" /\ dist'.rec = "rolled"
         /\ dist'.policy = "base" /\ dist'.timer = "done"
<1>1. dist' = [dist EXCEPT !.timer = "done", !.policy = "base", !.rec = "rolled",
                           !.attempt = "RESTORED"]
  BY DEF RestoreD5
<1>2. /\ dist'.attempt = "RESTORED" /\ dist'.rec = "rolled" /\ dist'.policy = "base"
      /\ dist'.timer = "done"
  BY <1>1 DEF TypeOK, Disturbances
<1>3. dist' \in Disturbances
  BY <1>1 DEF TypeOK, Disturbances, Attempts
<1> QED BY <1>2, <1>3

\* or fails and leaves it.
LEMMA TimerFailed ==
  ASSUME TypeOK, RestoreD5(FALSE)
  PROVE  /\ dist' \in Disturbances /\ dist'.attempt = "RESTORATION_FAILED"
         /\ dist'.rec = dist.rec
         /\ dist'.policy = dist.policy /\ dist'.timer = "failed"
<1>1. dist' = [dist EXCEPT !.timer = "failed", !.attempt = "RESTORATION_FAILED"]
  BY DEF RestoreD5
<1> QED BY <1>1 DEF TypeOK, Disturbances, Attempts

\* A rollback says ROLLED_BACK only of what it revoked or found revoked.
LEMMA RollbackDone ==
  ASSUME TypeOK, Rollback(TRUE)
  PROVE  /\ dist' \in Disturbances /\ dist'.timer = dist.timer
         /\ dist.rec # "none" /\ camp.kind # "D8" /\ Revoked =>
               dist'.rec = "rolled" /\ dist'.policy = "base"
         /\ dist.rec = "none" \/ camp.kind = "D8" \/ ~Revoked =>
               dist'.rec = dist.rec /\ dist'.policy = dist.policy
         /\ dist.rec = "none" => dist'.attempt \in {"NOT_TRIGGERED", dist.attempt}
         /\ dist.rec # "none" /\ camp.kind = "D8" => dist' = dist
         /\ dist.rec # "none" /\ camp.kind # "D8" =>
               \/ dist'.attempt = "ROLLED_BACK" /\ (Revoked \/ dist.rec = "rolled")
               \/ dist'.attempt = "ROLLBACK_FAILED"
<1>1. CASE dist.rec = "none"
  <2> DEFINE a == IF camp.kind = "C0" THEN dist.attempt ELSE "NOT_TRIGGERED"
  <2>1. a \in Attempts /\ a \in {"NOT_TRIGGERED", dist.attempt}
    BY DEF TypeOK, Disturbances, Attempts
  <2>2. dist' = [dist EXCEPT !.attempt = a]
    BY <1>1 DEF Rollback
  <2> HIDE DEF a
  <2> QED BY <1>1, <2>1, <2>2 DEF TypeOK, Disturbances
<1>2. CASE dist.rec # "none" /\ camp.kind = "D8"
  <2>1. dist' = dist
    BY <1>2 DEF Rollback
  <2> QED BY <1>2, <2>1 DEF TypeOK, Revoked
<1>3. CASE dist.rec # "none" /\ camp.kind # "D8"
  <2> DEFINE a == IF Revoked \/ dist.rec = "rolled" THEN "ROLLED_BACK" ELSE "ROLLBACK_FAILED"
             r == IF Revoked THEN "rolled" ELSE dist.rec
             p == IF Revoked THEN "base" ELSE dist.policy
  <2>1. a \in Attempts /\ r \in Recs /\ p \in Policy
    BY DEF TypeOK, Disturbances, Attempts, Recs, Policy
  <2>2. dist' = [dist EXCEPT !.attempt = a, !.rec = r, !.policy = p]
    BY <1>3 DEF Rollback
  <2>3. /\ Revoked => r = "rolled" /\ p = "base"
        /\ ~Revoked => r = dist.rec /\ p = dist.policy
        /\ \/ a = "ROLLED_BACK" /\ (Revoked \/ dist.rec = "rolled")
           \/ a = "ROLLBACK_FAILED"
    OBVIOUS
  <2> HIDE DEF a, r, p
  <2>4. dist'.attempt = a /\ dist'.rec = r /\ dist'.policy = p /\ dist'.timer = dist.timer
    BY <2>2 DEF TypeOK, Disturbances
  <2>5. dist' \in Disturbances
    BY <2>1, <2>2 DEF TypeOK, Disturbances, Recs, Policy
  <2> QED BY <1>3, <2>3, <2>4, <2>5
<1> QED BY <1>1, <1>2, <1>3

\* A rollback that raises has left the policy as it was.
LEMMA RollbackRaises ==
  ASSUME TypeOK, Rollback(FALSE)
  PROVE  /\ Raise /\ Revoked /\ dist.rec = "open"
         /\ dist' \in Disturbances /\ dist'.timer = dist.timer /\ dist'.rec = dist.rec
         /\ dist'.policy = dist.policy /\ dist'.attempt = "ROLLBACK_FAILED"
<1>1. Raise /\ Revoked /\ dist.rec = "open"
  BY DEF Rollback
<1>2. dist' = [dist EXCEPT !.attempt = "ROLLBACK_FAILED", !.rec = dist.rec,
                           !.policy = dist.policy]
  BY <1>1 DEF Rollback, Revoked
<1>3. dist'.attempt = "ROLLBACK_FAILED" /\ dist'.rec = dist.rec
     /\ dist'.policy = dist.policy /\ dist'.timer = dist.timer
  BY <1>2 DEF TypeOK, Disturbances
<1>4. dist' \in Disturbances
  BY <1>2 DEF TypeOK, Disturbances, Attempts
<1> QED BY <1>1, <1>3, <1>4

\* The undo of an abandoned trial only ever lifts the policy,
LEMMA UndoneEffect ==
  ASSUME TypeOK, Undo(TRUE)
  PROVE  \/ /\ dist' \in Disturbances /\ dist'.attempt = dist.attempt /\ dist'.rec = dist.rec
            /\ dist'.timer = dist.timer /\ dist'.policy \in {dist.policy, "base"}
         \/ camp.kind = "D5" /\ RestoreD5(TRUE)
<1>1. CASE dist.rec = "open" /\ Revoked
  <2>1. dist' = [dist EXCEPT !.policy = "base"]
    BY <1>1 DEF Undo, Revoked
  <2> QED BY <2>1 DEF TypeOK, Disturbances
<1>2. CASE dist.rec = "open" /\ camp.kind = "D5"
  <2>1. dist' = dist \/ RestoreD5(TRUE)
    BY <1>2 DEF Undo, Revoked
  <2> QED BY <1>2, <2>1 DEF TypeOK, Disturbances
<1>3. CASE ~(dist.rec = "open" /\ Revoked) /\ ~(dist.rec = "open" /\ camp.kind = "D5")
  <2>1. dist' = dist
    BY <1>3 DEF Undo
  <2> QED BY <2>1 DEF TypeOK, Disturbances
<1> QED BY <1>1, <1>2, <1>3

\* and leaves it when it fails.
LEMMA NotUndoneEffect ==
  ASSUME TypeOK, Undo(FALSE)
  PROVE  \/ /\ dist' \in Disturbances /\ dist'.attempt = dist.attempt /\ dist'.rec = dist.rec
            /\ dist'.timer = dist.timer /\ dist'.policy = dist.policy
         \/ camp.kind = "D5" /\ RestoreD5(FALSE)
<1>1. CASE dist.rec = "open" /\ Revoked
  <2>1. dist' = [dist EXCEPT !.policy = dist.policy]
    BY <1>1 DEF Undo, Revoked
  <2> QED BY <2>1 DEF TypeOK, Disturbances
<1>2. CASE dist.rec = "open" /\ camp.kind = "D5"
  <2>1. dist' = dist \/ RestoreD5(FALSE)
    BY <1>2 DEF Undo, Revoked
  <2> QED BY <1>2, <2>1 DEF TypeOK, Disturbances
<1>3. CASE ~(dist.rec = "open" /\ Revoked) /\ ~(dist.rec = "open" /\ camp.kind = "D5")
  <2>1. FALSE
    BY <1>3 DEF Undo
  <2> QED BY <2>1
<1> QED BY <1>1, <1>2, <1>3

\* A settled reset records its verdict.
LEMMA SettleEffect ==
  ASSUME TypeOK, NEW pc, NEW verdict \in Marks,
         NEW how \in {"verify", "reinstall", "withhold"}, Settle(pc, verdict, how)
  PROVE  /\ Goto(pc) /\ tidy' \in Tidyings /\ tidy'.reset = verdict
         /\ tidy'.restore = tidy.restore /\ tidy'.preflight = tidy.preflight
  BY DEF TypeOK, Settle, Tidyings, Marks

\* A failed rollback withholds the reset (rule O04).
LEMMA WithheldIfFailed ==
  ASSUME NEW e, RollbackFailed(e)
  PROVE  Treatment(e, "none") = "withhold"
  BY DEF Treatment, Tier, InferTier, UnknownOrFailed, ReinstallAuthorized, Unverified,
     RecoveryState

\* A disturbance not taken back is such a failure, unless it was D2,
LEMMA OpenIsWithheld ==
  ASSUME dist.rec = "open", camp.kind # "D2"
  PROVE  Treatment(ResetMutationEvidence, "none") = "withhold"
<1>1. ResetMutationEvidence["rollback_attempted"] = "yes"
  BY DEF ResetMutationEvidence, Keys, Attempted, Disturbed, Signals, Outcomes, Dirtied,
     Restricted
<1>2. ResetMutationEvidence["rollback_verified"] = "no"
  BY DEF ResetMutationEvidence, Keys, Outcomes, Disturbed, Mark
<1>3. RollbackFailed(ResetMutationEvidence)
  BY <1>1, <1>2 DEF RollbackFailed, Truthy, Falsey, Attempted, Outcomes
<1> QED BY <1>3, WithheldIfFailed

\* and so is a fault the finalizer still saw.
LEMMA PresentIsWithheld ==
  ASSUME recovery.made, ~recovery.absent
  PROVE  Treatment(ResetMutationEvidence, "none") = "withhold"
<1>1. ResetMutationEvidence["cleanup_attempted"] = "yes"
  BY DEF ResetMutationEvidence, Keys, Attempted
<1>2. ResetMutationEvidence["cleanup_verified"] = "no"
  BY DEF ResetMutationEvidence, Keys, Outcomes, Mark
<1>3. RollbackFailed(ResetMutationEvidence)
  BY <1>1, <1>2 DEF RollbackFailed, Truthy, Falsey, Attempted, Outcomes
<1> QED BY <1>3, WithheldIfFailed

\* Evidence is safe only over a recovery whose inventory was clear.
LEMMA SafeIsClear ==
  ASSUME recovery.made, EvidenceSafe
  PROVE  recovery.clear
<1>1. ResetMutationEvidence["chaos_inventory_clear"] = Mark(recovery.clear)
  BY DEF ResetMutationEvidence, Keys
<1> QED BY <1>1 DEF EvidenceSafe, Mark

ResetAs ==
    /\ At("reset") /\ UNCHANGED <<env, sess, threads, dist, fin, recovery, stop, slow>>
    /\ tidy' \in Tidyings
    /\ tidy'.restore = tidy.restore /\ tidy'.preflight = tidy.preflight
    /\ \/ Goto("conclude") /\ tidy'.reset = "no"
       \/ /\ Goto("preflight") /\ tidy'.reset = "none" /\ OnlyReplaced
          /\ recovery.made => recovery.absent
       \/ /\ Goto("conclude") /\ tidy'.reset = "yes" /\ OnlyReplaced
          /\ env.sut = "up" /\ ~(Live /\ env.exec = "blade")
          /\ recovery.made => recovery.clear

\* A reset is withheld, sent to the reinstallation, or qualified by the gate.
LEMMA ResetEffect ==
  ASSUME TypeOK, NEW ok \in BOOLEAN, NEW healthy \in BOOLEAN, Reset(ok, healthy)
  PROVE  ResetAs
<1> DEFINE how == Treatment(ResetMutationEvidence, "none")
           good == ok /\ healthy /\ GateQualifies /\ EvidenceSafe
<1>1. how \in {"verify", "reinstall", "withhold"}
  BY DEF Treatment
<1>2. /\ how # "withhold" => OnlyReplaced /\ (recovery.made => recovery.absent)
      /\ good => env.sut = "up" /\ ~(Live /\ env.exec = "blade") /\ EvidenceSafe
  BY OpenIsWithheld, PresentIsWithheld DEF OnlyReplaced, GateQualifies
<1>3. /\ how = "withhold" => Settle("conclude", "no", "withhold")
      /\ how = "reinstall" => Settle("preflight", "none", "reinstall")
      /\ how = "verify" => Settle("conclude", Mark(good), "verify")
  BY DEF Reset
<1>4. At("reset") /\ UNCHANGED <<env, sess, threads, dist, fin, recovery, stop, slow>>
  BY DEF Reset
<1> HIDE DEF how
<1>5. CASE how = "withhold"
  <2>1. Settle("conclude", "no", "withhold")
    BY <1>3, <1>5
  <2>2. /\ Goto("conclude") /\ tidy' \in Tidyings /\ tidy'.reset = "no"
        /\ tidy'.restore = tidy.restore /\ tidy'.preflight = tidy.preflight
    BY <2>1, SettleEffect DEF Marks
  <2> QED BY <1>4, <2>2 DEF ResetAs
<1>6. CASE how = "reinstall"
  <2>1. Settle("preflight", "none", "reinstall")
    BY <1>3, <1>6
  <2>2. /\ Goto("preflight") /\ tidy' \in Tidyings /\ tidy'.reset = "none"
        /\ tidy'.restore = tidy.restore /\ tidy'.preflight = tidy.preflight
    BY <2>1, SettleEffect DEF Marks
  <2>3. OnlyReplaced /\ (recovery.made => recovery.absent)
    BY <1>2, <1>6
  <2> QED BY <1>4, <2>2, <2>3 DEF ResetAs
<1>7. CASE how = "verify" /\ good
  <2>1. Settle("conclude", "yes", "verify")
    BY <1>3, <1>7 DEF Mark
  <2>2. /\ Goto("conclude") /\ tidy' \in Tidyings /\ tidy'.reset = "yes"
        /\ tidy'.restore = tidy.restore /\ tidy'.preflight = tidy.preflight
    BY <2>1, SettleEffect DEF Marks
  <2>3. OnlyReplaced /\ env.sut = "up" /\ ~(Live /\ env.exec = "blade") /\ EvidenceSafe
    BY <1>2, <1>7
  <2>4. recovery.made => recovery.clear
    BY <2>3, SafeIsClear
  <2> QED BY <1>4, <2>2, <2>3, <2>4 DEF ResetAs
<1>8. CASE how = "verify" /\ ~good
  <2>1. Settle("conclude", "no", "verify")
    BY <1>3, <1>8 DEF Mark
  <2>2. /\ Goto("conclude") /\ tidy' \in Tidyings /\ tidy'.reset = "no"
        /\ tidy'.restore = tidy.restore /\ tidy'.preflight = tidy.preflight
    BY <2>1, SettleEffect DEF Marks
  <2> QED BY <1>4, <2>2 DEF ResetAs
<1> QED BY <1>1, <1>5, <1>6, <1>7, <1>8

(***************************************************************************)
(* The invariant's steps, one lemma for each thread and part of the trial. *)
(***************************************************************************)
\* The Agent, the operator and the fault's own timer keep the invariant,
LEMMA AgentCore ==
  ASSUME IInv, Stop \/ AgentStep \/ FaultExpires
  PROVE  Core'
<1> USE BoundsAssumption
  DEF IInv, Core, Phases, Policies, RolledBackIsTrue, Faults, AbsenceIsReal, Credits,
          AgentCreditIsEarned, Resets, LeftClean, OnlyReplaced, Settled, MeshReported, Opening, AfterJoin,
          Judged, Tidying, Removers, TypeOK, Camps, Environments, Sessions, Monitors,
          Disturbances, Readings, Recoveries, Tidyings, Places, Attempts, Ended, AllKinds,
          Marks, MonBusy, At, Goto, InSession, SessionFree, Try, Live, OwnedLive,
          ForeignLive, Rescuing, threads, cleaning, Raised, Moved, SameTrial, EndedAs,
          Removed, Someone
<1>1. ASSUME Stop PROVE Core'
  BY <1>1, SMT DEF Stop
<1>2. ASSUME PlanApproved PROVE Core'
  BY <1>2, SMT DEF PlanApproved
<1>3. ASSUME AgentOwnCreate("blade") \/ AgentOwnCreate("mesh") PROVE Core'
  <2>1. CASE AgentOwnCreate("blade")
    BY <2>1, SMT DEF AgentOwnCreate
  <2>2. CASE AgentOwnCreate("mesh")
    BY <2>2, SMT DEF AgentOwnCreate
  <2> QED BY <1>3, <2>1, <2>2
<1>4. ASSUME FaultSeen PROVE Core'
  BY <1>4, SMT DEF FaultSeen
<1>5. ASSUME RecoverySeen PROVE Core'
  BY <1>5, SMT DEF RecoverySeen
<1>6. ASSUME LoseCapability PROVE Core'
  BY <1>6, SMT DEF LoseCapability
<1>7. ASSUME Trigger PROVE Core'
  BY <1>7, SMT DEF Trigger, Triggered
<1>8. ASSUME AgentCreate("blade", TRUE) PROVE Core'
  BY <1>8, SMT DEF AgentCreate
<1>9. ASSUME AgentCreate("mesh", TRUE) PROVE Core'
  BY <1>9, SMT DEF AgentCreate
<1>10. ASSUME AgentCreate("blade", FALSE) \/ AgentCreate("mesh", FALSE) PROVE Core'
  BY <1>10, SMT DEF AgentCreate
<1>11. ASSUME AgentDestroy(TRUE) PROVE Core'
  <2>1. /\ InSession /\ env.ever /\ ~sess.asked /\ Remove("agent")
        /\ sess' = [sess EXCEPT !.event = "accepted"]
        /\ UNCHANGED <<camp, threads, dist, cleaning, stop, slow>>
    BY <1>11 DEF AgentDestroy
  <2>2. Removed("agent")
    BY <2>1, RemoveEffect
  <2> QED BY <2>1, <2>2, SMT
<1>12. ASSUME AgentDestroy(FALSE) PROVE Core'
  BY <1>12, SMT DEF AgentDestroy
<1>13. ASSUME FaultExpires PROVE Core'
  BY RemoveEffect, <1>13, SMT DEF FaultExpires
<1> HIDE DEF IInv, Core, At, InSession
<1> QED
  BY <1>1, <1>2, <1>3, <1>4, <1>5, <1>6, <1>7, <1>8, <1>9, <1>10, <1>11, <1>12, <1>13
     DEF AgentStep

\* so does the monitor's thread, at whatever place the campaign is,
LEMMA MonitorCore ==
  ASSUME IInv, MonStep
  PROVE  Core'
<1> USE BoundsAssumption
  DEF IInv, Core, Phases, Policies, RolledBackIsTrue, Faults, AbsenceIsReal, Credits,
          AgentCreditIsEarned, Resets, LeftClean, OnlyReplaced, Settled, MeshReported, Opening, AfterJoin,
          Judged, Tidying, Removers, TypeOK, Camps, Environments, Sessions, Monitors,
          Disturbances, Readings, Recoveries, Tidyings, Places, Attempts, Ended, AllKinds,
          Marks, MonBusy, At, Goto, InSession, SessionFree, Try, Live, OwnedLive,
          ForeignLive, Rescuing, threads, cleaning, Raised, Moved, SameTrial, EndedAs,
          Removed, Someone
<1>0. UNCHANGED <<camp, sess, seer, dist, cleaning, stop, slow>>
  BY DEF MonStep
<1>1. ASSUME MonRunning PROVE Core'
  BY <1>0, <1>1, SMT DEF MonRunning, Monitor
<1>2. ASSUME MonSettled PROVE Core'
  BY <1>0, <1>2, SMT DEF MonSettled, Monitor
<1>3. ASSUME MonLeaves PROVE Core'
  BY <1>0, <1>3, SMT DEF MonLeaves, Monitor, Watching
<1>4. ASSUME MonOvertime PROVE Core'
  BY <1>0, <1>4, SMT DEF MonOvertime, Monitor
<1>5. ASSUME MonRecord PROVE Core'
  BY <1>0, <1>5, SMT DEF MonRecord
<1>6. ASSUME MonNotify PROVE Core'
  BY <1>0, <1>6, SMT DEF MonNotify, Monitor
<1>7. ASSUME LateNotify PROVE Core'
  BY <1>0, <1>7, SMT DEF LateNotify
<1>8. ASSUME MonEnded(TRUE) PROVE Core'
  BY <1>0, RemoveEffect, <1>8, SMT DEF MonEnded
<1>9. ASSUME MonEnded(FALSE) PROVE Core'
  BY <1>0, <1>9, SMT DEF MonEnded
<1>10. ASSUME MonDestroy(TRUE) PROVE Core'
  BY <1>0, RemoveEffect, <1>10, SMT DEF MonDestroy, Monitor
<1>11. ASSUME MonDestroy(FALSE) PROVE Core'
  BY <1>0, <1>11, SMT DEF MonDestroy, Monitor
<1> HIDE DEF IInv, Core, At, InSession
<1> QED
  BY <1>1, <1>2, <1>3, <1>4, <1>5, <1>6, <1>7, <1>8, <1>9, <1>10, <1>11 DEF MonStep

\* so do the observer and the timer of D5,
LEMMA TimerCore ==
  ASSUME IInv, SeerStep \/ TimerStep
  PROVE  Core'
<1> USE BoundsAssumption
  DEF IInv, Core, Phases, Policies, RolledBackIsTrue, Faults, AbsenceIsReal, Credits,
          AgentCreditIsEarned, Resets, LeftClean, OnlyReplaced, Settled, MeshReported, Opening, AfterJoin,
          Judged, Tidying, Removers, TypeOK, Camps, Environments, Sessions, Monitors,
          Disturbances, Readings, Recoveries, Tidyings, Places, Attempts, Ended, AllKinds,
          Marks, MonBusy, At, Goto, InSession, SessionFree, Try, Live, OwnedLive,
          ForeignLive, Rescuing, threads, cleaning, Raised, Moved, SameTrial, EndedAs,
          Removed, Someone
<1>1. ASSUME SeerStep PROVE Core'
  BY RemoveEffect, <1>1, SMT DEF SeerStep
<1>2. ASSUME TimerFires PROVE Core'
  BY <1>2, SMT DEF TimerFires
<1>3. ASSUME TimerRestores(TRUE) PROVE Core'
  <2>1. /\ dist.timer = "restoring" /\ dist.policy # "none" /\ RestoreD5(TRUE)
        /\ UNCHANGED <<camp, env, sess, threads, cleaning, stop, slow>>
    BY <1>3 DEF TimerRestores
  <2>2. /\ dist' \in Disturbances /\ dist'.attempt = "RESTORED" /\ dist'.rec = "rolled"
        /\ dist'.policy = "base" /\ dist'.timer = "done"
    BY <2>1, TimerRestored
  <2> QED BY <2>1, <2>2, SMT
<1>4. ASSUME TimerRestores(FALSE) PROVE Core'
  <2>1. /\ dist.timer = "restoring" /\ RestoreD5(FALSE)
        /\ UNCHANGED <<camp, env, sess, threads, cleaning, stop, slow>>
    BY <1>4 DEF TimerRestores
  <2>2. /\ dist' \in Disturbances /\ dist'.attempt = "RESTORATION_FAILED"
        /\ dist'.rec = dist.rec /\ dist'.policy = dist.policy /\ dist'.timer = "failed"
    BY <2>1, TimerFailed
  <2> QED BY <2>1, <2>2, SMT
<1> HIDE DEF IInv, Core, At, InSession
<1> QED
  BY <1>1, <1>2, <1>3, <1>4 DEF TimerStep

\* and the campaign's thread up to the session's end,
LEMMA SessionCore ==
  ASSUME IInv, SessionPhase
  PROVE  Core'
<1>a. ASSUME NEW outcome \in {"known", "unknown"}, Apply(TRUE, outcome) PROVE AppliedAs
  BY <1>a, AppliedEffect DEF IInv
<1>b. ASSUME NEW outcome \in {"known", "unknown"}, Apply(FALSE, outcome) PROVE NotAppliedAs
  BY <1>b, NotAppliedEffect DEF IInv
<1> USE BoundsAssumption
  DEF IInv, Core, Phases, Policies, RolledBackIsTrue, Faults, AbsenceIsReal, Credits,
          AgentCreditIsEarned, Resets, LeftClean, OnlyReplaced, Settled, MeshReported, Opening, AfterJoin,
          Judged, Tidying, Removers, TypeOK, Camps, Environments, Sessions, Monitors,
          Disturbances, Readings, Recoveries, Tidyings, Places, Attempts, Ended, AllKinds,
          Marks, MonBusy, At, Goto, InSession, SessionFree, Try, Live, OwnedLive,
          ForeignLive, Rescuing, threads, cleaning, Raised, Moved, SameTrial, EndedAs,
          Removed, Someone
<1>1. ASSUME Gates PROVE Core'
  BY FinishEffect, OuterEffect, <1>1, SMT DEF Gates
<1>2. ASSUME TrialBegin PROVE Core'
  BY <1>2, SMT DEF TrialBegin, LeftOver, NoSession, NoDisturbance, NoFault, NoMonitor, NoSeer,
     NotFinalized,
             NoRecovery, NotTidied
<1>3. ASSUME CampaignOver PROVE Core'
  BY FinishEffect, <1>3, SMT DEF CampaignOver
<1>4. ASSUME Prepare(TRUE) PROVE Core'
  BY PrepareEffect, <1>4, SMT DEF Prepare
<1>5. ASSUME Prepare(FALSE) PROVE Core'
  BY RaiseEffect, <1>5, SMT DEF Prepare
<1>6. ASSUME Provision(TRUE) PROVE Core'
  BY ProvisionEffect, <1>6, SMT DEF Provision
<1>7. ASSUME Provision(FALSE) PROVE Core'
  BY RaiseEffect, <1>7, SMT DEF Provision
<1>8. ASSUME SessionEnds("completed") PROVE Core'
  BY <1>8, SMT DEF SessionEnds
<1>9. ASSUME SessionEnds("failed") PROVE Core'
  BY <1>9, SMT DEF SessionEnds
<1>10. ASSUME SessionEnds("cancelled") PROVE Core'
  BY <1>10, SMT DEF SessionEnds
<1>11. ASSUME SessionRaises PROVE Core'
  BY RaiseEffect, <1>11, SMT DEF SessionRaises
<1>12. ASSUME AppliedAs PROVE Core'
  BY <1>12, SMT DEF AppliedAs
<1>13. ASSUME NotAppliedAs PROVE Core'
  BY RaiseEffect, <1>13, SMT DEF NotAppliedAs
<1> HIDE DEF IInv, Core, At, InSession
<1> QED
  BY <1>a, <1>b, <1>1, <1>2, <1>3, <1>4, <1>5, <1>6, <1>7, <1>8, <1>9, <1>10, <1>11, <1>12,
     <1>13 DEF SessionPhase

\* through the monitor's end and the finalizer,
LEMMA FinalCore ==
  ASSUME IInv, FinalPhase
  PROVE  Core'
<1> USE BoundsAssumption
  DEF IInv, Core, Phases, Policies, RolledBackIsTrue, Faults, AbsenceIsReal, Credits,
          AgentCreditIsEarned, Resets, LeftClean, OnlyReplaced, Settled, MeshReported, Opening, AfterJoin,
          Judged, Tidying, Removers, TypeOK, Camps, Environments, Sessions, Monitors,
          Disturbances, Readings, Recoveries, Tidyings, Places, Attempts, Ended, AllKinds,
          Marks, MonBusy, At, Goto, InSession, SessionFree, Try, Live, OwnedLive,
          ForeignLive, Rescuing, threads, cleaning, Raised, Moved, SameTrial, EndedAs,
          Removed, Someone
<1>1. ASSUME FinishMonitor PROVE Core'
  BY <1>1, SMT DEF FinishMonitor
<1>2. ASSUME JoinMonitor PROVE Core'
  BY <1>2, SMT DEF JoinMonitor, NeedsFallback
<1>3. ASSUME Fallback(TRUE) PROVE Core'
  BY RemoveEffect, <1>3, SMT DEF Fallback
<1>4. ASSUME Fallback(FALSE) PROVE Core'
  BY <1>4, SMT DEF Fallback
<1>5. ASSUME Score PROVE Core'
  BY <1>5, SMT DEF Score
<1>6. ASSUME AwaitRestoration PROVE Core'
  BY RaiseEffect, <1>6, SMT DEF AwaitRestoration
<1>7. ASSUME FinPre(TRUE) PROVE Core'
  BY <1>7, SMT DEF FinPre, NotFinalized, EverSeen, AbsentSeen, Credited, Reported
<1>8. ASSUME FinPre(FALSE) PROVE Core'
  BY <1>8, SMT DEF FinPre, NotFinalized, Credited, Reported
<1>9. ASSUME FinWait(TRUE) \/ FinWait(FALSE) PROVE Core'
  BY <1>9, SMT DEF FinWait
<1>10. ASSUME FinDestroy(TRUE) PROVE Core'
  BY RemoveEffect, <1>10, SMT DEF FinDestroy, Credited
<1>11. ASSUME FinDestroy(FALSE) PROVE Core'
  BY <1>11, SMT DEF FinDestroy, Credited
<1>12. ASSUME FinPost(TRUE) \/ FinPost(FALSE) PROVE Core'
  BY <1>12, SMT DEF FinPost, FaultAbsent, CleanupExecutor, AfterFinal, Reported
<1>13. ASSUME FinRaises PROVE Core'
  BY RaiseEffect, <1>13, SMT DEF FinRaises
<1> HIDE DEF IInv, Core, At, InSession
<1> QED
  BY <1>1, <1>2, <1>3, <1>4, <1>5, <1>6, <1>7, <1>8, <1>9, <1>10, <1>11, <1>12, <1>13
     DEF FinalPhase

\* the rollback, the evaluation and the emergency cleanup,
LEMMA UndoCore ==
  ASSUME IInv, UndoPhase
  PROVE  Core'
<1>a. ASSUME NEW ok \in BOOLEAN, NEW valid \in BOOLEAN, Evaluate(ok, valid) PROVE EvaluatedAs
  BY <1>a, EvaluateEffect DEF IInv
<1> USE BoundsAssumption
  DEF IInv, Core, Phases, Policies, RolledBackIsTrue, Faults, AbsenceIsReal, Credits,
          AgentCreditIsEarned, Resets, LeftClean, OnlyReplaced, Settled, MeshReported, Opening, AfterJoin,
          Judged, Tidying, Removers, TypeOK, Camps, Environments, Sessions, Monitors,
          Disturbances, Readings, Recoveries, Tidyings, Places, Attempts, Ended, AllKinds,
          Marks, MonBusy, At, Goto, InSession, SessionFree, Try, Live, OwnedLive,
          ForeignLive, Rescuing, threads, cleaning, Raised, Moved, SameTrial, EndedAs,
          Removed, Someone
<1>1. ASSUME CapabilityLossEnds(TRUE) PROVE Core'
  BY <1>1, SMT DEF CapabilityLossEnds
<1>2. ASSUME CapabilityLossEnds(FALSE) PROVE Core'
  BY <1>2, SMT DEF CapabilityLossEnds
<1>3. ASSUME Rollback(TRUE) PROVE Core'
  <2>1. /\ dist' \in Disturbances /\ dist'.timer = dist.timer
        /\ dist.rec # "none" /\ camp.kind # "D8" /\ Revoked =>
              dist'.rec = "rolled" /\ dist'.policy = "base"
        /\ dist.rec = "none" \/ camp.kind = "D8" \/ ~Revoked =>
              dist'.rec = dist.rec /\ dist'.policy = dist.policy
        /\ dist.rec = "none" => dist'.attempt \in {"NOT_TRIGGERED", dist.attempt}
        /\ dist.rec # "none" /\ camp.kind = "D8" => dist' = dist
        /\ dist.rec # "none" /\ camp.kind # "D8" =>
              \/ dist'.attempt = "ROLLED_BACK" /\ (Revoked \/ dist.rec = "rolled")
              \/ dist'.attempt = "ROLLBACK_FAILED"
    BY <1>3, RollbackDone
  <2>2. /\ At("rollback") /\ Goto("evaluate")
        /\ UNCHANGED <<env, sess, threads, cleaning, stop, slow>>
    BY <1>3 DEF Rollback
  <2> QED BY <2>1, <2>2, SMT DEF Revoked
<1>4. ASSUME Rollback(FALSE) PROVE Core'
  <2>1. /\ Raise /\ Revoked /\ dist.rec = "open"
        /\ dist' \in Disturbances /\ dist'.timer = dist.timer /\ dist'.rec = dist.rec
        /\ dist'.policy = dist.policy /\ dist'.attempt = "ROLLBACK_FAILED"
    BY <1>4, RollbackRaises
  <2>2. /\ At("rollback") /\ UNCHANGED <<env, sess, threads, cleaning, stop, slow>>
    BY <1>4 DEF Rollback
  <2> QED BY <2>1, <2>2, RaiseEffect, SMT
<1>5. ASSUME EvaluatedAs PROVE Core'
  BY RaiseEffect, <1>5, SMT DEF EvaluatedAs
<1>6. ASSUME Abandon(TRUE, TRUE) \/ Abandon(TRUE, FALSE) PROVE Core'
  <2>1. CASE Abandon(TRUE, TRUE)
    BY <2>1, SMT DEF Abandon
  <2>2. CASE Abandon(TRUE, FALSE)
    BY <2>2, SMT DEF Abandon
  <2> QED BY <1>6, <2>1, <2>2
<1>7. ASSUME Abandon(FALSE, TRUE) \/ Abandon(FALSE, FALSE) PROVE Core'
  <2>1. CASE Abandon(FALSE, TRUE)
    BY OuterEffect, <2>1, SMT DEF Abandon
  <2>2. CASE Abandon(FALSE, FALSE)
    BY OuterEffect, <2>2, SMT DEF Abandon
  <2> QED BY <1>7, <2>1, <2>2
<1>8. ASSUME Undo(TRUE) PROVE Core'
  <2>1. At("undo") /\ Goto("restore") /\ UNCHANGED <<env, sess, threads, cleaning, stop, slow>>
    BY <1>8 DEF Undo
  <2>2. CASE /\ dist' \in Disturbances /\ dist'.attempt = dist.attempt
             /\ dist'.rec = dist.rec /\ dist'.timer = dist.timer
             /\ dist'.policy \in {dist.policy, "base"}
    BY <2>1, <2>2, SMT
  <2>3. CASE camp.kind = "D5" /\ RestoreD5(TRUE)
    <3>1. /\ dist' \in Disturbances /\ dist'.attempt = "RESTORED" /\ dist'.rec = "rolled"
          /\ dist'.policy = "base" /\ dist'.timer = "done"
      BY <2>3, TimerRestored
    <3>2. camp.kind = "D5"
      BY <2>3
    <3> QED BY <2>1, <3>1, <3>2, SMT
  <2> QED BY <1>8, <2>2, <2>3, UndoneEffect
<1>9. ASSUME Undo(FALSE) PROVE Core'
  <2>1. At("undo") /\ Goto("restore") /\ UNCHANGED <<env, sess, threads, cleaning, stop, slow>>
    BY <1>9 DEF Undo
  <2>2. CASE /\ dist' \in Disturbances /\ dist'.attempt = dist.attempt
             /\ dist'.rec = dist.rec /\ dist'.timer = dist.timer
             /\ dist'.policy = dist.policy
    BY <2>1, <2>2, SMT
  <2>3. CASE camp.kind = "D5" /\ RestoreD5(FALSE)
    <3>1. /\ dist' \in Disturbances /\ dist'.attempt = "RESTORATION_FAILED"
          /\ dist'.rec = dist.rec /\ dist'.policy = dist.policy /\ dist'.timer = "failed"
      BY <2>3, TimerFailed
    <3>2. camp.kind = "D5"
      BY <2>3
    <3> QED BY <2>1, <3>1, <3>2, SMT
  <2> QED BY <1>9, <2>2, <2>3, NotUndoneEffect
<1> HIDE DEF IInv, Core, At, InSession
<1> QED
  BY <1>a, <1>1, <1>2, <1>3, <1>4, <1>5, <1>6, <1>7, <1>8, <1>9 DEF UndoPhase

\* the permissions and the reset.
LEMMA ResetCore ==
  ASSUME IInv, ResetPhase
  PROVE  Core'
<1>a. ASSUME NEW ok \in BOOLEAN, NEW healthy \in BOOLEAN, Reset(ok, healthy) PROVE ResetAs
  BY <1>a, ResetEffect DEF IInv
<1> USE BoundsAssumption
  DEF IInv, Core, Phases, Policies, RolledBackIsTrue, Faults, AbsenceIsReal, Credits,
          AgentCreditIsEarned, Resets, LeftClean, OnlyReplaced, Settled, MeshReported, Opening, AfterJoin,
          Judged, Tidying, Removers, TypeOK, Camps, Environments, Sessions, Monitors,
          Disturbances, Readings, Recoveries, Tidyings, Places, Attempts, Ended, AllKinds,
          Marks, MonBusy, At, Goto, InSession, SessionFree, Try, Live, OwnedLive,
          ForeignLive, Rescuing, threads, cleaning, Raised, Moved, SameTrial, EndedAs,
          Removed, Someone
<1>1. ASSUME Restore(TRUE) PROVE Core'
  BY <1>1, SMT DEF Restore, Mark
<1>2. ASSUME Restore(FALSE) PROVE Core'
  BY <1>2, SMT DEF Restore, Mark
<1>3. ASSUME ResetAs PROVE Core'
  BY <1>3, SMT DEF ResetAs
<1>4. ASSUME Preflight(TRUE) PROVE Core'
  BY <1>4, SMT DEF Preflight
<1>5. ASSUME Preflight(FALSE) PROVE Core'
  <2>1. /\ At("preflight") /\ Settle("conclude", "no", "reinstall")
        /\ UNCHANGED <<env, sess, threads, dist, fin, recovery, stop, slow>>
    BY <1>5 DEF Preflight
  <2>2. /\ Goto("conclude") /\ tidy' \in Tidyings /\ tidy'.reset = "no"
        /\ tidy'.restore = tidy.restore /\ tidy'.preflight = tidy.preflight
    BY <2>1, SettleEffect
  <2>3. /\ At("preflight") /\ UNCHANGED <<env, sess, threads, dist, fin, recovery, stop, slow>>
    BY <2>1
  <2> QED BY <2>2, <2>3, SMT
<1>6. ASSUME Uninstall(TRUE) PROVE Core'
  BY <1>6, SMT DEF Uninstall
<1>7. ASSUME Uninstall(FALSE) PROVE Core'
  <2>1. /\ At("uninstall") /\ Settle("conclude", "no", "reinstall")
        /\ UNCHANGED <<env, sess, threads, dist, fin, recovery, stop, slow>>
    BY <1>7 DEF Uninstall
  <2>2. /\ Goto("conclude") /\ tidy' \in Tidyings /\ tidy'.reset = "no"
        /\ tidy'.restore = tidy.restore /\ tidy'.preflight = tidy.preflight
    BY <2>1, SettleEffect
  <2>3. /\ At("uninstall") /\ UNCHANGED <<env, sess, threads, dist, fin, recovery, stop, slow>>
    BY <2>1
  <2> QED BY <2>2, <2>3, SMT
<1>8. ASSUME NEW healthy \in BOOLEAN, Deploy(TRUE, healthy) PROVE Core'
  <2>1. /\ At("deploy") /\ env' = [env EXCEPT !.sut = "up"]
        /\ UNCHANGED <<sess, threads, dist, fin, recovery, stop, slow>>
    BY <1>8 DEF Deploy
  <2>2. PICK v \in Marks : /\ Settle("conclude", v, "reinstall")
                           /\ v = "yes" => GateQualifies'
    BY <1>8 DEF Deploy, Mark
  <2>3. /\ Goto("conclude") /\ tidy' \in Tidyings /\ tidy'.reset = v
        /\ tidy'.restore = tidy.restore /\ tidy'.preflight = tidy.preflight
    BY <2>2, SettleEffect
  <2>4. v = "yes" => env'.sut = "up" /\ ~(env'.fault = "live" /\ env'.exec = "blade")
    BY <2>2 DEF GateQualifies
  <2> QED BY <2>1, <2>3, <2>4, SMT
<1>9. ASSUME NEW healthy \in BOOLEAN, Deploy(FALSE, healthy) PROVE Core'
  <2>1. /\ At("deploy") /\ Settle("conclude", "no", "reinstall")
        /\ UNCHANGED <<env, sess, threads, dist, fin, recovery, stop, slow>>
    BY <1>9 DEF Deploy
  <2>2. /\ Goto("conclude") /\ tidy' \in Tidyings /\ tidy'.reset = "no"
        /\ tidy'.restore = tidy.restore /\ tidy'.preflight = tidy.preflight
    BY <2>1, SettleEffect
  <2>3. /\ At("deploy") /\ UNCHANGED <<env, sess, threads, dist, fin, recovery, stop, slow>>
    BY <2>1
  <2> QED BY <2>2, <2>3, SMT
<1>10. ASSUME Conclude(TRUE) PROVE Core'
  BY FinishEffect, <1>10, SMT DEF Conclude, Tidied
<1>11. ASSUME Conclude(FALSE) PROVE Core'
  BY OuterEffect, <1>11, SMT DEF Conclude, Tidied
<1> HIDE DEF IInv, Core, At, InSession
<1> QED
  BY <1>a, <1>1, <1>2, <1>3, <1>4, <1>5, <1>6, <1>7, <1>8, <1>9, <1>10, <1>11 DEF ResetPhase

(***************************************************************************)
(* The types: one lemma for each record, then one for each thread and part.*)
(***************************************************************************)
\* Each record keeps its type: the campaign,
LEMMA CampTyped ==
  ASSUME TypeOK,
         TrialBegin \/ CapabilityLossEnds(TRUE) \/ CapabilityLossEnds(FALSE)
  PROVE  camp' \in Camps /\ camp'.trial <= Len(cases)
<1>1. ASSUME TrialBegin PROVE camp' \in Camps /\ camp'.trial <= Len(cases)
  <2> DEFINE t == camp.trial + 1
             k == cases[camp.trial + 1]
  <2>1. cases \in Seq(AllKinds)
    BY RequestsAssumption DEF TypeOK
  <2>2. camp.trial \in Nat /\ Len(cases) \in Nat /\ camp.trial < Len(cases)
    BY <1>1, <2>1 DEF TrialBegin, TypeOK, Camps
  <2>3. t \in 1..Len(cases)
    BY <2>2
  <2>4. k \in AllKinds
    BY <2>1, <2>3 DEF AllKinds
  <2>5. t \in Nat /\ t <= Len(cases)
    BY <2>2, <2>3
  <2>6. camp' = [camp EXCEPT !.pc = "prepare", !.trial = t, !.kind = k,
                            !.provisioned = FALSE, !.runtime = FALSE, !.finalized = FALSE]
    BY <1>1 DEF TrialBegin
  <2> HIDE DEF t, k
  <2>7. camp' = [pc |-> "prepare", mode |-> camp.mode, trial |-> t, kind |-> k,
                 provisioned |-> FALSE, runtime |-> FALSE, finalized |-> FALSE,
                 valid |-> camp.valid, status |-> camp.status, outer |-> camp.outer]
    BY <2>6 DEF TypeOK, Camps
  <2> QED BY <2>4, <2>5, <2>7 DEF TypeOK, Camps, Places
<1>2. ASSUME CapabilityLossEnds(TRUE) PROVE camp' \in Camps /\ camp'.trial <= Len(cases)
  <2>1. camp' = [camp EXCEPT !.pc = "rollback", !.finalized = TRUE]
    BY <1>2 DEF CapabilityLossEnds
  <2> QED BY <2>1 DEF TypeOK, Camps, Places
<1>3. ASSUME CapabilityLossEnds(FALSE) PROVE camp' \in Camps /\ camp'.trial <= Len(cases)
  <2>1. camp' = [camp EXCEPT !.pc = "rollback", !.finalized = TRUE]
    BY <1>3 DEF CapabilityLossEnds
  <2> QED BY <2>1 DEF TypeOK, Camps, Places
<1> QED BY <1>1, <1>2, <1>3

\* the environment,
LEMMA EnvTyped ==
  ASSUME TypeOK,
         AgentOwnCreate("blade") \/ AgentOwnCreate("mesh") \/
         AgentCreate("blade", TRUE) \/ AgentCreate("mesh", TRUE) \/ SeerStep \/ TrialBegin \/ FinPre(TRUE) \/ FinPre(FALSE)
  PROVE  env' \in Environments
<1>1. ASSUME AgentOwnCreate("blade") \/ AgentOwnCreate("mesh") PROVE env' \in Environments
  <2>1. \/ env' = [env EXCEPT !.fault = "live", !.origin = "own", !.exec = "blade"]
        \/ env' = [env EXCEPT !.fault = "live", !.origin = "own", !.exec = "mesh"]
    BY <1>1 DEF AgentOwnCreate
  <2> QED BY <2>1 DEF TypeOK, Environments
<1>2. ASSUME AgentCreate("blade", TRUE) PROVE env' \in Environments
  <2>1. env' = [env EXCEPT !.fault = "live", !.origin = "ledger", !.exec = "blade",
                         !.ever = TRUE]
    BY <1>2 DEF AgentCreate
  <2> QED BY <2>1 DEF TypeOK, Environments
<1>3. ASSUME AgentCreate("mesh", TRUE) PROVE env' \in Environments
  <2>1. env' = [env EXCEPT !.fault = "live", !.origin = "ledger", !.exec = "mesh",
                         !.ever = TRUE]
    BY <1>3 DEF AgentCreate
  <2> QED BY <2>1 DEF TypeOK, Environments
<1>4. ASSUME SeerStep PROVE env' \in Environments
  <2>1. CASE env' = [env EXCEPT !.noted = TRUE]
    BY <2>1 DEF TypeOK, Environments
  <2>2. CASE Remove("observer")
    BY <2>2, RemoveEffect DEF Someone, Removed
  <2> QED BY <1>4, <2>1, <2>2 DEF SeerStep
<1>5. ASSUME TrialBegin PROVE env' \in Environments
  <2>1. \/ env' = [env EXCEPT !.origin = "own", !.ever = FALSE, !.remover = "none",
                           !.noted = FALSE]
        \/ env' = [NoFault EXCEPT !.sut = env.sut]
    BY <1>5 DEF TrialBegin, LeftOver
  <2> QED BY <2>1 DEF TypeOK, Environments, NoFault
<1>6. ASSUME FinPre(TRUE) PROVE env' \in Environments
  <2> DEFINE noted == env.noted \/ (TRUE /\ Credited)
  <2>1. noted \in BOOLEAN
    OBVIOUS
  <2>2. env' = [env EXCEPT !.noted = noted]
    BY <1>6 DEF FinPre
  <2> HIDE DEF noted
  <2> QED BY <2>1, <2>2 DEF TypeOK, Environments
<1>7. ASSUME FinPre(FALSE) PROVE env' \in Environments
  <2> DEFINE noted == env.noted \/ (FALSE /\ Credited)
  <2>1. noted \in BOOLEAN
    OBVIOUS
  <2>2. env' = [env EXCEPT !.noted = noted]
    BY <1>7 DEF FinPre
  <2> HIDE DEF noted
  <2> QED BY <2>1, <2>2 DEF TypeOK, Environments
<1> QED BY <1>1, <1>2, <1>3, <1>4, <1>5, <1>6, <1>7

\* the session,
LEMMA SessTyped ==
  ASSUME TypeOK,
         PlanApproved \/ FaultSeen \/ RecoverySeen \/ Provision(TRUE) \/
         SessionEnds("completed") \/ SessionEnds("failed") \/ SessionEnds("cancelled") \/
         SessionRaises \/ NotAppliedAs
  PROVE  sess' \in Sessions
<1>1. ASSUME PlanApproved PROVE sess' \in Sessions
  <2>1. sess' = [sess EXCEPT !.planned = TRUE]
    BY <1>1 DEF PlanApproved
  <2> QED BY <2>1 DEF TypeOK, Sessions
<1>2. ASSUME FaultSeen PROVE sess' \in Sessions
  <2>1. sess' = [sess EXCEPT !.seen = TRUE]
    BY <1>2 DEF FaultSeen
  <2> QED BY <2>1 DEF TypeOK, Sessions
<1>3. ASSUME RecoverySeen PROVE sess' \in Sessions
  <2> DEFINE accepted == (sess.event = "accepted")
  <2>1. accepted \in BOOLEAN
    OBVIOUS
  <2>2. sess' = [sess EXCEPT !.asked = TRUE, !.accepted = accepted, !.event = "none"]
    BY <1>3 DEF RecoverySeen
  <2> HIDE DEF accepted
  <2> QED BY <2>1, <2>2 DEF TypeOK, Sessions
<1>4. ASSUME Provision(TRUE) PROVE sess' \in Sessions
  <2>1. sess' = [sess EXCEPT !.on = TRUE]
    BY <1>4 DEF Provision
  <2> QED BY <2>1 DEF TypeOK, Sessions
<1>5. ASSUME SessionEnds("completed") PROVE sess' \in Sessions
  <2>1. PICK cut \in {"none", "stop", "overtime"} :
           sess' = [sess EXCEPT !.on = FALSE, !.report = "completed", !.cut = cut]
    BY <1>5 DEF SessionEnds
  <2> QED BY <2>1 DEF TypeOK, Sessions
<1>6. ASSUME SessionEnds("failed") PROVE sess' \in Sessions
  <2>1. PICK cut \in {"none", "stop", "overtime"} :
           sess' = [sess EXCEPT !.on = FALSE, !.report = "failed", !.cut = cut]
    BY <1>6 DEF SessionEnds
  <2> QED BY <2>1 DEF TypeOK, Sessions
<1>7. ASSUME SessionEnds("cancelled") PROVE sess' \in Sessions
  <2>1. PICK cut \in {"none", "stop", "overtime"} :
           sess' = [sess EXCEPT !.on = FALSE, !.report = "cancelled", !.cut = cut]
    BY <1>7 DEF SessionEnds
  <2> QED BY <2>1 DEF TypeOK, Sessions
<1>8. ASSUME SessionRaises PROVE sess' \in Sessions
  <2>1. sess' = [sess EXCEPT !.on = FALSE]
    BY <1>8 DEF SessionRaises
  <2> QED BY <2>1 DEF TypeOK, Sessions
<1>9. ASSUME NotAppliedAs PROVE sess' \in Sessions
  <2>1. sess' = [sess EXCEPT !.on = FALSE]
    BY <1>9 DEF NotAppliedAs
  <2> QED BY <2>1 DEF TypeOK, Sessions
<1> QED BY <1>1, <1>2, <1>3, <1>4, <1>5, <1>6, <1>7, <1>8, <1>9

\* the monitor,
LEMMA MonTyped ==
  ASSUME TypeOK,
         RecoverySeen \/ FinishMonitor \/ Fallback(TRUE) \/ Fallback(FALSE) \/ MonRecord
         \/ MonEnded(TRUE) \/ MonEnded(FALSE)
  PROVE  mon' \in Monitors
<1>1. ASSUME RecoverySeen PROVE mon' \in Monitors
  <2>1. mon' = [mon EXCEPT !.cleanup = TRUE]
    BY <1>1 DEF RecoverySeen
  <2> QED BY <2>1 DEF TypeOK, Monitors, MonBusy
<1>2. ASSUME FinishMonitor PROVE mon' \in Monitors
  <2>1. mon' = [mon EXCEPT !.stop = TRUE]
    BY <1>2 DEF FinishMonitor
  <2> QED BY <2>1 DEF TypeOK, Monitors, MonBusy
<1>3. ASSUME Fallback(TRUE) PROVE mon' \in Monitors
  <2>1. mon' = [mon EXCEPT !.fallback = TRUE]
    BY <1>3 DEF Fallback
  <2> QED BY <2>1 DEF TypeOK, Monitors, MonBusy
<1>4. ASSUME Fallback(FALSE) PROVE mon' \in Monitors
  <2>1. mon' = [mon EXCEPT !.fallback = TRUE]
    BY <1>4 DEF Fallback
  <2> QED BY <2>1 DEF TypeOK, Monitors, MonBusy
<1>5. ASSUME MonRecord PROVE mon' \in Monitors
  <2>1. mon' = [mon EXCEPT !.pc = "notify", !.fallback = TRUE]
    BY <1>5 DEF MonRecord
  <2> QED BY <2>1 DEF TypeOK, Monitors, MonBusy
<1>6. ASSUME MonEnded(TRUE) PROVE mon' \in Monitors
  <2>1. mon' = [mon EXCEPT !.pc = "done", !.ended = TRUE]
    BY <1>6 DEF MonEnded
  <2> QED BY <2>1 DEF TypeOK, Monitors, MonBusy
<1>7. ASSUME MonEnded(FALSE) PROVE mon' \in Monitors
  <2>1. mon' = [mon EXCEPT !.pc = "done", !.ended = TRUE]
    BY <1>7 DEF MonEnded
  <2> QED BY <2>1 DEF TypeOK, Monitors, MonBusy
<1> QED BY <1>1, <1>2, <1>3, <1>4, <1>5, <1>6, <1>7

\* the observer,
LEMMA SeerTyped ==
  ASSUME TypeOK,
         PlanApproved \/ FinishMonitor \/ SeerStep
  PROVE  seer' \in [armed : BOOLEAN, removed : BOOLEAN]
<1>1. ASSUME PlanApproved PROVE seer' \in [armed : BOOLEAN, removed : BOOLEAN]
  <2>1. seer' = [seer EXCEPT !.armed = Attribution]
    BY <1>1 DEF PlanApproved
  <2> QED BY <2>1, AttributionAssumption DEF TypeOK
<1>2. ASSUME FinishMonitor PROVE seer' \in [armed : BOOLEAN, removed : BOOLEAN]
  <2>1. seer' = [seer EXCEPT !.armed = FALSE]
    BY <1>2 DEF FinishMonitor
  <2> QED BY <2>1 DEF TypeOK
<1>3. ASSUME SeerStep PROVE seer' \in [armed : BOOLEAN, removed : BOOLEAN]
  <2>1. seer' = seer \/ seer' = [seer EXCEPT !.removed = TRUE]
    BY <1>3 DEF SeerStep
  <2> QED BY <2>1 DEF TypeOK
<1> QED BY <1>1, <1>2, <1>3

\* the disturbance,
LEMMA DistTyped ==
  ASSUME TypeOK,
         CapabilityLossEnds(TRUE) \/ CapabilityLossEnds(FALSE)
  PROVE  dist' \in Disturbances
<1>1. ASSUME CapabilityLossEnds(TRUE) PROVE dist' \in Disturbances
  <2>1. \/ dist' = dist
        \/ dist' = [dist EXCEPT !.policy = "base", !.rec = "rolled", !.attempt = "RESTORED"]
    BY <1>1 DEF CapabilityLossEnds
  <2> QED BY <2>1 DEF TypeOK, Disturbances, Attempts
<1>2. ASSUME CapabilityLossEnds(FALSE) PROVE dist' \in Disturbances
  <2>1. \/ dist' = dist
        \/ dist' = [dist EXCEPT !.rec = "open", !.attempt = "APPLIED"]
    BY <1>2 DEF CapabilityLossEnds
  <2> QED BY <2>1 DEF TypeOK, Disturbances, Attempts
<1> QED BY <1>1, <1>2

\* given back or not, a capability of D8 leaves a policy,
LEMMA AbandonTyped ==
  ASSUME TypeOK, NEW ok \in BOOLEAN, NEW restored \in BOOLEAN, Abandon(ok, restored)
  PROVE  dist' \in Disturbances
<1> DEFINE p == IF /\ camp.kind = "D8" /\ ~camp.finalized /\ dist.policy = "disturbed"
                   /\ restored
                THEN "base" ELSE dist.policy
           a == IF dist.attempt = "WAITING_TRIGGER" THEN "NOT_TRIGGERED" ELSE dist.attempt
<1>1. p \in Policy /\ a \in Attempts
  BY DEF TypeOK, Disturbances, Policy, Attempts
<1>2. dist' = [dist EXCEPT !.policy = p, !.attempt = a]
  BY DEF Abandon
<1> HIDE DEF p, a
<1> QED BY <1>1, <1>2 DEF TypeOK, Disturbances, Policy

\* the finalizer's readings
LEMMA FinTyped ==
  ASSUME TypeOK,
         FinPre(TRUE) \/ FinPre(FALSE) \/ FinWait(TRUE) \/ FinWait(FALSE) \/
         FinDestroy(TRUE) \/ FinDestroy(FALSE)
  PROVE  fin' \in Readings
<1>1. ASSUME FinPre(TRUE) PROVE fin' \in Readings
  <2> DEFINE ever == TRUE /\ EverSeen
             absent == TRUE /\ AbsentSeen
  <2>1. ever \in BOOLEAN /\ absent \in BOOLEAN
    BY DEF EverSeen, AbsentSeen
  <2>2. fin' = [NotFinalized EXCEPT !.ever = ever, !.absent = absent]
    BY <1>1 DEF FinPre
  <2> HIDE DEF ever, absent
  <2> QED BY <2>1, <2>2 DEF NotFinalized, Readings
<1>2. ASSUME FinPre(FALSE) PROVE fin' \in Readings
  <2> DEFINE ever == FALSE /\ EverSeen
             absent == FALSE /\ AbsentSeen
  <2>1. ever \in BOOLEAN /\ absent \in BOOLEAN
    BY DEF EverSeen, AbsentSeen
  <2>2. fin' = [NotFinalized EXCEPT !.ever = ever, !.absent = absent]
    BY <1>2 DEF FinPre
  <2> HIDE DEF ever, absent
  <2> QED BY <2>1, <2>2 DEF NotFinalized, Readings
<1>3. ASSUME NEW read \in BOOLEAN, FinWait(read) PROVE fin' \in Readings
  <2> DEFINE absent == read /\ ~Live
  <2>1. absent \in BOOLEAN
    OBVIOUS
  <2>2. fin' = [fin EXCEPT !.absent = absent]
    BY <1>3 DEF FinWait
  <2> HIDE DEF absent
  <2> QED BY <2>1, <2>2 DEF TypeOK, Readings
<1>4. ASSUME FinDestroy(TRUE) PROVE fin' \in Readings
  <2>1. fin' = fin \/ fin' = [fin EXCEPT !.destroyed = TRUE]
    BY <1>4 DEF FinDestroy
  <2> QED BY <2>1 DEF TypeOK, Readings
<1>5. ASSUME FinDestroy(FALSE) PROVE fin' \in Readings
  <2>1. fin' = fin \/ fin' = [fin EXCEPT !.destroyed = FALSE]
    BY <1>5 DEF FinDestroy
  <2> QED BY <2>1 DEF TypeOK, Readings
<1> QED BY <1>1, <1>2, <1>3, <1>4, <1>5

\* and the reset.
LEMMA TidyTyped ==
  ASSUME TypeOK,
         Preflight(TRUE)
  PROVE  tidy' \in Tidyings
<1>1. ASSUME Preflight(TRUE) PROVE tidy' \in Tidyings
  <2>1. tidy' = [tidy EXCEPT !.preflight = TRUE]
    BY <1>1 DEF Preflight
  <2> QED BY <2>1 DEF TypeOK, Tidyings, Marks
<1> QED BY <1>1

\* Hence each step keeps the types: those of the Agent,
LEMMA AgentTyped ==
  ASSUME IInv, UNCHANGED cases, Stop \/ AgentStep \/ FaultExpires
  PROVE  TypeOK'
<1>0. TypeOK
  BY DEF IInv
<1>sess. ASSUME PlanApproved \/ FaultSeen \/ RecoverySeen
      PROVE  sess' \in Sessions
  BY <1>0, <1>sess, SessTyped
<1>seer. ASSUME PlanApproved
      PROVE  seer' \in [armed : BOOLEAN, removed : BOOLEAN]
  BY <1>0, <1>seer, SeerTyped
<1>mon. ASSUME RecoverySeen
      PROVE  mon' \in Monitors
  BY <1>0, <1>mon, MonTyped
<1>env. ASSUME AgentOwnCreate("blade") \/ AgentOwnCreate("mesh") \/
               AgentCreate("blade", TRUE) \/ AgentCreate("mesh", TRUE)
      PROVE  env' \in Environments
  BY <1>0, <1>env, EnvTyped
<1>over. ASSUME FaultSeen PROVE overtime' \in BOOLEAN
  BY <1>0, <1>over DEF FaultSeen, TypeOK
<1> USE <1>0, BoundsAssumption
  DEF TypeOK, Camps, Environments, Sessions, Monitors, Disturbances, Readings, Recoveries,
          Tidyings, Places, Attempts, Ended, AllKinds, Marks, MonBusy, At, Goto, InSession,
          SessionFree, Try, Live, OwnedLive, ForeignLive, Rescuing, threads, cleaning,
          Raised, Moved, SameTrial, EndedAs, Removed, Someone
<1>1. ASSUME Stop PROVE TypeOK'
  BY <1>1, SMT DEF Stop
<1>2. ASSUME PlanApproved PROVE TypeOK'
  <2>1. sess' \in Sessions
    BY <1>2, <1>sess, Zenon
  <2>2. seer' \in [armed : BOOLEAN, removed : BOOLEAN]
    BY <1>2, <1>seer, Zenon
  <2> QED BY <1>2, <2>1, <2>2, SMT DEF PlanApproved
<1>3. ASSUME AgentOwnCreate("blade") \/ AgentOwnCreate("mesh") PROVE TypeOK'
  <2>1. env' \in Environments
    BY <1>3, <1>env, Zenon
  <2> QED BY <1>3, <2>1, SMT DEF AgentOwnCreate
<1>4. ASSUME FaultSeen PROVE TypeOK'
  <2>1. sess' \in Sessions
    BY <1>4, <1>sess, Zenon
  <2>2. overtime' \in BOOLEAN
    BY <1>4, <1>over, Zenon
  <2> QED BY <1>4, <2>1, <2>2, SMT DEF FaultSeen
<1>5. ASSUME RecoverySeen PROVE TypeOK'
  <2>1. sess' \in Sessions
    BY <1>5, <1>sess, Zenon
  <2>2. mon' \in Monitors
    BY <1>5, <1>mon, Zenon
  <2> QED BY <1>5, <2>1, <2>2, SMT DEF RecoverySeen
<1>6. ASSUME LoseCapability PROVE TypeOK'
  BY <1>6, SMT DEF LoseCapability
<1>7. ASSUME Trigger PROVE TypeOK'
  BY <1>7, SMT DEF Trigger, Triggered
<1>8. ASSUME AgentCreate("blade", TRUE) PROVE TypeOK'
  <2>1. env' \in Environments
    BY <1>8, <1>env, Zenon
  <2> QED BY <1>8, <2>1, SMT DEF AgentCreate
<1>9. ASSUME AgentCreate("mesh", TRUE) PROVE TypeOK'
  <2>1. env' \in Environments
    BY <1>9, <1>env, Zenon
  <2> QED BY <1>9, <2>1, SMT DEF AgentCreate
<1>10. ASSUME AgentCreate("blade", FALSE) PROVE TypeOK'
  BY <1>10, SMT DEF AgentCreate
<1>11. ASSUME AgentCreate("mesh", FALSE) PROVE TypeOK'
  BY <1>11, SMT DEF AgentCreate
<1>12. ASSUME AgentDestroy(TRUE) PROVE TypeOK'
  <2>1. Removed("agent")
    <3>1. Remove("agent")
      BY <1>12 DEF AgentDestroy
    <3> QED BY <3>1, RemoveEffect, SMT
  <2> QED BY <1>12, <2>1, SMT DEF AgentDestroy
<1>13. ASSUME AgentDestroy(FALSE) PROVE TypeOK'
  BY <1>13, SMT DEF AgentDestroy
<1>14. ASSUME FaultExpires PROVE TypeOK'
  BY RemoveEffect, <1>14, SMT DEF FaultExpires
<1> HIDE DEF TypeOK, At, InSession
<1> QED
  BY <1>1, <1>2, <1>3, <1>4, <1>5, <1>6, <1>7, <1>8, <1>9, <1>10, <1>11, <1>12, <1>13,
     <1>14 DEF AgentStep

\* of the monitor's thread,
LEMMA MonitorTyped ==
  ASSUME IInv, UNCHANGED cases, MonStep
  PROVE  TypeOK'
<1>0. TypeOK
  BY DEF IInv
<1>u. UNCHANGED <<camp, sess, seer, dist, cleaning, stop, slow>>
  BY DEF MonStep
<1>mon. ASSUME MonRecord \/ MonEnded(TRUE) \/ MonEnded(FALSE)
      PROVE  mon' \in Monitors
  BY <1>0, <1>mon, MonTyped
<1> USE <1>0, BoundsAssumption
  DEF TypeOK, Camps, Environments, Sessions, Monitors, Disturbances, Readings, Recoveries,
          Tidyings, Places, Attempts, Ended, AllKinds, Marks, MonBusy, At, Goto, InSession,
          SessionFree, Try, Live, OwnedLive, ForeignLive, Rescuing, threads, cleaning,
          Raised, Moved, SameTrial, EndedAs, Removed, Someone
<1>1. ASSUME MonRunning PROVE TypeOK'
  BY <1>u, <1>1, SMT DEF MonRunning, Monitor
<1>2. ASSUME MonSettled PROVE TypeOK'
  BY <1>u, <1>2, SMT DEF MonSettled, Monitor
<1>3. ASSUME MonLeaves PROVE TypeOK'
  BY <1>u, <1>3, SMT DEF MonLeaves, Monitor
<1>4. ASSUME MonOvertime PROVE TypeOK'
  BY <1>u, <1>4, SMT DEF MonOvertime, Monitor
<1>5. ASSUME MonRecord PROVE TypeOK'
  <2>1. mon' \in Monitors
    BY <1>5, <1>mon, Zenon
  <2> QED BY <1>u, <1>5, <2>1, SMT DEF MonRecord
<1>6. ASSUME MonNotify PROVE TypeOK'
  <2>1. overtime' \in BOOLEAN
    BY <1>6 DEF MonNotify
  <2> QED BY <1>u, <1>6, <2>1, SMT DEF MonNotify, Monitor
<1>7. ASSUME LateNotify PROVE TypeOK'
  <2>1. overtime' \in BOOLEAN
    BY <1>7 DEF LateNotify
  <2> QED BY <1>u, <1>7, <2>1, SMT DEF LateNotify
<1>8. ASSUME MonEnded(TRUE) PROVE TypeOK'
  <2>1. mon' \in Monitors
    BY <1>8, <1>mon, Zenon
  <2> QED BY <1>u, RemoveEffect, <1>8, <2>1, SMT DEF MonEnded
<1>9. ASSUME MonEnded(FALSE) PROVE TypeOK'
  <2>1. mon' \in Monitors
    BY <1>9, <1>mon, Zenon
  <2> QED BY <1>u, <1>9, <2>1, SMT DEF MonEnded
<1>10. ASSUME MonDestroy(TRUE) PROVE TypeOK'
  BY <1>u, RemoveEffect, <1>10, SMT DEF MonDestroy, Monitor
<1>11. ASSUME MonDestroy(FALSE) PROVE TypeOK'
  BY <1>u, <1>11, SMT DEF MonDestroy, Monitor
<1> HIDE DEF TypeOK, At, InSession
<1> QED
  BY <1>1, <1>2, <1>3, <1>4, <1>5, <1>6, <1>7, <1>8, <1>9, <1>10, <1>11 DEF MonStep

\* of the observer and the timer of D5,
LEMMA TimerTyped ==
  ASSUME IInv, UNCHANGED cases, SeerStep \/ TimerStep
  PROVE  TypeOK'
<1>0. TypeOK
  BY DEF IInv
<1>env. ASSUME SeerStep
      PROVE  env' \in Environments
  BY <1>0, <1>env, EnvTyped
<1>seer. ASSUME SeerStep
      PROVE  seer' \in [armed : BOOLEAN, removed : BOOLEAN]
  BY <1>0, <1>seer, SeerTyped
<1> USE <1>0, BoundsAssumption
  DEF TypeOK, Camps, Environments, Sessions, Monitors, Disturbances, Readings, Recoveries,
          Tidyings, Places, Attempts, Ended, AllKinds, Marks, MonBusy, At, Goto, InSession,
          SessionFree, Try, Live, OwnedLive, ForeignLive, Rescuing, threads, cleaning,
          Raised, Moved, SameTrial, EndedAs, Removed, Someone
<1>1. ASSUME SeerStep PROVE TypeOK'
  <2>1. env' \in Environments
    BY <1>1, <1>env, Zenon
  <2>2. seer' \in [armed : BOOLEAN, removed : BOOLEAN]
    BY <1>1, <1>seer, Zenon
  <2> QED BY <1>1, <2>1, <2>2, SMT DEF SeerStep
<1>2. ASSUME TimerFires PROVE TypeOK'
  BY <1>2, SMT DEF TimerFires
<1>3. ASSUME TimerRestores(TRUE) PROVE TypeOK'
  <2>1. RestoreD5(TRUE)
    BY <1>3 DEF TimerRestores
  <2>2. dist' \in Disturbances
    BY <2>1, TimerRestored
  <2> QED BY <1>3, <2>2, SMT DEF TimerRestores
<1>4. ASSUME TimerRestores(FALSE) PROVE TypeOK'
  <2>1. RestoreD5(FALSE)
    BY <1>4 DEF TimerRestores
  <2>2. dist' \in Disturbances
    BY <2>1, TimerFailed
  <2> QED BY <1>4, <2>2, SMT DEF TimerRestores
<1> HIDE DEF TypeOK, At, InSession
<1> QED
  BY <1>1, <1>2, <1>3, <1>4 DEF TimerStep

\* of the campaign's thread up to the session's end,
LEMMA SessionTyped ==
  ASSUME IInv, UNCHANGED cases, SessionPhase
  PROVE  TypeOK'
<1>0. TypeOK
  BY DEF IInv
<1>a. ASSUME NEW outcome \in {"known", "unknown"}, Apply(TRUE, outcome)
      PROVE  AppliedAs /\ Try(TRUE)
  BY <1>0, <1>a, AppliedEffect DEF Apply
<1>b. ASSUME NEW outcome \in {"known", "unknown"}, Apply(FALSE, outcome)
      PROVE  NotAppliedAs /\ Try(FALSE)
  BY <1>0, <1>b, NotAppliedEffect DEF Apply
<1>sess. ASSUME Provision(TRUE) \/ SessionEnds("completed") \/ SessionEnds("failed")
                \/ SessionEnds("cancelled") \/ SessionRaises \/ NotAppliedAs
      PROVE  sess' \in Sessions
  BY <1>0, <1>sess, SessTyped
<1>camp. ASSUME TrialBegin
      PROVE  camp' \in Camps /\ camp'.trial <= Len(cases)
  BY <1>0, <1>camp, CampTyped
<1>env. ASSUME TrialBegin PROVE env' \in Environments
  BY <1>0, <1>env, EnvTyped
<1> USE <1>0, BoundsAssumption
  DEF TypeOK, Camps, Environments, Sessions, Monitors, Disturbances, Readings, Recoveries,
          Tidyings, Places, Attempts, Ended, AllKinds, Marks, MonBusy, At, Goto, InSession,
          SessionFree, Try, Live, OwnedLive, ForeignLive, Rescuing, threads, cleaning,
          Raised, Moved, SameTrial, EndedAs, Removed, Someone
<1>1. ASSUME Gates PROVE TypeOK'
  BY FinishEffect, OuterEffect, <1>1, SMT DEF Gates
<1>2. ASSUME TrialBegin PROVE TypeOK'
  <2>1. camp' \in Camps /\ camp'.trial <= Len(cases)
    BY <1>2, <1>camp, Zenon
  <2>2. env' \in Environments
    BY <1>2, <1>env, Zenon
  <2>3. late' \in 0..MaxSlow
    <3>1. /\ mon.pc \in {"destroy", "record", "notify"} => late < slow
          /\ late' = late \/ (late' = late + 1 /\ mon.pc \in {"destroy", "record", "notify"})
      BY <1>2, SMT DEF TrialBegin, IInv, Core, Credits, AfterJoin
    <3> QED BY <3>1, SMT
  <2>4. dist' \in Disturbances
    BY <1>2, SMT DEF TrialBegin, NoDisturbance
  <2> QED BY <1>2, <2>1, <2>2, <2>3, <2>4, SMT
          DEF TrialBegin, NoSession, NoMonitor, NoSeer, NotFinalized, NoRecovery, NotTidied
<1>3. ASSUME CampaignOver PROVE TypeOK'
  BY FinishEffect, <1>3, SMT DEF CampaignOver
<1>4. ASSUME Prepare(TRUE) PROVE TypeOK'
  BY PrepareEffect, <1>4, SMT DEF Prepare
<1>5. ASSUME Prepare(FALSE) PROVE TypeOK'
  BY RaiseEffect, <1>5, SMT DEF Prepare
<1>6. ASSUME Provision(TRUE) PROVE TypeOK'
  <2>1. Moved("session")
    BY <1>6, ProvisionEffect
  <2>2. sess' \in Sessions
    BY <1>6, <1>sess, Zenon
  <2> QED BY <1>6, <2>1, <2>2, SMT DEF Provision
<1>7. ASSUME Provision(FALSE) PROVE TypeOK'
  BY RaiseEffect, <1>7, SMT DEF Provision
<1>8. ASSUME SessionEnds("completed") PROVE TypeOK'
  <2>1. sess' \in Sessions
    BY <1>8, <1>sess, Zenon
  <2> QED BY <1>8, <2>1, SMT DEF SessionEnds
<1>9. ASSUME SessionEnds("failed") PROVE TypeOK'
  <2>1. sess' \in Sessions
    BY <1>9, <1>sess, Zenon
  <2> QED BY <1>9, <2>1, SMT DEF SessionEnds
<1>10. ASSUME SessionEnds("cancelled") PROVE TypeOK'
  <2>1. sess' \in Sessions
    BY <1>10, <1>sess, Zenon
  <2> QED BY <1>10, <2>1, SMT DEF SessionEnds
<1>11. ASSUME SessionRaises PROVE TypeOK'
  <2>1. sess' \in Sessions
    BY <1>11, <1>sess, Zenon
  <2> QED BY RaiseEffect, <1>11, <2>1, SMT DEF SessionRaises
<1>12. ASSUME AppliedAs, Try(TRUE) PROVE TypeOK'
  BY <1>12, SMT DEF AppliedAs
<1>13. ASSUME NotAppliedAs, Try(FALSE) PROVE TypeOK'
  <2>1. sess' \in Sessions
    BY <1>13, <1>sess, Zenon
  <2> QED BY <1>13, <2>1, RaiseEffect, SMT DEF NotAppliedAs
<1> HIDE DEF TypeOK, At, InSession
<1> QED
  BY <1>a, <1>b, <1>1, <1>2, <1>3, <1>4, <1>5, <1>6, <1>7, <1>8, <1>9, <1>10, <1>11, <1>12,
     <1>13 DEF SessionPhase

\* through the finalizer,
LEMMA FinalTyped ==
  ASSUME IInv, UNCHANGED cases, FinalPhase
  PROVE  TypeOK'
<1>0. TypeOK
  BY DEF IInv
<1>mon. ASSUME FinishMonitor \/ Fallback(TRUE) \/ Fallback(FALSE)
      PROVE  mon' \in Monitors
  BY <1>0, <1>mon, MonTyped
<1>seer. ASSUME FinishMonitor
      PROVE  seer' \in [armed : BOOLEAN, removed : BOOLEAN]
  BY <1>0, <1>seer, SeerTyped
<1>env. ASSUME FinPre(TRUE) \/ FinPre(FALSE)
      PROVE  env' \in Environments
  BY <1>0, <1>env, EnvTyped
<1>fin. ASSUME FinPre(TRUE) \/ FinPre(FALSE) \/ FinWait(TRUE) \/ FinWait(FALSE) \/
               FinDestroy(TRUE) \/ FinDestroy(FALSE)
      PROVE  fin' \in Readings
  BY <1>0, <1>fin, FinTyped
<1> USE <1>0, BoundsAssumption
  DEF TypeOK, Camps, Environments, Sessions, Monitors, Disturbances, Readings, Recoveries,
          Tidyings, Places, Attempts, Ended, AllKinds, Marks, MonBusy, At, Goto, InSession,
          SessionFree, Try, Live, OwnedLive, ForeignLive, Rescuing, threads, cleaning,
          Raised, Moved, SameTrial, EndedAs, Removed, Someone
<1>1. ASSUME FinishMonitor PROVE TypeOK'
  <2>1. mon' \in Monitors
    BY <1>1, <1>mon, Zenon
  <2>2. seer' \in [armed : BOOLEAN, removed : BOOLEAN]
    BY <1>1, <1>seer, Zenon
  <2> QED BY <1>1, <2>1, <2>2, SMT DEF FinishMonitor
<1>2. ASSUME JoinMonitor PROVE TypeOK'
  BY <1>2, SMT DEF JoinMonitor, NeedsFallback
<1>3. ASSUME Fallback(TRUE) PROVE TypeOK'
  <2>1. mon' \in Monitors
    BY <1>3, <1>mon, Zenon
  <2> QED BY RemoveEffect, <1>3, <2>1, SMT DEF Fallback
<1>4. ASSUME Fallback(FALSE) PROVE TypeOK'
  <2>1. mon' \in Monitors
    BY <1>4, <1>mon, Zenon
  <2> QED BY <1>4, <2>1, SMT DEF Fallback
<1>5. ASSUME Score PROVE TypeOK'
  BY <1>5, SMT DEF Score
<1>6. ASSUME AwaitRestoration PROVE TypeOK'
  BY RaiseEffect, <1>6, SMT DEF AwaitRestoration
<1>7. ASSUME FinPre(TRUE) PROVE TypeOK'
  <2>1. env' \in Environments
    BY <1>7, <1>env, Zenon
  <2>2. fin' \in Readings
    BY <1>7, <1>fin, Zenon
  <2> QED BY <1>7, <2>1, <2>2, SMT DEF FinPre
<1>8. ASSUME FinPre(FALSE) PROVE TypeOK'
  <2>1. env' \in Environments
    BY <1>8, <1>env, Zenon
  <2>2. fin' \in Readings
    BY <1>8, <1>fin, Zenon
  <2> QED BY <1>8, <2>1, <2>2, SMT DEF FinPre
<1>9. ASSUME FinWait(TRUE) \/ FinWait(FALSE) PROVE TypeOK'
  <2>1. fin' \in Readings
    BY <1>9, <1>fin, Zenon
  <2> QED BY <1>9, <2>1, SMT DEF FinWait
<1>10. ASSUME FinDestroy(TRUE) PROVE TypeOK'
  <2>1. fin' \in Readings
    BY <1>10, <1>fin, Zenon
  <2> QED BY RemoveEffect, <1>10, <2>1, SMT DEF FinDestroy
<1>11. ASSUME FinDestroy(FALSE) PROVE TypeOK'
  <2>1. fin' \in Readings
    BY <1>11, <1>fin, Zenon
  <2> QED BY RemoveEffect, <1>11, <2>1, SMT DEF FinDestroy
<1>12. ASSUME FinPost(TRUE) PROVE TypeOK'
  BY <1>12, SMT DEF FinPost, FaultAbsent, CleanupExecutor, AfterFinal, Reported
<1>13. ASSUME FinPost(FALSE) PROVE TypeOK'
  BY <1>13, SMT DEF FinPost, FaultAbsent, CleanupExecutor, AfterFinal, Reported
<1>14. ASSUME FinRaises PROVE TypeOK'
  BY RaiseEffect, <1>14, SMT DEF FinRaises
<1> HIDE DEF TypeOK, At, InSession
<1> QED
  BY <1>1, <1>2, <1>3, <1>4, <1>5, <1>6, <1>7, <1>8, <1>9, <1>10, <1>11, <1>12, <1>13,
     <1>14 DEF FinalPhase

\* the rollback and the emergency cleanup
LEMMA UndoTyped ==
  ASSUME IInv, UNCHANGED cases, UndoPhase
  PROVE  TypeOK'
<1>0. TypeOK
  BY DEF IInv
<1>a. ASSUME NEW ok \in BOOLEAN, NEW valid \in BOOLEAN, Evaluate(ok, valid)
      PROVE  EvaluatedAs /\ (Try(TRUE) \/ Try(FALSE))
  BY <1>0, <1>a, EvaluateEffect DEF Evaluate
<1>left. ASSUME NEW ok \in BOOLEAN, NEW restored \in BOOLEAN, Abandon(ok, restored)
      PROVE  dist' \in Disturbances
  BY <1>0, <1>left, AbandonTyped
<1>dist. ASSUME CapabilityLossEnds(TRUE) \/ CapabilityLossEnds(FALSE)
      PROVE  dist' \in Disturbances
  BY <1>0, <1>dist, DistTyped
<1>camp. ASSUME CapabilityLossEnds(TRUE) \/ CapabilityLossEnds(FALSE)
      PROVE  camp' \in Camps /\ camp'.trial <= Len(cases)
  BY <1>0, <1>camp, CampTyped
<1> USE <1>0, BoundsAssumption
  DEF TypeOK, Camps, Environments, Sessions, Monitors, Disturbances, Readings, Recoveries,
          Tidyings, Places, Attempts, Ended, AllKinds, Marks, MonBusy, At, Goto, InSession,
          SessionFree, Try, Live, OwnedLive, ForeignLive, Rescuing, threads, cleaning,
          Raised, Moved, SameTrial, EndedAs, Removed, Someone
<1>1. ASSUME CapabilityLossEnds(TRUE) PROVE TypeOK'
  <2>1. camp' \in Camps /\ camp'.trial <= Len(cases)
    BY <1>1, <1>camp, Zenon
  <2>2. dist' \in Disturbances
    BY <1>1, <1>dist, Zenon
  <2> QED BY <1>1, <2>1, <2>2, SMT DEF CapabilityLossEnds
<1>2. ASSUME CapabilityLossEnds(FALSE) PROVE TypeOK'
  <2>1. camp' \in Camps /\ camp'.trial <= Len(cases)
    BY <1>2, <1>camp, Zenon
  <2>2. dist' \in Disturbances
    BY <1>2, <1>dist, Zenon
  <2> QED BY <1>2, <2>1, <2>2, SMT DEF CapabilityLossEnds
<1>3. ASSUME Rollback(TRUE) PROVE TypeOK'
  <2>1. dist' \in Disturbances
    BY <1>3, RollbackDone
  <2> QED BY <1>3, <2>1, SMT DEF Rollback
<1>4. ASSUME Rollback(FALSE) PROVE TypeOK'
  <2>1. dist' \in Disturbances /\ Raise
    BY <1>4, RollbackRaises
  <2> QED BY <1>4, <2>1, RaiseEffect, SMT DEF Rollback
<1>5. ASSUME EvaluatedAs, Try(TRUE) \/ Try(FALSE) PROVE TypeOK'
  BY <1>5, RaiseEffect, SMT DEF EvaluatedAs
<1>6. ASSUME NEW restored \in BOOLEAN, Abandon(TRUE, restored), dist' \in Disturbances
      PROVE  TypeOK'
  <2>1. dist' \in Disturbances
    BY <1>6
  <2>2. /\ At("abandon") /\ (Try(TRUE) \/ UNCHANGED faults)
        /\ \/ Goto("finalize") \/ Goto("undo") \/ OuterFail
        /\ UNCHANGED <<env, sess, threads, cleaning, stop, slow>>
    BY <1>6 DEF Abandon
  <2> QED BY OuterEffect, <2>1, <2>2, SMT
<1>7. ASSUME NEW restored \in BOOLEAN, Abandon(FALSE, restored), dist' \in Disturbances
      PROVE  TypeOK'
  <2>1. dist' \in Disturbances
    BY <1>7
  <2>2. /\ At("abandon") /\ (Try(FALSE) \/ UNCHANGED faults)
        /\ \/ Goto("finalize") \/ Goto("undo") \/ OuterFail
        /\ UNCHANGED <<env, sess, threads, cleaning, stop, slow>>
    BY <1>7 DEF Abandon
  <2> QED BY OuterEffect, <2>1, <2>2, SMT
<1>8. ASSUME Undo(TRUE) PROVE TypeOK'
  <2>1. dist' \in Disturbances
    BY <1>8, UndoneEffect, TimerRestored
  <2> QED BY <1>8, <2>1, SMT DEF Undo, RestoreD5
<1>9. ASSUME Undo(FALSE) PROVE TypeOK'
  <2>1. dist' \in Disturbances
    BY <1>9, NotUndoneEffect, TimerFailed
  <2> QED BY <1>9, <2>1, SMT DEF Undo, RestoreD5
<1> HIDE DEF TypeOK, At, InSession
<1> QED
  BY <1>a, <1>left, <1>1, <1>2, <1>3, <1>4, <1>5, <1>6, <1>7, <1>8, <1>9 DEF UndoPhase

\* and the reset.
LEMMA ResetTyped ==
  ASSUME IInv, UNCHANGED cases, ResetPhase
  PROVE  TypeOK'
<1>0. TypeOK
  BY DEF IInv
<1>a. ASSUME NEW ok \in BOOLEAN, NEW healthy \in BOOLEAN, Reset(ok, healthy)
      PROVE  ResetAs /\ (Try(TRUE) \/ Try(FALSE) \/ UNCHANGED faults)
  BY <1>0, <1>a, ResetEffect DEF Reset
<1>tidy. ASSUME Preflight(TRUE)
      PROVE  tidy' \in Tidyings
  BY <1>0, <1>tidy, TidyTyped
<1> USE <1>0, BoundsAssumption
  DEF TypeOK, Camps, Environments, Sessions, Monitors, Disturbances, Readings, Recoveries,
          Tidyings, Places, Attempts, Ended, AllKinds, Marks, MonBusy, At, Goto, InSession,
          SessionFree, Try, Live, OwnedLive, ForeignLive, Rescuing, threads, cleaning,
          Raised, Moved, SameTrial, EndedAs, Removed, Someone
<1>1. ASSUME Restore(TRUE) PROVE TypeOK'
  BY <1>1, SMT DEF Restore, Mark
<1>2. ASSUME Restore(FALSE) PROVE TypeOK'
  BY <1>2, SMT DEF Restore, Mark
<1>3. ASSUME ResetAs, Try(TRUE) \/ Try(FALSE) \/ UNCHANGED faults PROVE TypeOK'
  BY <1>3, SMT DEF ResetAs
<1>4. ASSUME Preflight(TRUE) PROVE TypeOK'
  <2>1. tidy' \in Tidyings
    BY <1>4, <1>tidy, Zenon
  <2> QED BY <1>4, <2>1, SMT DEF Preflight
<1>5. ASSUME Preflight(FALSE) PROVE TypeOK'
  <2>1. Settle("conclude", "no", "reinstall")
    BY <1>5 DEF Preflight
  <2>2. Goto("conclude") /\ tidy' \in Tidyings
    BY <2>1, SettleEffect
  <2> QED BY <1>5, <2>2, SMT DEF Preflight
<1>6. ASSUME Uninstall(TRUE) PROVE TypeOK'
  BY <1>6, SMT DEF Uninstall
<1>7. ASSUME Uninstall(FALSE) PROVE TypeOK'
  <2>1. Settle("conclude", "no", "reinstall")
    BY <1>7 DEF Uninstall
  <2>2. Goto("conclude") /\ tidy' \in Tidyings
    BY <2>1, SettleEffect
  <2> QED BY <1>7, <2>2, SMT DEF Uninstall
<1>8. ASSUME NEW healthy \in BOOLEAN, Deploy(TRUE, healthy) PROVE TypeOK'
  <2>1. PICK v \in Marks : Settle("conclude", v, "reinstall")
    BY <1>8 DEF Deploy, Mark
  <2>2. Goto("conclude") /\ tidy' \in Tidyings
    BY <2>1, SettleEffect
  <2>3. /\ env' = [env EXCEPT !.sut = "up"] /\ Try(TRUE)
        /\ UNCHANGED <<sess, threads, dist, fin, recovery, stop, slow>>
    BY <1>8 DEF Deploy
  <2> QED BY <2>2, <2>3, SMT
<1>9. ASSUME NEW healthy \in BOOLEAN, Deploy(FALSE, healthy) PROVE TypeOK'
  <2>1. Settle("conclude", "no", "reinstall")
    BY <1>9 DEF Deploy
  <2>2. Goto("conclude") /\ tidy' \in Tidyings
    BY <2>1, SettleEffect
  <2>3. Try(FALSE) /\ UNCHANGED <<env, sess, threads, dist, fin, recovery, stop, slow>>
    BY <1>9 DEF Deploy
  <2> QED BY <2>2, <2>3, SMT
<1>10. ASSUME Conclude(TRUE) PROVE TypeOK'
  BY FinishEffect, <1>10, SMT DEF Conclude, Tidied
<1>11. ASSUME Conclude(FALSE) PROVE TypeOK'
  BY OuterEffect, <1>11, SMT DEF Conclude, Tidied
<1> HIDE DEF TypeOK, At, InSession
<1> QED
  BY <1>a, <1>1, <1>2, <1>3, <1>4, <1>5, <1>6, <1>7, <1>8, <1>9, <1>10, <1>11 DEF ResetPhase

(***************************************************************************)
(* The invariant and the theorems.                                         *)
(***************************************************************************)
\* A campaign starts with nothing applied, made or installed anew.
LEMMA InitOK ==
  ASSUME Init
  PROVE  IInv
<1>1. TypeOK
  <2>1. cases \in Seq(AllKinds) /\ 0 <= Len(cases)
    BY RequestsAssumption DEF Init
  <2>2. 0 \in 0..MaxFaults /\ 0 \in 0..MaxSlow
    OBVIOUS
  <2> QED
    BY <2>1, <2>2 DEF Init, TypeOK, Camps, Environments, Sessions, Monitors, Disturbances,
       Readings, Recoveries, Tidyings, Places, Attempts, Ended, AllKinds, Marks, MonBusy,
       NoFault, NoSession, NoMonitor, NoSeer, NoDisturbance, NotFinalized, NoRecovery,
       NotTidied
<1>2. Core
  BY DEF Init, Core, Phases, Policies, RolledBackIsTrue, Faults, AbsenceIsReal, Credits,
     AgentCreditIsEarned, Resets, LeftClean, OnlyReplaced, Settled, MeshReported, Opening, AfterJoin, Judged,
     Tidying, Removers, Places, MonBusy, At, Live, OwnedLive, Rescuing, NoFault, NoSession,
     NoMonitor, NoSeer, NoDisturbance, NotFinalized, NoRecovery, NotTidied
<1> QED
  BY <1>1, <1>2 DEF IInv

\* The campaign's thread is in one part of the trial at a time.
LEMMA PartsOfTrial ==
  ASSUME CampaignStep
  PROVE  SessionPhase \/ FinalPhase \/ UndoPhase \/ ResetPhase
  BY Zenon DEF CampaignStep, SessionPhase, FinalPhase, UndoPhase, ResetPhase

\* A step that changes nothing keeps everything.
LEMMA Stutters ==
  ASSUME IInv, UNCHANGED vars
  PROVE  IInv'
  BY DEF vars, threads, cleaning, IInv, TypeOK, Core, Phases, Policies, RolledBackIsTrue,
     Faults, AbsenceIsReal, Credits, AgentCreditIsEarned, Resets, LeftClean, OnlyReplaced,
     Settled, MeshReported, At, Live, OwnedLive, Rescuing

\* IInv is inductive.
THEOREM Inductive == Spec => []IInv
<1>1. Init => IInv
  BY InitOK
<1>2. IInv /\ [Next]_vars => IInv'
  <2> SUFFICES ASSUME IInv, [Next]_vars
               PROVE  IInv'
    OBVIOUS
  <2>1. CASE UNCHANGED vars
    BY <2>1, Stutters
  <2>2. CASE Next
    <3>1. UNCHANGED cases
      BY <2>2 DEF Next
    <3>2. CASE Stop \/ AgentStep \/ FaultExpires
      BY <3>1, <3>2, AgentTyped, AgentCore DEF IInv
    <3>3. CASE MonStep
      BY <3>1, <3>3, MonitorTyped, MonitorCore DEF IInv
    <3>4. CASE SeerStep \/ TimerStep
      BY <3>1, <3>4, TimerTyped, TimerCore DEF IInv
    <3>5. CASE CampaignStep
      <4>1. CASE SessionPhase
        BY <3>1, <4>1, SessionTyped, SessionCore DEF IInv
      <4>2. CASE FinalPhase
        BY <3>1, <4>2, FinalTyped, FinalCore DEF IInv
      <4>3. CASE UndoPhase
        BY <3>1, <4>3, UndoTyped, UndoCore DEF IInv
      <4>4. CASE ResetPhase
        BY <3>1, <4>4, ResetTyped, ResetCore DEF IInv
      <4> QED
        BY <3>5, <4>1, <4>2, <4>3, <4>4, PartsOfTrial
    <3> QED
      BY <2>2, <3>2, <3>3, <3>4, <3>5 DEF Next
  <2> QED
    BY <2>1, <2>2
<1> QED
  BY <1>1, <1>2, PTL DEF Spec

\* The records of a campaign (CampaignResult, the attempt, the monitor's result,
\* the RecoveryResult and the reset of campaign.py) keep their types.
THEOREM TypeCorrect == Spec => []TypeOK
<1>1. IInv => TypeOK
  BY DEF IInv
<1> QED
  BY <1>1, Inductive, PTL

\* The next trial of a campaign starts with the system under test installed, no
\* permission left and no timer, and so does what follows a campaign that ended
\* COMPLETED or after a verified emergency cleanup; a fault lives there only if it
\* is one of Chaos Mesh, and one that a finalizer which returned had reported as
\* foreign (campaign.py 1338-1437, reset.py 167-208 and 265-281,
\* runtime_adapters.py 149-164).
THEOREM TrialsStartClean == Spec => []LeftClean
<1>1. IInv => LeftClean
  BY DEF IInv, Core, Resets
<1> QED
  BY <1>1, Inductive, PTL

\* The fault the finalizer reports absent is, although the Agent, the monitor and
\* the fault's own timer go on beside it (finalization.py, fault_absent).
THEOREM ReportedAbsenceIsReal == Spec => []AbsenceIsReal
<1>1. IInv => AbsenceIsReal
  BY DEF IInv, Core, Faults
<1> QED
  BY <1>1, Inductive, PTL

\* The Agent is credited with the recovery only when its destroy was the first,
\* or a monitor thread outlived its join (finalization.py, cleanup_executor).
THEOREM CreditIsEarned == Spec => []AgentCreditIsEarned
<1>1. IInv => AgentCreditIsEarned
  BY DEF IInv, Core, Credits
<1> QED
  BY <1>1, Inductive, PTL

\* The system under test is uninstalled and deployed anew only after a dry run
\* that passed and with no disturbance still applied, and over a live fault of the
\* trial only in the emergency cleanup after a finalizer that raised (rule O04 of
\* recovery_state.py, reset.py 210-288).
THEOREM ReinstallsAreJudged == Spec => []ReinstallIsJudged
<1>1. IInv => ReinstallIsJudged
  BY DEF IInv, Core, Phases, Faults, AbsenceIsReal, Resets, OnlyReplaced, Judged,
     ReinstallIsJudged, At
<1> QED
  BY <1>1, Inductive, PTL

\* A disturbance reported RESTORED or ROLLED_BACK has left the policy as it found
\* it, whichever of the timer, the rollback and the reset came first
\* (campaign.py 948-1018, runtime_adapters.py 708-759).
THEOREM RollbacksAreTrue == Spec => []RolledBackIsTrue
<1>1. IInv => RolledBackIsTrue
  BY DEF IInv, Core, Policies
<1> QED
  BY <1>1, Inductive, PTL

=============================================================================
