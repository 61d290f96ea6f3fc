---------------------------- MODULE TrialCampaign ----------------------------
(***************************************************************************)
(* One campaign of Stage 2: CampaignEngine.run takes the cases of a        *)
(* request one after the other.  For each it prepares the runtime, hands   *)
(* out permissions, lets an Agent work in a harness session, applies one   *)
(* disturbance when the Agent commits to something, and then cleans up:    *)
(* the condition monitor, the controller's finalizer, the rollback of the  *)
(* disturbance, the permissions and the reset of the environment.  An      *)
(* error in any of this leads to the emergency cleanup.                    *)
(*                                                                         *)
(* Beside the campaign's own thread run the Agent, whose events the        *)
(* session delivers later than its calls take effect, the thread of the    *)
(* condition monitor, the timer that ends the interruption of case D5, the *)
(* observer of faults that the Agent makes without the controller, and     *)
(* the timer of the fault itself.                                          *)
(***************************************************************************)
EXTENDS ResetPolicy, Sequences

CONSTANTS
    Requests,      \* the requests to be run: each a sequence of cases
    Attribution,   \* STAGE2_FOREIGN_FAULT_ATTRIBUTION: own faults of the Agent count
    MaxFaults,     \* bound: calls to the cluster or the artifact store that fail
    MaxSlow        \* bound: monitor threads that outlive the join of finish()

AllKinds == {"C0", "D1", "D2", "D3", "D4", "D5", "D6", "D8"}

ASSUME BoundsAssumption == MaxFaults \in Nat /\ MaxSlow \in Nat
ASSUME RequestsAssumption == Requests \subseteq Seq(AllKinds)
ASSUME AttributionAssumption == Attribution \in BOOLEAN

VARIABLES
    cases,         \* the request's cases, in order
    camp,          \* the campaign: place, mode, trial, case, status
    env,           \* the cluster: the fault, who removed it, the system under test
    sess,          \* the Agent session
    mon,           \* the condition monitor of the trial and its thread
    late,          \* monitor threads of earlier trials still in their last steps
    overtime,      \* overtime_abort["requested"]
    seer,          \* the foreign fault observer
    dist,          \* the disturbance: attempt, record, policy, restoring timer
    fin,           \* what the finalizer read before it cleaned up
    recovery,      \* the finalizer's result; not made: None
    tidy,          \* outcome of the permission restore and of the reset
    stop, faults, slow

threads == <<mon, late, overtime, seer>>
cleaning == <<fin, recovery, tidy>>
vars == <<cases, camp, env, sess, mon, late, overtime, seer, dist, fin, recovery, tidy,
          stop, faults, slow>>
-----------------------------------------------------------------------------
Ended == {"COMPLETED", "FAILED", "BLOCKED", "RESET_FAILED"}
MonBusy == {"destroy", "record", "notify"}

NoSession == [on |-> FALSE, planned |-> FALSE, seen |-> FALSE, event |-> "none",
              asked |-> FALSE, accepted |-> FALSE, unsure |-> FALSE,
              report |-> "none", cut |-> "none"]
NoMonitor == [pc |-> "off", stop |-> FALSE, cleanup |-> FALSE, fallback |-> FALSE,
              ended |-> FALSE]
NoFault == [fault |-> "none", origin |-> "ledger", exec |-> "blade", ever |-> FALSE,
            remover |-> "none", noted |-> FALSE, sut |-> "up"]
NoSeer == [armed |-> FALSE, removed |-> FALSE]
NoDisturbance == [attempt |-> "NOT_APPLICABLE", rec |-> "none", outcome |-> "known",
                  policy |-> "none", timer |-> "off"]
NotFinalized == [absent |-> FALSE, ever |-> FALSE, destroyed |-> FALSE]
NoRecovery == [made |-> FALSE, absent |-> FALSE, clear |-> FALSE, qualified |-> FALSE,
               foreign |-> FALSE, ever |-> FALSE, by |-> "none"]
NotTidied == [restore |-> "none", reset |-> "none", treated |-> "none", preflight |-> FALSE]

Init ==
    /\ cases \in Requests
    /\ camp = [pc |-> "gates", mode |-> "normal", trial |-> 0, kind |-> "C0",
               provisioned |-> FALSE, runtime |-> FALSE, finalized |-> FALSE,
               valid |-> TRUE, status |-> "RUNNING", outer |-> FALSE]
    /\ env = NoFault
    /\ sess = NoSession /\ mon = NoMonitor /\ late = 0 /\ overtime = FALSE
    /\ seer = NoSeer /\ dist = NoDisturbance /\ fin = NotFinalized
    /\ recovery = NoRecovery /\ tidy = NotTidied
    /\ stop = FALSE /\ faults = 0 /\ slow = 0

Live == env.fault = "live"
OwnedLive == Live /\ env.origin = "ledger"
ForeignLive == Live /\ env.origin = "own"
\* a call that may fail: a failure uses up one of the faults of the bound
Try(ok) == \/ ok /\ faults' = faults
           \/ ~ok /\ faults < MaxFaults /\ faults' = faults + 1
\* a fault leaves the cluster; the first one to remove it is remembered
Remove(who) == env' = [env EXCEPT !.fault = "none",
                                  !.remover = IF Live THEN who ELSE @]
At(pc) == camp.pc = pc /\ camp.status = "RUNNING"
Goto(pc) == camp' = [camp EXCEPT !.pc = pc]
\* an exception inside the trial, and one that only run's outer handler catches
Raise == camp' = [camp EXCEPT !.pc = "finish", !.mode = "rescue"]
Finish(status) == camp' = [camp EXCEPT !.pc = "ended", !.status = status]
OuterFail == camp' = [camp EXCEPT !.pc = "ended", !.status = "FAILED", !.outer = TRUE]
InSession == At("session") /\ sess.on
-----------------------------------------------------------------------------
(***************************************************************************)
(* The campaign up to the session.                                         *)
(***************************************************************************)
\* the request is seen at the next look at its flag, in one of these places
Stop == /\ ~stop /\ stop' = TRUE
        /\ At("gates") \/ At("next") \/ At("session") \/ At("conclude")
        /\ UNCHANGED <<camp, env, sess, threads, dist, cleaning, faults, slow>>

\* a stop request, the D0 qualification or the environment gate ends it here
Gates ==
    /\ At("gates")
    /\ \/ Finish("BLOCKED") /\ UNCHANGED faults
       \/ ~stop /\ Goto("next") /\ UNCHANGED faults
       \/ ~stop /\ OuterFail /\ Try(FALSE)
    /\ UNCHANGED <<env, sess, threads, dist, cleaning, stop, slow>>

\* a fault that outlived its trial is one of somebody else's for the next
LeftOver == IF Live THEN [env EXCEPT !.origin = "own", !.ever = FALSE, !.remover = "none",
                                     !.noted = FALSE]
            ELSE [NoFault EXCEPT !.sut = env.sut]

TrialBegin ==
    /\ At("next") /\ ~stop /\ camp.trial < Len(cases)
    /\ camp' = [camp EXCEPT !.pc = "prepare", !.trial = @ + 1, !.kind = cases[camp.trial + 1],
                            !.provisioned = FALSE, !.runtime = FALSE, !.finalized = FALSE]
    /\ env' = LeftOver
    /\ late' = IF mon.pc \in MonBusy THEN late + 1 ELSE late
    /\ dist' = [NoDisturbance EXCEPT !.attempt = IF camp'.kind = "C0" THEN @ ELSE "WAITING_TRIGGER"]
    /\ sess' = NoSession /\ mon' = NoMonitor /\ seer' = NoSeer
    /\ fin' = NotFinalized /\ recovery' = NoRecovery /\ tidy' = NotTidied
    /\ UNCHANGED <<overtime, stop, faults, slow>>

\* no case is left, or a stop came before the next one
CampaignOver ==
    /\ At("next")
    /\ \/ stop /\ camp.trial < Len(cases) /\ Finish("BLOCKED")
       \/ camp.trial = Len(cases) /\ Finish(IF camp.valid THEN "COMPLETED" ELSE "FAILED")
    /\ UNCHANGED <<env, sess, threads, dist, cleaning, stop, faults, slow>>

Prepare(ok) ==
    /\ At("prepare") /\ Try(ok)
    /\ IF ok THEN camp' = [camp EXCEPT !.pc = "provision", !.runtime = TRUE] ELSE Raise
    /\ UNCHANGED <<env, sess, threads, dist, cleaning, stop, slow>>

\* a provision that fails takes back what it handed out
Provision(ok) ==
    /\ At("provision") /\ Try(ok)
    /\ IF ok THEN /\ camp' = [camp EXCEPT !.pc = "session", !.provisioned = TRUE]
                  /\ dist' = [dist EXCEPT !.policy = "base"]
                  /\ sess' = [sess EXCEPT !.on = TRUE]
             ELSE Raise /\ UNCHANGED <<dist, sess>>
    /\ UNCHANGED <<env, threads, cleaning, stop, slow>>
-----------------------------------------------------------------------------
(***************************************************************************)
(* The Agent in its session.  Its calls change the cluster at once; the    *)
(* campaign sees them when the session delivers the events.                *)
(***************************************************************************)
SessionFree == InSession /\ dist.attempt # "APPLYING"

\* the approved plan is also what arms the observer of own faults
PlanApproved ==
    /\ SessionFree /\ ~sess.planned
    /\ sess' = [sess EXCEPT !.planned = TRUE]
    /\ seer' = [seer EXCEPT !.armed = Attribution]
    /\ UNCHANGED <<camp, env, mon, late, overtime, dist, cleaning, stop, faults, slow>>

\* through the controller: in case D6 the answer is lost, in case D8 the other executor
AgentCreate(exec, applied) ==
    /\ InSession /\ ~env.ever /\ ~Live /\ ~sess.unsure
    /\ camp.kind = "D1" => dist.policy = "base"
    /\ exec = "mesh" => camp.kind = "D8"
    /\ ~applied => camp.kind = "D6"
    /\ env' = IF applied THEN [env EXCEPT !.fault = "live", !.origin = "ledger",
                                          !.exec = exec, !.ever = TRUE]
              ELSE env
    /\ sess' = [sess EXCEPT !.unsure = (camp.kind = "D6")]
    /\ UNCHANGED <<camp, threads, dist, cleaning, stop, faults, slow>>

\* an experiment the Agent makes on its own, without the ledger, with either
\* executor; the model has one fault at a time, and one own fault in a trial
AgentOwnCreate(exec) ==
    /\ InSession /\ ~env.ever /\ ~Live /\ env.remover = "none"
    /\ env' = [env EXCEPT !.fault = "live", !.origin = "own", !.exec = exec]
    /\ UNCHANGED <<camp, sess, threads, dist, cleaning, stop, faults, slow>>

\* main_fault_created arrives: with an approved plan it arms the monitor
FaultSeen ==
    /\ SessionFree /\ env.ever /\ env.origin = "ledger" /\ ~sess.seen
    /\ sess' = [sess EXCEPT !.seen = TRUE]
    /\ IF sess.planned
       THEN overtime' = FALSE /\ mon' = [mon EXCEPT !.pc = "wait"]
       ELSE UNCHANGED <<overtime, mon>>
    /\ UNCHANGED <<camp, env, late, seer, dist, cleaning, stop, faults, slow>>

\* the Agent destroys its fault; destroying an absent one is accepted as well
AgentDestroy(ok) ==
    /\ InSession /\ env.ever /\ sess.event = "none" /\ ~sess.asked /\ Try(ok)
    /\ IF ok THEN Remove("agent") ELSE env' = env
    /\ sess' = [sess EXCEPT !.event = IF ok THEN "accepted" ELSE "refused"]
    /\ UNCHANGED <<camp, threads, dist, cleaning, stop, slow>>

\* recovery_requested and its answer arrive
RecoverySeen ==
    /\ SessionFree /\ sess.event # "none"
    /\ sess' = [sess EXCEPT !.asked = TRUE, !.accepted = (sess.event = "accepted"),
                            !.event = "none"]
    /\ mon' = [mon EXCEPT !.cleanup = TRUE]
    /\ UNCHANGED <<camp, env, late, overtime, seer, dist, cleaning, stop, faults, slow>>

\* the fault's own timer; the controller's reaper needs a connected session
FaultExpires ==
    /\ Live
    /\ Remove(IF env.origin = "ledger" /\ sess.on THEN "timer" ELSE "self")
    /\ UNCHANGED <<camp, sess, threads, dist, cleaning, stop, faults, slow>>

\* the Agent is done, or the turn is cancelled by a stop or by an overtime abort
SessionEnds(report) ==
    /\ SessionFree
    /\ report = "cancelled" => stop \/ overtime
    /\ sess' = [sess EXCEPT !.on = FALSE, !.report = report,
                            !.cut = IF report # "cancelled" THEN "none"
                                    ELSE IF stop THEN "stop" ELSE "overtime"]
    /\ Goto("finish")
    /\ UNCHANGED <<env, threads, dist, cleaning, stop, faults, slow>>

SessionRaises ==
    /\ SessionFree /\ Try(FALSE) /\ Raise
    /\ sess' = [sess EXCEPT !.on = FALSE]
    /\ UNCHANGED <<env, threads, dist, cleaning, stop, slow>>
-----------------------------------------------------------------------------
(***************************************************************************)
(* The disturbance: applied once, by the thread that delivers the event.   *)
(***************************************************************************)
Triggered ==
    CASE camp.kind \in {"D1", "D2"} -> TRUE
      [] camp.kind \in {"D3", "D5"} -> sess.seen
      [] camp.kind = "D4" -> sess.accepted \/ (sess.seen /\ ~Live)
      [] camp.kind = "D6" -> sess.unsure
      [] OTHER -> FALSE

Trigger ==
    /\ SessionFree /\ Triggered /\ dist.rec = "none"
    /\ dist.attempt = "WAITING_TRIGGER"
    /\ dist' = [dist EXCEPT !.attempt = "APPLYING"]
    /\ UNCHANGED <<camp, env, sess, threads, cleaning, stop, faults, slow>>

\* an error ends the session; several capabilities may then be half revoked
Apply(ok, outcome) ==
    /\ InSession /\ dist.attempt = "APPLYING" /\ Try(ok)
    /\ camp.kind # "D6" => outcome = "known"
    /\ IF ok
       THEN /\ dist' = [dist EXCEPT
                !.attempt = "APPLIED", !.outcome = outcome,
                !.rec = IF camp.kind = "D6" THEN "rolled" ELSE "open",
                !.policy = IF camp.kind \in {"D2", "D6"} THEN @ ELSE "disturbed",
                !.timer = IF camp.kind = "D5" THEN "set" ELSE @]
            /\ UNCHANGED <<camp, sess>>
       ELSE /\ dist' = [dist EXCEPT
                !.attempt = "APPLICATION_FAILED",
                !.policy = IF camp.kind \in {"D3", "D4"} THEN "disturbed" ELSE @]
            /\ Raise /\ sess' = [sess EXCEPT !.on = FALSE]
    /\ UNCHANGED <<env, threads, cleaning, stop, slow>>

\* case D8: the capability that the session takes away by itself
LoseCapability ==
    /\ SessionFree /\ camp.kind = "D8" /\ dist.policy = "base"
    /\ dist' = [dist EXCEPT !.policy = "disturbed"]
    /\ UNCHANGED <<camp, env, sess, threads, cleaning, stop, faults, slow>>

\* the timer of case D5 restores the policy, and reports what came of it
TimerFires ==
    /\ dist.timer = "set"
    /\ dist' = [dist EXCEPT !.timer = "restoring"]
    /\ UNCHANGED <<camp, env, sess, threads, cleaning, stop, faults, slow>>

\* mutant: the timer reports the restoration it asked for
RestoreD5Blind(ok) ==
    dist' = [dist EXCEPT !.timer = "done", !.policy = IF ok THEN "base" ELSE @,
                         !.rec = "rolled", !.attempt = "RESTORED"]

RestoreD5(ok) ==
    dist' = IF ok THEN [dist EXCEPT !.timer = "done", !.policy = "base", !.rec = "rolled",
                                    !.attempt = "RESTORED"]
            ELSE [dist EXCEPT !.timer = "failed", !.attempt = "RESTORATION_FAILED"]

TimerRestores(ok) ==
    /\ dist.timer = "restoring"
    /\ IF dist.policy = "none" THEN ~ok /\ UNCHANGED faults ELSE Try(ok)
    /\ RestoreD5(ok)
    /\ UNCHANGED <<camp, env, sess, threads, cleaning, stop, slow>>
-----------------------------------------------------------------------------
(***************************************************************************)
(* The thread of the condition monitor: it waits for the fault to run,     *)
(* watches for its effect, and then waits for the Agent to clean up until  *)
(* the approved duration and a grace are over.                             *)
(***************************************************************************)
Monitor(pc) == mon' = [mon EXCEPT !.pc = pc]
Watching == mon.pc \in {"wait", "watch", "await"}

MonRunning == /\ mon.pc = "wait" /\ ~mon.stop /\ ~mon.cleanup
              /\ Monitor(IF Live THEN "watch" ELSE "done")
              /\ UNCHANGED <<env, late, overtime, faults>>
\* the effect held, was not seen in time, or the deadline came first
MonSettled == /\ mon.pc = "watch" /\ ~mon.stop /\ ~mon.cleanup /\ Monitor("await")
              /\ UNCHANGED <<env, late, overtime, faults>>
MonLeaves == /\ Watching /\ (mon.stop \/ mon.cleanup) /\ Monitor("done")
             /\ UNCHANGED <<env, late, overtime, faults>>
\* the fault is gone, or its own deadline passed and the monitor has it reaped
MonEnded(ok) ==
    /\ mon.pc = "await" /\ ~mon.stop /\ ~mon.cleanup
    /\ IF Live THEN Try(ok) /\ (IF ok THEN Remove("timer") ELSE env' = env)
       ELSE ok /\ UNCHANGED <<env, faults>>
    /\ mon' = [mon EXCEPT !.pc = "done", !.ended = TRUE]
    /\ UNCHANGED <<late, overtime>>
MonOvertime == /\ mon.pc = "await" /\ Live /\ ~mon.stop /\ ~mon.cleanup
               /\ Monitor("destroy") /\ UNCHANGED <<env, late, overtime, faults>>
\* _fallback_cleanup destroys first, then notes that it did
MonDestroy(ok) == /\ mon.pc = "destroy" /\ Try(ok)
                  /\ IF ok THEN Remove("monitor") ELSE env' = env
                  /\ Monitor("record") /\ UNCHANGED <<late, overtime>>
MonRecord == /\ mon.pc = "record"
             /\ mon' = [mon EXCEPT !.pc = "notify", !.fallback = TRUE]
             /\ UNCHANGED <<env, late, overtime, faults>>
MonNotify == /\ mon.pc = "notify" /\ overtime' = TRUE /\ Monitor("done")
             /\ UNCHANGED <<env, late, faults>>

\* a thread that outlived its trial: the flag it sets is the campaign's
LateNotify == /\ late > 0 /\ late' = late - 1 /\ overtime' = TRUE
              /\ UNCHANGED <<env, mon, faults>>

MonStep ==
    /\ \/ MonRunning \/ MonSettled \/ MonLeaves \/ MonOvertime \/ MonRecord
       \/ MonNotify \/ LateNotify
       \/ \E ok \in BOOLEAN : MonEnded(ok) \/ MonDestroy(ok)
    /\ UNCHANGED <<camp, sess, seer, dist, cleaning, stop, slow>>

\* the observer of own faults: remembers one it sees, removes an overdue one
SeerStep ==
    /\ seer.armed /\ ForeignLive
    /\ \/ /\ ~env.noted /\ env' = [env EXCEPT !.noted = TRUE]
          /\ UNCHANGED seer
       \/ /\ env.noted /\ Remove("observer") /\ seer' = [seer EXCEPT !.removed = TRUE]
    /\ UNCHANGED <<camp, sess, mon, late, overtime, dist, cleaning, stop, faults, slow>>
-----------------------------------------------------------------------------
(***************************************************************************)
(* The end of the session: both helpers are stopped.                       *)
(***************************************************************************)
Rescuing == camp.mode = "rescue"

FinishMonitor ==
    /\ At("finish") /\ Goto("join")
    /\ mon' = [mon EXCEPT !.stop = TRUE] /\ seer' = [seer EXCEPT !.armed = FALSE]
    /\ UNCHANGED <<env, sess, late, overtime, dist, cleaning, stop, faults, slow>>

\* finish() waits a few seconds for the thread, and no longer
NeedsFallback == /\ mon.pc # "off" /\ ~mon.cleanup /\ ~mon.fallback /\ ~mon.ended

JoinMonitor ==
    /\ At("join")
    /\ \/ mon.pc \in {"off", "done"} /\ UNCHANGED slow
       \/ mon.pc \in MonBusy /\ slow < MaxSlow /\ slow' = slow + 1
    /\ Goto(IF NeedsFallback THEN "fallback" ELSE IF Rescuing THEN "abandon" ELSE "score")
    /\ UNCHANGED <<env, sess, threads, dist, cleaning, stop, faults>>

Fallback(ok) ==
    /\ At("fallback") /\ Try(ok)
    /\ IF ok THEN Remove("monitor") ELSE env' = env
    /\ mon' = [mon EXCEPT !.fallback = TRUE]
    /\ Goto(IF Rescuing THEN "abandon" ELSE "score")
    /\ UNCHANGED <<sess, late, overtime, seer, dist, cleaning, stop, slow>>

\* _score_platform_ended_session
Score ==
    /\ At("score")
    /\ sess' = [sess EXCEPT !.report = IF overtime /\ @ = "cancelled" THEN "ended" ELSE @]
    /\ Goto(IF camp.kind = "D5" /\ dist.rec = "open" THEN "d5wait" ELSE "finalize")
    /\ UNCHANGED <<env, threads, dist, cleaning, stop, faults, slow>>

\* mutant: only a restoration that succeeded ends the wait
AwaitSuccess ==
    /\ At("d5wait")
    /\ \/ dist.timer = "done" /\ Goto("finalize") /\ UNCHANGED faults
       \/ dist.timer = "restoring" /\ Try(FALSE) /\ Raise
    /\ UNCHANGED <<env, sess, threads, dist, cleaning, stop, slow>>

\* wait_for_restoration joins the timer; one that hangs is an error
AwaitRestoration ==
    /\ At("d5wait")
    /\ \/ dist.timer \in {"done", "failed"} /\ Goto("finalize") /\ UNCHANGED faults
       \/ dist.timer = "restoring" /\ Try(FALSE) /\ Raise
    /\ UNCHANGED <<env, sess, threads, dist, cleaning, stop, slow>>
-----------------------------------------------------------------------------
(***************************************************************************)
(* The finalizer.  It reads the unified inventory, in which a fault of the *)
(* Agent's own counts as the trial's only with attribution and once seen.  *)
(***************************************************************************)
Credited == env.origin = "own" /\ Attribution /\ (env.noted \/ Live)
EverSeen == IF env.origin = "ledger" THEN env.ever ELSE Credited
AbsentSeen == IF Credited THEN ~Live ELSE ~OwnedLive
Reported == sess.report # "none"

FinPre(q) ==
    /\ At("finalize") /\ Try(q)
    /\ LET ever == q /\ EverSeen
           absent == q /\ AbsentSeen
       IN /\ fin' = [NotFinalized EXCEPT !.ever = ever, !.absent = absent]
          /\ Goto(IF ever /\ ~absent /\ ~(Reported /\ sess.asked) THEN "finwait"
                  ELSE "findestroy")
    /\ env' = [env EXCEPT !.noted = @ \/ (q /\ Credited)]
    /\ UNCHANGED <<sess, threads, dist, recovery, tidy, stop, slow>>

\* the fault's own timer is given its time; each read of the poll may fail, and
\* is then as good as none
FinWait(read) ==
    /\ At("finwait") /\ Goto("findestroy")
    /\ fin' = [fin EXCEPT !.absent = read /\ ~Live]
    /\ UNCHANGED <<env, sess, threads, dist, recovery, tidy, stop, faults, slow>>

\* cleanup_owned: the ledger's fault, or the credited one by its exact name
FinDestroy(ok) ==
    /\ At("findestroy") /\ Goto("finpost")
    /\ IF fin.absent THEN ok /\ UNCHANGED <<fin, env, faults>>
       ELSE /\ Try(ok) /\ fin' = [fin EXCEPT !.destroyed = ok]
            /\ IF ok /\ (OwnedLive \/ Credited) THEN Remove("finalizer") ELSE env' = env
    /\ UNCHANGED <<sess, threads, dist, recovery, tidy, stop, slow>>

\* mutant: an accepted request of the Agent is enough
CreditsAcceptance ==
    CASE ~fin.ever -> "NOT_APPLICABLE"
      [] fin.ever /\ env.origin = "ledger" /\ env.remover = "timer" -> "CONTROLLER_TIMER"
      [] OTHER -> IF Reported /\ sess.accepted /\ fin.absent THEN "AGENT_TOOL"
                  ELSE IF ~fin.absent \/ (Reported /\ (mon.fallback \/ seer.removed))
                  THEN "CONTROLLER_FALLBACK" ELSE "UNATTRIBUTED"

\* cleanup_executor: who is credited with ending the fault
CleanupExecutor ==
    CASE ~fin.ever -> "NOT_APPLICABLE"
      [] fin.ever /\ env.origin = "ledger" /\ env.remover = "timer" -> "CONTROLLER_TIMER"
      [] OTHER -> IF Reported /\ (mon.fallback \/ seer.removed) THEN "CONTROLLER_FALLBACK"
                  ELSE IF Reported /\ sess.accepted /\ fin.absent THEN "AGENT_TOOL"
                  ELSE IF ~fin.absent THEN "CONTROLLER_FALLBACK" ELSE "UNATTRIBUTED"

AfterFinal == Goto(IF Rescuing THEN "undo" ELSE IF camp.kind = "D8" THEN "caploss" ELSE "rollback")

\* mutant: the destroy was asked for, and the inventory can be read
AbsentOnceAsked(q) == q

FaultAbsent(q) == q /\ (fin.absent \/ fin.destroyed \/ ~OwnedLive)

FinPost(q) ==
    /\ At("finpost") /\ Try(q) /\ AfterFinal
    /\ recovery' = [made |-> TRUE, qualified |-> q, absent |-> FaultAbsent(q),
                    clear |-> q /\ ~Live, foreign |-> q /\ ForeignLive,
                    ever |-> fin.ever, by |-> CleanupExecutor]
    /\ UNCHANGED <<env, sess, threads, dist, fin, tidy, stop, slow>>

\* the evidence of the effect is read without a guard
FinRaises ==
    /\ At("finpost") /\ Try(FALSE)
    /\ IF Rescuing THEN Goto("undo") ELSE Raise
    /\ UNCHANGED <<env, sess, threads, dist, cleaning, stop, slow>>
-----------------------------------------------------------------------------
(***************************************************************************)
(* The disturbance is taken back, and the trial is judged.                 *)
(***************************************************************************)
\* finalize_capability_loss: its own errors become part of the report
CapabilityLossEnds(ok) ==
    /\ At("caploss") /\ Try(ok)
    /\ camp' = [camp EXCEPT !.pc = "rollback", !.finalized = TRUE]
    /\ dist' = IF dist.policy = "base" THEN dist
               ELSE IF ok THEN [dist EXCEPT !.policy = "base", !.rec = "rolled",
                                            !.attempt = "RESTORED"]
               ELSE [dist EXCEPT !.rec = "open", !.attempt = "APPLIED"]
    /\ UNCHANGED <<env, sess, threads, cleaning, stop, slow>>

Revoked == camp.kind \in {"D1", "D3", "D4"}

\* the replacement of a target cannot be taken back: that is left to the reset
Rollback(ok) ==
    /\ At("rollback")
    /\ IF Revoked /\ dist.rec = "open" THEN Try(ok) ELSE ok /\ UNCHANGED faults
    /\ CASE dist.rec = "none" ->
              dist' = [dist EXCEPT !.attempt = IF camp.kind = "C0" THEN @ ELSE "NOT_TRIGGERED"]
         [] dist.rec # "none" /\ camp.kind = "D8" -> UNCHANGED dist
         [] OTHER ->
              dist' = [dist EXCEPT
                  !.attempt = IF ok /\ (Revoked \/ dist.rec = "rolled") THEN "ROLLED_BACK"
                              ELSE "ROLLBACK_FAILED",
                  !.rec = IF ok /\ Revoked THEN "rolled" ELSE @,
                  !.policy = IF ok /\ Revoked THEN "base" ELSE @]
    /\ IF ok THEN Goto("evaluate") ELSE Raise
    /\ UNCHANGED <<env, sess, threads, cleaning, stop, slow>>

\* the verdict is data; a harness that failed makes the trial invalid
Evaluate(ok, valid) ==
    /\ At("evaluate") /\ Try(ok)
    /\ valid => sess.report \in {"completed", "ended"}
    /\ IF ok THEN camp' = [camp EXCEPT !.pc = "restore", !.valid = @ /\ valid] ELSE Raise
    /\ UNCHANGED <<env, sess, threads, dist, cleaning, stop, slow>>
-----------------------------------------------------------------------------
(***************************************************************************)
(* The handler of an exception and its emergency cleanup.                  *)
(***************************************************************************)
\* the capability of D8 is given back if that can be done: an error of
\* abort_capability_loss is swallowed (restored).  The attempt is written down
\* next: an error here skips the cleanup
Abandon(ok, restored) ==
    /\ At("abandon")
    /\ IF dist.attempt = "WAITING_TRIGGER" THEN Try(ok) ELSE ok /\ UNCHANGED faults
    /\ dist' = [dist EXCEPT
           !.policy = IF camp.kind = "D8" /\ ~camp.finalized /\ @ = "disturbed" /\ restored
                      THEN "base" ELSE @,
           !.attempt = IF @ = "WAITING_TRIGGER" THEN "NOT_TRIGGERED" ELSE @]
    /\ IF ok THEN Goto(IF camp.runtime /\ ~recovery.made THEN "finalize" ELSE "undo")
       ELSE OuterFail
    /\ UNCHANGED <<env, sess, threads, cleaning, stop, slow>>

\* what the rollback returns is kept as evidence only: the record stays open,
\* except in case D5, whose observer replaces it
Undo(ok) ==
    /\ At("undo") /\ Goto("restore")
    /\ CASE dist.rec = "open" /\ Revoked ->
              /\ Try(ok)
              /\ dist' = [dist EXCEPT !.policy = IF ok THEN "base" ELSE @]
         [] dist.rec = "open" /\ camp.kind = "D5" ->
              IF dist.timer = "failed" THEN ok /\ UNCHANGED <<dist, faults>>
              ELSE IF dist.timer = "restoring" THEN ~ok /\ Try(ok) /\ UNCHANGED dist
              ELSE Try(ok) /\ RestoreD5(ok)
         [] OTHER -> ok /\ UNCHANGED <<dist, faults>>
    /\ UNCHANGED <<env, sess, threads, cleaning, stop, slow>>
-----------------------------------------------------------------------------
(***************************************************************************)
(* Permissions and environment: _restore_and_reset.                        *)
(***************************************************************************)
Restore(ok) ==
    /\ At("restore") /\ Goto("reset")
    /\ IF camp.provisioned THEN Try(ok) ELSE ok /\ UNCHANGED faults
    /\ tidy' = [tidy EXCEPT !.restore = Mark(ok)]
    /\ dist' = IF ok THEN [dist EXCEPT !.policy = "none"] ELSE dist
    /\ UNCHANGED <<env, sess, threads, fin, recovery, stop, slow>>

Disturbed == dist.rec # "none"

ResetMutationEvidence ==
    LET made == recovery.made
        undoable == Disturbed /\ camp.kind # "D2"
        unsure == (made /\ Reported /\ sess.unsure) \/ (Disturbed /\ camp.kind = "D6")
        settled == IF Disturbed THEN camp.kind = "D6" => dist.outcome = "known"
                   ELSE fin.ever \/ fin.absent
    IN [k \in Keys |->
        CASE k = "permission_restore_verified" -> tidy.restore
          [] k = "cleanup_attempted" /\ made -> "yes"
          [] k \in {"cleanup_verified", "fault_absent"} /\ made -> Mark(recovery.absent)
          [] k = "main_fault_ever_active" /\ made -> Mark(recovery.ever)
          [] k = "chaos_inventory_clear" /\ made -> Mark(recovery.clear)
          [] k = "foreign_active_faults" /\ made -> Mark(recovery.foreign)
          [] k = "fault_inventory_qualified" /\ made -> Mark(recovery.qualified)
          [] k = "operation_outcome_uncertain" /\ (made \/ Disturbed) -> Mark(unsure)
          [] k = "operation_outcome_reconciled" /\ (made \/ Disturbed) -> Mark(settled)
          [] k = "permission_revoked" /\ Disturbed -> Mark(Revoked)
          [] k = "tool_channel_interrupted" /\ Disturbed -> Mark(camp.kind = "D5")
          [] k = "target_replaced" /\ Disturbed -> Mark(camp.kind = "D2")
          [] k = "rollback_attempted" /\ undoable -> "yes"
          [] k = "rollback_verified" /\ undoable -> Mark(dist.rec = "rolled")
          [] OTHER -> "none"]

\* the gate counts ChaosBlade experiments only
GateQualifies == env.sut = "up" /\ ~(Live /\ env.exec = "blade")
EvidenceSafe == ResetMutationEvidence["chaos_inventory_clear"] # "no"
Settle(pc, verdict, how) ==
    /\ Goto(pc)
    /\ tidy' = [tidy EXCEPT !.reset = verdict, !.treated = how]

\* reset_with_policy: verify the environment, withhold, or go and reinstall
Reset(ok, healthy) ==
    /\ At("reset")
    /\ LET how == Treatment(ResetMutationEvidence, "none")
       IN IF how # "verify"
          THEN /\ ok /\ ~healthy /\ UNCHANGED faults
               /\ IF how = "withhold" THEN Settle("conclude", "no", how)
                  ELSE Settle("preflight", "none", how)
          ELSE /\ Try(ok)
               /\ Settle("conclude", Mark(ok /\ healthy /\ GateQualifies /\ EvidenceSafe), how)
    /\ UNCHANGED <<env, sess, threads, dist, fin, recovery, stop, slow>>

\* nothing is uninstalled unless a dry run of the installation passed
Preflight(ok) ==
    /\ At("preflight") /\ Try(ok)
    /\ IF ok THEN /\ Goto("uninstall") /\ tidy' = [tidy EXCEPT !.preflight = TRUE]
       ELSE Settle("conclude", "no", "reinstall")
    /\ UNCHANGED <<env, sess, threads, dist, fin, recovery, stop, slow>>

Uninstall(ok) ==
    /\ At("uninstall") /\ Try(ok)
    /\ IF ok THEN Goto("deploy") /\ env' = [env EXCEPT !.sut = "down"] /\ UNCHANGED tidy
       ELSE Settle("conclude", "no", "reinstall") /\ UNCHANGED env
    /\ UNCHANGED <<sess, threads, dist, fin, recovery, stop, slow>>

Deploy(ok, healthy) ==
    /\ At("deploy") /\ Try(ok)
    /\ IF ok THEN /\ env' = [env EXCEPT !.sut = "up"]
                  /\ Settle("conclude", Mark(healthy /\ GateQualifies'), "reinstall")
       ELSE ~healthy /\ Settle("conclude", "no", "reinstall") /\ UNCHANGED env
    /\ UNCHANGED <<sess, threads, dist, fin, recovery, stop, slow>>

\* mutant: the reset alone decides whether the campaign goes on
TidiedByReset == tidy.reset = "yes"

Tidied == tidy.restore = "yes" /\ tidy.reset = "yes"

\* a rollback left to the reset is done when the reset is verified; an artifact
\* that cannot be written ends the campaign in its outer handler
Conclude(ok) ==
    /\ At("conclude") /\ Try(ok)
    /\ IF ~ok THEN OuterFail
       ELSE IF Rescuing THEN Finish(IF Tidied THEN "FAILED" ELSE "RESET_FAILED")
       ELSE IF Tidied /\ ~stop THEN Goto("next") ELSE Finish("BLOCKED")
    /\ dist' = [dist EXCEPT !.attempt = IF @ = "ROLLBACK_FAILED" /\ tidy.reset = "yes"
                                           /\ ~Rescuing
                                        THEN "ROLLED_BACK" ELSE @]
    /\ UNCHANGED <<env, sess, threads, cleaning, stop, slow>>
-----------------------------------------------------------------------------
AgentStep ==
    \/ PlanApproved \/ FaultSeen \/ RecoverySeen \/ LoseCapability
    \/ Trigger
    \/ \E exec \in {"blade", "mesh"} :
          AgentOwnCreate(exec) \/ \E applied \in BOOLEAN : AgentCreate(exec, applied)
    \/ \E ok \in BOOLEAN : AgentDestroy(ok)

\* what the campaign's own thread and the session's end do
CampaignStep ==
    \/ Gates \/ TrialBegin \/ CampaignOver \/ SessionRaises \/ FinishMonitor \/ JoinMonitor
    \/ Score \/ AwaitRestoration \/ FinRaises
    \/ \E report \in {"completed", "failed", "cancelled"} : SessionEnds(report)
    \/ \E ok \in BOOLEAN :
          \/ Prepare(ok) \/ Provision(ok) \/ Fallback(ok) \/ FinPre(ok) \/ FinDestroy(ok) \/ FinPost(ok)
          \/ CapabilityLossEnds(ok) \/ Rollback(ok) \/ Undo(ok) \/ FinWait(ok)
          \/ Restore(ok) \/ Preflight(ok) \/ Uninstall(ok) \/ Conclude(ok)
          \/ \E outcome \in {"known", "unknown"} : Apply(ok, outcome)
          \/ \E b \in BOOLEAN :
                Evaluate(ok, b) \/ Abandon(ok, b) \/ Reset(ok, b) \/ Deploy(ok, b)

TimerStep == TimerFires \/ \E ok \in BOOLEAN : TimerRestores(ok)

Next == /\ \/ Stop \/ AgentStep \/ FaultExpires \/ CampaignStep \/ MonStep \/ SeerStep
           \/ TimerStep
        /\ UNCHANGED cases

Spec == Init /\ [][Next]_vars

\* the campaign's thread and its helpers go on; the Agent, the operator and the
\* fault's own timer owe nothing (a session is bounded by its time limit)
FairSpec == Spec /\ WF_vars(CampaignStep /\ UNCHANGED cases)
            /\ WF_vars(MonStep /\ UNCHANGED cases) /\ WF_vars(TimerStep /\ UNCHANGED cases)
-----------------------------------------------------------------------------
(***************************************************************************)
(* Properties.                                                             *)
(***************************************************************************)
Places == {"gates", "next", "prepare", "provision", "session", "finish", "join",
           "fallback", "score", "d5wait", "finalize", "finwait", "findestroy", "finpost",
           "caploss", "rollback", "evaluate", "abandon", "undo", "restore", "reset",
           "preflight", "uninstall", "deploy", "conclude", "ended"}
Attempts == {"NOT_APPLICABLE", "WAITING_TRIGGER", "APPLYING", "APPLIED",
             "APPLICATION_FAILED", "RESTORED", "RESTORATION_FAILED", "ROLLED_BACK",
             "ROLLBACK_FAILED", "NOT_TRIGGERED"}

Camps == [pc : Places, mode : {"normal", "rescue"}, trial : Nat, kind : AllKinds,
          provisioned : BOOLEAN, runtime : BOOLEAN, finalized : BOOLEAN, valid : BOOLEAN,
          status : Ended \cup {"RUNNING"}, outer : BOOLEAN]
Environments ==
    [fault : {"none", "live"}, origin : {"ledger", "own"}, exec : {"blade", "mesh"},
     ever : BOOLEAN, noted : BOOLEAN, sut : {"up", "down"},
     remover : {"none", "agent", "timer", "self", "monitor", "observer", "finalizer"}]
Sessions ==
    [on : BOOLEAN, planned : BOOLEAN, seen : BOOLEAN,
     event : {"none", "accepted", "refused"}, asked : BOOLEAN, accepted : BOOLEAN,
     unsure : BOOLEAN, report : {"none", "completed", "failed", "cancelled", "ended"},
     cut : {"none", "stop", "overtime"}]
Monitors == [pc : {"off", "wait", "watch", "await", "done"} \cup MonBusy, stop : BOOLEAN,
             cleanup : BOOLEAN, fallback : BOOLEAN, ended : BOOLEAN]
Disturbances == [attempt : Attempts, rec : {"none", "open", "rolled"},
                 outcome : {"known", "unknown"}, policy : {"none", "base", "disturbed"},
                 timer : {"off", "set", "restoring", "done", "failed"}]
Readings == [absent : BOOLEAN, ever : BOOLEAN, destroyed : BOOLEAN]
Recoveries == [made : BOOLEAN, absent : BOOLEAN, clear : BOOLEAN, qualified : BOOLEAN,
               foreign : BOOLEAN, ever : BOOLEAN,
               by : {"none", "NOT_APPLICABLE", "CONTROLLER_TIMER", "CONTROLLER_FALLBACK",
                     "AGENT_TOOL", "UNATTRIBUTED"}]
Tidyings == [restore : Marks, reset : Marks, preflight : BOOLEAN,
             treated : {"none", "verify", "reinstall", "withhold"}]

\* Type correctness of the campaign's state (CampaignResult, the attempt record,
\* the monitor's result and the RecoveryResult of campaign.py).
TypeOK ==
    /\ cases \in Requests
    /\ camp \in Camps /\ camp.trial <= Len(cases)
    /\ env \in Environments /\ sess \in Sessions
    /\ mon \in Monitors /\ late \in 0..MaxSlow /\ overtime \in BOOLEAN
    /\ seer \in [armed : BOOLEAN, removed : BOOLEAN]
    /\ dist \in Disturbances
    /\ fin \in Readings /\ recovery \in Recoveries /\ tidy \in Tidyings
    /\ stop \in BOOLEAN /\ faults \in 0..MaxFaults /\ slow \in 0..MaxSlow

Settled == /\ env.sut = "up" /\ dist.policy = "none"
           /\ dist.timer \notin {"set", "restoring"}

\* What a campaign leaves behind is clean (the system under test installed, its
\* permissions taken back, no timer left, no fault) where the next trial starts
\* and where the campaign ends COMPLETED, or FAILED after a verified emergency
\* cleanup.  An end by an exception outside the trial's own handler is not
\* covered: nothing is cleaned after it.  And a fault may live on in two cases,
\* both of Chaos Mesh, which the environment gate does not count: the finalizer
\* raised, so that nobody asks for the inventory again; or it returned and told
\* the reset of a foreign fault, the Agent's own, whose reinstallation is then
\* verified by that gate alone.  A ChaosBlade fault, and a Chaos Mesh fault that
\* no finalizer reported, never does (campaign.py 1338-1437, reset.py 167-208 and
\* 265-281, runtime_adapters.py 149-164, fault_inventory.py 101-154).
LeftClean ==
    At("next") \/ camp.status = "COMPLETED" \/ (camp.status = "FAILED" /\ ~camp.outer) =>
        /\ Settled
        /\ Live => env.exec = "mesh" /\ (recovery.made => recovery.foreign)

\* The finalizer reports the fault of the trial absent only when it is
\* (finalization.py fault_absent), whoever was removing it meanwhile.
AbsenceIsReal == recovery.made /\ recovery.absent => ~OwnedLive

\* The Agent is credited with ending the fault only if it was the first to remove
\* it, unless a monitor thread was still at it when the session was judged
\* (finalization.py cleanup_executor).
AgentCreditIsEarned ==
    recovery.by = "AGENT_TOOL" => env.remover = "agent" \/ slow > 0

\* The system under test is taken down only after a dry run of its installation
\* passed, with no disturbance left applied but the replacement of the target,
\* and over no living fault of the trial (rule O04, reset.py 210-288).  The last
\* holds of every finalizer that returned.  Where it raised, the emergency
\* cleanup has no recovery to judge and does reinstall, whatever lives: the
\* rule's RECOVERY_RAISED (recovery_state.py 33) is a signal that nobody writes.
ReinstallIsJudged ==
    At("uninstall") \/ At("deploy") =>
        /\ tidy.preflight
        /\ dist.rec = "open" => camp.kind = "D2"
        /\ OwnedLive => Rescuing /\ ~recovery.made

\* A disturbance recorded as taken back has left no trace in the policy, whether
\* the timer, the rollback or the reset was first (campaign.py 948-1018,
\* runtime_adapters.py 708-759).
RolledBackIsTrue ==
    dist.attempt \in {"RESTORED", "ROLLED_BACK"} => dist.policy # "disturbed"

\* Every campaign ends: no helper thread, timer or wait holds it for ever.
CampaignEnds == <>(camp.status \in Ended)

=============================================================================
