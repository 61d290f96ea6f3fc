----------------------------- MODULE TaskControl -----------------------------
(***************************************************************************)
(* The Controller's task API: Stage2TaskService over its file store, the   *)
(* CampaignSupervisor that runs one campaign at a time, and the runtime    *)
(* lock they share with the qualification CLI.                             *)
(*                                                                         *)
(* Four kinds of threads meet on a task's status file.  API requests run   *)
(* in threads of their own (call); the control pool has one worker (ctl)   *)
(* that carries out aborts, resets and permission restores; a campaign     *)
(* runs in the supervisor's thread and reports events and its result; the  *)
(* condition monitor of a trial reports events from another thread, which  *)
(* finish() joins for a few seconds only.  Every access to a status file   *)
(* is one read or one locked update, and everything between is open.       *)
(* A restart of the process forgets the threads, the futures and the lock; *)
(* the files and the state of the environment stay.                        *)
(***************************************************************************)
EXTENDS Naturals, FiniteSets, Sequences

CONSTANTS
    Tasks, Callers, Keys,
    NoTask, Cli,    \* no task; the qualification CLI as holder of the lock
    MaxCalls,       \* bound: API requests
    MaxEvents,      \* bound: campaign events
    MaxTimeouts,    \* bound: stops that outlast the 900 seconds of the wait
    MaxRestarts     \* bound: restarts of the Controller process

ASSUME TaskAssumption ==
    /\ NoTask \notin Tasks /\ Cli \notin Tasks /\ Cli # NoTask
    /\ IsFiniteSet(Tasks)
    /\ {MaxCalls, MaxEvents, MaxTimeouts, MaxRestarts} \subseteq Nat

VARIABLES
    status, terminal, acts,  \* status.json: task_status, terminal, control_actions
    result,                  \* result.json
    keyFile,                 \* idempotency/<key>.json
    fut, stop,               \* the supervisor's futures and stop requests
    lease,                   \* the holder of the runtime lock
    call,                    \* the API request threads
    queue, ctl,              \* the control pool and its worker
    ev,                      \* the threads that report campaign events
    dirty, mutated,          \* whose mutation is in the environment, whose ever was
    late,                    \* tasks with an event handled after their result
    lost,                    \* tasks whose actions a write-back of an older read replaced
    calls, events, timeouts, restarts

files == <<status, terminal, acts, result, keyFile>>
supervisor == <<fut, stop, lease>>
world == <<dirty, mutated, late, lost>>
bounds == <<calls, events, timeouts, restarts>>
vars == <<status, terminal, acts, result, keyFile, fut, stop, lease, call,
          queue, ctl, ev, dirty, mutated, late, lost, calls, events, timeouts, restarts>>

Statuses == {"ABSENT", "QUEUED", "RUNNING", "HARNESS_RESPONDING", "COMPLETED",
             "FAILED", "ABORTING", "ABORTED", "RECOVERY_FAILED"}
ControlHeld == {"ABORTING", "ABORTED", "RECOVERY_FAILED"}
Actions == {"abort", "environment_reset", "permission_restore"}
ControlStates == {"REQUESTED", "RUNNING"}
ActStates == ControlStates \cup {"NONE", "SUCCEEDED", "PARTIAL", "FAILED"}
Futures == {"NONE", "PENDING", "RUNNING", "DONE", "FAILED", "CANCELLED"}
Results == {"none", "untouched", "unclean", "mutated"}
Emitters == {"run", "monitor"}
Kinds == {"progress", "question", "answer"}

CallPcs == {"idle", "gate", "runs", "store", "bind", "submit", "reject",
            "start", "write"}
CtlPcs == {"idle", "mark", "stop", "wait", "recover", "label", "restore",
           "fin", "fin2"}

Requests == [pc : CallPcs, act : Actions, task : Tasks \cup {NoTask},
             key : Keys \cup {NoTask}, seen : [Actions -> ActStates],
             status : Statuses, fresh : BOOLEAN]
Workers == [pc : CtlPcs, task : Tasks \cup {NoTask}, act : Actions,
            seen : [Actions -> ActStates],
            outcome : {"SUCCEEDED", "PARTIAL", "FAILED"}, escaped : BOOLEAN]
Reports == [pc : {"idle", "write", "label"}, task : Tasks \cup {NoTask},
            kind : Kinds, held : BOOLEAN]

Request(pc, act, task, key) ==
    [pc |-> pc, act |-> act, task |-> task, key |-> key,
     seen |-> [a \in Actions |-> "NONE"], status |-> "ABSENT", fresh |-> FALSE]
IdleCall == Request("idle", "abort", NoTask, NoTask)
IdleCtl == [pc |-> "idle", task |-> NoTask, act |-> "abort",
            seen |-> [a \in Actions |-> "NONE"], outcome |-> "SUCCEEDED",
            escaped |-> FALSE]
IdleEv == [pc |-> "idle", task |-> NoTask, kind |-> "progress", held |-> FALSE]

InFlight == {t \in Tasks : fut[t] \in {"PENDING", "RUNNING"}}
Poisoned == {t \in Tasks : fut[t] \in {"FAILED", "CANCELLED"}}
Unresolved(t) ==
    \/ status[t] = "RECOVERY_FAILED"
    \/ \E a \in Actions : acts[t][a] \in ControlStates \cup {"PARTIAL", "FAILED"}

Init ==
    /\ status = [t \in Tasks |-> "ABSENT"]
    /\ terminal = [t \in Tasks |-> FALSE]
    /\ acts = [t \in Tasks |-> [a \in Actions |-> "NONE"]]
    /\ result = [t \in Tasks |-> "none"]
    /\ keyFile = [k \in Keys |-> NoTask]
    /\ fut = [t \in Tasks |-> "NONE"]
    /\ stop = {} /\ lease = NoTask
    /\ call = [c \in Callers |-> IdleCall]
    /\ queue = <<>> /\ ctl = IdleCtl
    /\ ev = [e \in Emitters |-> IdleEv]
    /\ dirty = {} /\ mutated = {} /\ late = {} /\ lost = {}
    /\ calls = 0 /\ events = 0 /\ timeouts = 0 /\ restarts = 0

Goto(c, pc) == call' = [call EXCEPT ![c].pc = pc]
Return(c) == call' = [call EXCEPT ![c] = IdleCall]
Label(t, s, over) ==
    /\ status' = [status EXCEPT ![t] = s]
    /\ terminal' = [terminal EXCEPT ![t] = over]

\* The actions of a task are written back as they were read, one of them changed.
WriteBack(t, seen, a, state) ==
    /\ acts' = [acts EXCEPT ![t] = [seen EXCEPT ![a] = state]]
    /\ lost' = IF seen = acts[t] THEN lost ELSE lost \cup {t}
----------------------------------------------------------------------------
(***************************************************************************)
(* create                                                                  *)
(***************************************************************************)

\* find_idempotent; a key that names a task answers with that task.
CreateBegin(c, k) ==
    /\ call[c].pc = "idle" /\ calls < MaxCalls
    /\ calls' = calls + 1
    /\ IF keyFile[k] # NoTask
       THEN UNCHANGED call
       ELSE call' = [call EXCEPT ![c] = Request("gate", "abort", NoTask, k)]
    /\ UNCHANGED <<files, supervisor, queue, ctl, ev, world, events, timeouts, restarts>>

\* Mutant: only the label of a failed recovery is looked at.
CreateGateLabels(c) ==
    /\ call[c].pc = "gate"
    /\ IF \E t \in Tasks : status[t] = "RECOVERY_FAILED"
       THEN Return(c)
       ELSE call' = [call EXCEPT ![c].pc = "runs", ![c].fresh = TRUE]
    /\ UNCHANGED <<files, supervisor, queue, ctl, ev, world, bounds>>

\* has_unresolved_recovery over every task on disk.
CreateGate(c) ==
    /\ call[c].pc = "gate"
    /\ IF \E t \in Tasks : Unresolved(t)
       THEN Return(c)
       ELSE call' = [call EXCEPT ![c].pc = "runs", ![c].fresh = TRUE]
    /\ UNCHANGED <<files, supervisor, queue, ctl, ev, world, bounds>>

\* list_runs: a live campaign is a conflict, and a future that failed or was
\* cancelled raises; the preflight and the validation may refuse as well.
CreateRuns(c) ==
    /\ call[c].pc = "runs"
    /\ \/ Return(c)
       \/ InFlight \cup Poisoned = {} /\ Goto(c, "store")
    /\ UNCHANGED <<files, supervisor, queue, ctl, ev, world, bounds>>

\* store.create writes the task directory ...
CreateStore(c, t) ==
    /\ call[c].pc = "store" /\ status[t] = "ABSENT"
    /\ Label(t, "QUEUED", FALSE)
    /\ call' = [call EXCEPT ![c].pc = "bind", ![c].task = t]
    /\ UNCHANGED <<acts, result, keyFile, supervisor, queue, ctl, ev, world, bounds>>

\* ... and the file of the key last.
CreateBind(c) ==
    /\ call[c].pc = "bind"
    /\ keyFile' = [keyFile EXCEPT ![call[c].key] = call[c].task]
    /\ Goto(c, "submit")
    /\ UNCHANGED <<status, terminal, acts, result, supervisor, queue, ctl, ev, world, bounds>>

\* Mutant: the runtime lock is not taken.
CreateSubmitUnlocked(c) ==
    /\ call[c].pc = "submit"
    /\ IF InFlight = {}
       THEN fut' = [fut EXCEPT ![call[c].task] = "PENDING"] /\ Return(c)
       ELSE Goto(c, "reject") /\ UNCHANGED fut
    /\ UNCHANGED <<files, lease, stop, queue, ctl, ev, world, bounds>>

\* CampaignSupervisor.submit, under its lock: no other future is live and
\* the runtime lock is free, or it raises a RuntimeError.
CreateSubmit(c) ==
    /\ call[c].pc = "submit"
    /\ IF InFlight = {} /\ lease = NoTask
       THEN /\ lease' = call[c].task
            /\ fut' = [fut EXCEPT ![call[c].task] = "PENDING"]
            /\ Return(c)
       ELSE Goto(c, "reject") /\ UNCHANGED <<lease, fut>>
    /\ UNCHANGED <<files, stop, queue, ctl, ev, world, bounds>>

CreateReject(c) ==
    /\ call[c].pc = "reject"
    /\ Label(call[c].task, "FAILED", TRUE)
    /\ Return(c)
    /\ UNCHANGED <<acts, result, keyFile, supervisor, queue, ctl, ev, world, bounds>>
----------------------------------------------------------------------------
(***************************************************************************)
(* abort, reset_environment, restore_permissions: the request              *)
(***************************************************************************)

\* abort refuses a task that finished on its own; the others do not look.
ControlBegin(c, a, t) ==
    /\ call[c].pc = "idle" /\ calls < MaxCalls /\ status[t] # "ABSENT"
    /\ calls' = calls + 1
    /\ IF a = "abort" /\ terminal[t] /\ acts[t]["abort"] = "NONE"
       THEN UNCHANGED call
       ELSE call' = [call EXCEPT ![c] = Request("start", a, t, NoTask)]
    /\ UNCHANGED <<files, supervisor, queue, ctl, ev, world, events, timeouts, restarts>>

\* _start_control reads the status file: another active action is a
\* conflict, the same action active or done is answered as it is.  same:
\* whether the details of the request are those of the action that is done.
ControlStart(c, same) ==
    LET t == call[c].task
        a == call[c].act
    IN
    /\ call[c].pc = "start"
    /\ IF \/ \E b \in Actions \ {a} : acts[t][b] \in ControlStates
          \/ acts[t][a] \in ControlStates
          \/ acts[t][a] = "SUCCEEDED" /\ same
       THEN Return(c)
       ELSE call' = [call EXCEPT ![c].pc = "write", ![c].seen = acts[t],
                                 ![c].status = status[t]]
    /\ UNCHANGED <<files, supervisor, queue, ctl, ev, world, bounds>>

\* ... and writes back the actions and the status it read; a restore of
\* permissions writes the status it read as it was.
ControlWrite(c) ==
    LET t == call[c].task
        a == call[c].act
    IN
    /\ call[c].pc = "write"
    /\ WriteBack(t, call[c].seen, a, "REQUESTED")
    /\ status' = [status EXCEPT ![t] =
           IF a = "permission_restore" THEN call[c].status ELSE "ABORTING"]
    /\ queue' = Append(queue, <<t, a>>)
    /\ call' = [d \in Callers |->
           IF d = c THEN IdleCall ELSE [call[d] EXCEPT !.fresh = FALSE]]
    /\ UNCHANGED <<terminal, result, keyFile, supervisor, ctl, ev, dirty, mutated, late, bounds>>
----------------------------------------------------------------------------
(***************************************************************************)
(* The worker of the control pool                                          *)
(***************************************************************************)

\* _run_control begins; _update_control reads the actions ...
CtlTake ==
    /\ ctl.pc = "idle" /\ queue # <<>>
    /\ ctl' = [pc |-> "mark", task |-> Head(queue)[1], act |-> Head(queue)[2],
                seen |-> acts[Head(queue)[1]], outcome |-> "SUCCEEDED",
                escaped |-> FALSE]
    /\ queue' = Tail(queue)
    /\ UNCHANGED <<files, supervisor, call, ev, world, bounds>>

\* ... and writes them back.
CtlMark ==
    /\ ctl.pc = "mark"
    /\ WriteBack(ctl.task, ctl.seen, ctl.act, "RUNNING")
    /\ ctl' = [ctl EXCEPT !.pc =
           IF ctl.act = "permission_restore" THEN "restore" ELSE "stop"]
    /\ UNCHANGED <<status, terminal, result, keyFile, supervisor, queue, call, ev, dirty, mutated,
                   late, bounds>>

\* The create of this task has not submitted its campaign yet.
Submitting(t) == \E c \in Callers : call[c].task = t /\ call[c].pc \in {"bind", "submit"}

\* Nothing to stop when the supervisor does not know the task, which is also
\* so while its create is under way; the campaign then escapes the abort.
\* request_stop sets the stop event and cancels a future not yet started.
CtlStop ==
    /\ ctl.pc = "stop"
    /\ IF fut[ctl.task] = "NONE"
       THEN /\ ctl' = [ctl EXCEPT !.pc = "recover", !.escaped = Submitting(ctl.task)]
            /\ UNCHANGED <<fut, stop>>
       ELSE /\ stop' = stop \cup {ctl.task}
            /\ fut' = [fut EXCEPT ![ctl.task] = IF @ = "PENDING" THEN "CANCELLED" ELSE @]
            /\ ctl' = [ctl EXCEPT !.pc = "wait"]
    /\ UNCHANGED <<files, lease, queue, call, ev, world, bounds>>

\* wait_result: the exception of a failed or cancelled campaign is raised,
\* the wait is over after 900 seconds.
CtlWait ==
    /\ ctl.pc = "wait"
    /\ \/ /\ fut[ctl.task] = "DONE"
          /\ ctl' = [ctl EXCEPT !.pc = "recover"]
          /\ UNCHANGED timeouts
       \/ /\ fut[ctl.task] \in {"FAILED", "CANCELLED"}
          /\ ctl' = [ctl EXCEPT !.pc = "fin", !.outcome = "FAILED"]
          /\ UNCHANGED timeouts
       \/ /\ fut[ctl.task] = "RUNNING" /\ timeouts < MaxTimeouts
          /\ timeouts' = timeouts + 1
          /\ ctl' = [ctl EXCEPT !.pc = "recover", !.escaped = TRUE]
    /\ UNCHANGED <<files, supervisor, queue, call, ev, world, calls, events, restarts>>

\* Mutant: a result that was never written counts as clean.
UntouchedByDefault(t, a) == a = "abort" /\ result[t] \in {"none", "untouched"}

\* _abort_environment_result: what the result says of the trials, an
\* independent check when they recorded no mutation, else the full reset.
Untouched(t, a) == a = "abort" /\ result[t] = "untouched"
Verified(t, a) == a = "abort" /\ result[t] # "mutated" /\ dirty = {}

\* The permissions are revoked and the environment is verified or reset;
\* either may come back unverified, and either may raise.
CtlRecover ==
    /\ ctl.pc = "recover"
    /\ \/ /\ Untouched(ctl.task, ctl.act) \/ Verified(ctl.task, ctl.act)
          /\ ctl' = [ctl EXCEPT !.pc = "label", !.outcome = "SUCCEEDED"]
          /\ UNCHANGED dirty
       \/ /\ ~Untouched(ctl.task, ctl.act)
          /\ dirty' = {}
          /\ ctl' = [ctl EXCEPT !.pc = "label", !.outcome = "SUCCEEDED"]
       \/ /\ ctl' = [ctl EXCEPT !.pc = "label", !.outcome = "PARTIAL"]
          /\ UNCHANGED dirty
       \/ /\ ctl' = [ctl EXCEPT !.pc = "fin", !.outcome = "FAILED"]
          /\ UNCHANGED dirty
    /\ UNCHANGED <<files, supervisor, queue, call, ev, mutated, late, lost, bounds>>

CtlLabel ==
    /\ ctl.pc = "label"
    /\ Label(ctl.task, IF ctl.outcome = "SUCCEEDED" THEN "ABORTED" ELSE "RECOVERY_FAILED", TRUE)
    /\ ctl' = [ctl EXCEPT !.pc = "fin"]
    /\ UNCHANGED <<acts, result, keyFile, supervisor, queue, call, ev, world, bounds>>

CtlRestore ==
    /\ ctl.pc = "restore"
    /\ \E o \in {"SUCCEEDED", "PARTIAL", "FAILED"} :
           ctl' = [ctl EXCEPT !.pc = "fin", !.outcome = o]
    /\ UNCHANGED <<files, supervisor, queue, call, ev, world, bounds>>

CtlFinRead ==
    /\ ctl.pc = "fin"
    /\ ctl' = [ctl EXCEPT !.pc = "fin2", !.seen = acts[ctl.task]]
    /\ UNCHANGED <<files, supervisor, queue, call, ev, world, bounds>>

\* Mutant: an action whose worker raised is left as it was.
CtlFinWriteSilent ==
    /\ ctl.pc = "fin2"
    /\ IF ctl.outcome = "FAILED" THEN UNCHANGED <<acts, lost>>
       ELSE WriteBack(ctl.task, ctl.seen, ctl.act, ctl.outcome)
    /\ ctl' = IdleCtl
    /\ UNCHANGED <<status, terminal, result, keyFile, supervisor, queue, call, ev, dirty, mutated,
                   late, bounds>>

CtlFinWrite ==
    /\ ctl.pc = "fin2"
    /\ WriteBack(ctl.task, ctl.seen, ctl.act, ctl.outcome)
    /\ ctl' = IdleCtl
    /\ UNCHANGED <<status, terminal, result, keyFile, supervisor, queue, call, ev, dirty, mutated,
                   late, bounds>>
----------------------------------------------------------------------------
(***************************************************************************)
(* The campaign and what it reports                                        *)
(***************************************************************************)
Free(t) == fut[t] = "RUNNING" /\ ev["run"].pc = "idle"

CampaignStart(t) ==
    /\ fut[t] = "PENDING"
    /\ fut' = [fut EXCEPT ![t] = "RUNNING"]
    /\ UNCHANGED <<files, stop, lease, call, queue, ctl, ev, world, bounds>>

\* A fault or a disturbance, and the trial's own recovery.
CampaignMutate(t) ==
    /\ Free(t) /\ t \notin dirty
    /\ dirty' = dirty \cup {t} /\ mutated' = mutated \cup {t}
    /\ UNCHANGED <<files, supervisor, call, queue, ctl, ev, late, lost, bounds>>

CampaignRecover(t) ==
    /\ Free(t) /\ t \in dirty
    /\ dirty' = dirty \ {t}
    /\ UNCHANGED <<files, supervisor, call, queue, ctl, ev, mutated, late, lost, bounds>>

\* What _abort_environment_result will find in the result: a mutation of
\* some trial; none and every trial verified clean; or neither.
Recorded(t) ==
    IF t \in mutated THEN "mutated" ELSE IF dirty = {} THEN "untouched" ELSE "unclean"

\* _on_campaign_result writes the result and reads the status ...
CampaignResult(t) ==
    /\ Free(t)
    /\ result' = [result EXCEPT ![t] = Recorded(t)]
    /\ ev' = [ev EXCEPT !["run"] = [pc |-> "label", task |-> t, kind |-> "progress",
                                    held |-> status[t] \in ControlHeld]]
    /\ UNCHANGED <<status, terminal, acts, keyFile, supervisor, call, queue, ctl, world, bounds>>

\* Mutant: the label is written without the terminal flag.
CampaignDoneOpen ==
    LET t == ev["run"].task IN
    /\ ev["run"].pc = "label"
    /\ IF ev["run"].held
       THEN UNCHANGED <<status, terminal>>
       ELSE Label(t, "COMPLETED", FALSE)
    /\ fut' = [fut EXCEPT ![t] = "DONE"]
    /\ lease' = NoTask
    /\ ev' = [ev EXCEPT !["run"] = IdleEv]
    /\ UNCHANGED <<acts, result, keyFile, stop, call, queue, ctl, world, bounds>>

\* ... and labels the task; then the lock is released and the future done.
CampaignDone ==
    LET t == ev["run"].task IN
    /\ ev["run"].pc = "label"
    /\ IF ev["run"].held
       THEN UNCHANGED <<status, terminal>>
       ELSE Label(t, "COMPLETED", TRUE)
    /\ fut' = [fut EXCEPT ![t] = "DONE"]
    /\ lease' = NoTask
    /\ ev' = [ev EXCEPT !["run"] = IdleEv]
    /\ UNCHANGED <<acts, result, keyFile, stop, call, queue, ctl, world, bounds>>

\* Mutant: the lock is released on the normal way out only.
CampaignRaiseHolding(t) ==
    /\ Free(t)
    /\ fut' = [fut EXCEPT ![t] = "FAILED"]
    /\ UNCHANGED <<files, lease, stop, call, queue, ctl, ev, world, bounds>>

\* The runner raises: the lock is released, no result is written.
CampaignRaise(t) ==
    /\ Free(t)
    /\ fut' = [fut EXCEPT ![t] = "FAILED"]
    /\ lease' = NoTask
    /\ UNCHANGED <<files, stop, call, queue, ctl, ev, world, bounds>>

\* _on_campaign_event reads the status ...  The monitor's thread may still
\* report when the campaign is over.
EventRead(e, t, k) ==
    /\ ev[e].pc = "idle" /\ events < MaxEvents
    /\ \/ fut[t] = "RUNNING" /\ (e = "monitor" => k = "progress")
       \/ fut[t] = "DONE" /\ e = "monitor" /\ k = "progress"
    /\ events' = events + 1
    /\ ev' = [ev EXCEPT ![e] = [pc |-> "write", task |-> t, kind |-> k,
                                held |-> status[t] \in ControlHeld]]
    /\ UNCHANGED <<files, supervisor, call, queue, ctl, world, calls, timeouts, restarts>>

\* ... and updates it: a question or its answer sets the status whether or
\* not a control action holds the task.
EventWrite(e) ==
    LET t == ev[e].task IN
    /\ ev[e].pc = "write"
    /\ status' = [status EXCEPT ![t] =
           CASE ev[e].kind = "question" -> "HARNESS_RESPONDING"
             [] ev[e].kind = "answer" -> "RUNNING"
             [] OTHER -> IF ev[e].held THEN @ ELSE "RUNNING"]
    /\ terminal' = [terminal EXCEPT ![t] = IF ev[e].held THEN @ ELSE FALSE]
    /\ ev' = [ev EXCEPT ![e] = IdleEv]
    /\ late' = IF result[t] # "none" /\ e = "monitor" THEN late \cup {t} ELSE late
    /\ UNCHANGED <<acts, result, keyFile, supervisor, call, queue, ctl, dirty, mutated, lost, bounds>>

\* The qualification CLI takes and releases the same lock.
CliRun ==
    /\ \/ lease = NoTask /\ lease' = Cli
       \/ lease = Cli /\ lease' = NoTask
    /\ UNCHANGED <<files, fut, stop, call, queue, ctl, ev, world, bounds>>

Restart ==
    /\ restarts < MaxRestarts
    /\ restarts' = restarts + 1
    /\ fut' = [t \in Tasks |-> "NONE"]
    /\ stop' = {}
    /\ lease' = IF lease = Cli THEN Cli ELSE NoTask
    /\ call' = [c \in Callers |-> IdleCall]
    /\ queue' = <<>> /\ ctl' = IdleCtl
    /\ ev' = [e \in Emitters |-> IdleEv]
    /\ UNCHANGED <<files, world, calls, events, timeouts>>
----------------------------------------------------------------------------
CallStep(c) ==
    \/ CreateGate(c) \/ CreateRuns(c) \/ CreateBind(c)
    \/ CreateSubmit(c) \/ CreateReject(c)
    \/ \E t \in Tasks : CreateStore(c, t)
    \/ \E same \in BOOLEAN : ControlStart(c, same)
    \/ ControlWrite(c)
CtlStep ==
    \/ CtlTake \/ CtlMark \/ CtlStop \/ CtlWait \/ CtlRecover
    \/ CtlLabel \/ CtlRestore \/ CtlFinRead \/ CtlFinWrite
RunStep == CampaignDone \/ \E t \in Tasks : CampaignStart(t)

Next ==
    \/ \E c \in Callers : CallStep(c)
    \/ \E c \in Callers, k \in Keys : CreateBegin(c, k)
    \/ \E c \in Callers, a \in Actions, t \in Tasks : ControlBegin(c, a, t)
    \/ CtlStep \/ RunStep
    \/ \E t \in Tasks : CampaignMutate(t) \/ CampaignRecover(t)
                        \/ CampaignResult(t) \/ CampaignRaise(t)
    \/ \E e \in Emitters, t \in Tasks, k \in Kinds : EventRead(e, t, k)
    \/ \E e \in Emitters : EventWrite(e)
    \/ CliRun
    \/ Restart

Spec == Init /\ [][Next]_vars

\* The threads of the process run; a campaign ends by its deadline; the
\* operator, the CLI and the restarts come when they come.
Fairness ==
    /\ \A c \in Callers : WF_vars(CallStep(c))
    /\ WF_vars(CtlStep) /\ WF_vars(RunStep)
    /\ \A e \in Emitters : WF_vars(EventWrite(e))
    /\ \A t \in Tasks : WF_vars(CampaignResult(t))
FairSpec == Spec /\ Fairness
----------------------------------------------------------------------------
(***************************************************************************)
(* Properties                                                              *)
(***************************************************************************)

\* Every variable has its type.
TypeOK ==
    /\ status \in [Tasks -> Statuses]
    /\ terminal \in [Tasks -> BOOLEAN]
    /\ acts \in [Tasks -> [Actions -> ActStates]]
    /\ result \in [Tasks -> Results]
    /\ keyFile \in [Keys -> Tasks \cup {NoTask}]
    /\ fut \in [Tasks -> Futures]
    /\ stop \subseteq Tasks
    /\ lease \in Tasks \cup {NoTask, Cli}
    /\ call \in [Callers -> Requests]
    /\ queue \in Seq(Tasks \X Actions)
    /\ ctl \in Workers
    /\ ev \in [Emitters -> Reports]
    /\ dirty \subseteq Tasks /\ mutated \subseteq Tasks
    /\ late \subseteq Tasks /\ lost \subseteq Tasks
    /\ calls \in Nat /\ events \in Nat /\ timeouts \in Nat /\ restarts \in Nat

\* A campaign that is pending or running holds the runtime lock, so there is
\* never a second one and never a qualification beside it; and a task keeps
\* the lock beyond its campaign only when a stop cancelled the campaign
\* before its thread started, so that _run_request never released it.
LeaseHeldExactly ==
    /\ \A t \in InFlight : lease = t
    /\ lease \in Tasks => fut[lease] \in {"PENDING", "RUNNING", "CANCELLED"}

\* No task is created over an unresolved recovery of any task, unless the
\* request for that recovery was written after create looked, or was no longer
\* on disk when create looked: the actions are read and written back without a
\* lock, and two requests for one task, or a request and the control worker,
\* may replace each other's entry.
CreateExcludesRecovery ==
    [][\A t \in Tasks :
          status[t] = "ABSENT" /\ status'[t] # "ABSENT" =>
              \/ \A u \in Tasks \ lost : ~Unresolved(u)
              \/ \E c \in Callers : call[c].pc = "store" /\ ~call[c].fresh
                                    /\ call'[c].task = t]_vars

\* A task that the control worker labels ABORTED has left nothing of its own
\* in the environment, whatever its result recorded, unless its campaign escaped
\* the abort: it outlasted the wait, or create submitted it after the abort
\* looked.  (A permission restore may write an older label back.)
AbortedIsClean ==
    [][ctl.pc = "label" /\ ctl'.pc = "fin" /\ status'[ctl.task] = "ABORTED" /\ ~ctl.escaped
       => ctl.task \notin dirty']_vars

\* Every control action that was requested ends, whatever other requests
\* overwrote its entry in the meantime, unless the process restarts: after a
\* restart nothing carries it on and a repeated request is answered with it.
ControlSettles ==
    \A t \in Tasks, a \in Actions :
        (acts[t][a] \in ControlStates)
            ~> (acts[t][a] \notin ControlStates \/ restarts > 0)

\* A task whose campaign was accepted reaches a terminal status and keeps
\* it, unless the process restarts, the runner raises or is cancelled, its
\* recovery raises, a stop outlasts the wait for the campaign, or the monitor
\* reports after the result.
TaskSettles ==
    \A t \in Tasks :
        (fut[t] = "PENDING")
            ~> (\/ [](terminal[t])
                \/ restarts > 0 \/ timeouts > 0 \/ t \in Poisoned \/ t \in late
                \/ \E a \in Actions : acts[t][a] = "FAILED")

(***************************************************************************)
(* The abstract use of the environment that the task API implements.       *)
(***************************************************************************)
Phase(t) ==
    CASE fut[t] = "NONE" -> "idle"
      [] fut[t] = "PENDING" -> "granted"
      [] fut[t] = "RUNNING" -> "working"
      [] OTHER -> "over"

Environment == INSTANCE EnvironmentUse
    WITH Users <- Tasks, Outside <- Cli, Nobody <- NoTask,
         holder <- lease, phase <- [t \in Tasks |-> Phase(t)]

\* Campaigns use the environment one at a time whatever requests, stops,
\* timeouts, late events and restarts come in between: every step of the
\* task API is a step of EnvironmentUse or leaves the environment alone.
UsesEnvironment == Environment!Spec
============================================================================
