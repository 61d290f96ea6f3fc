# A TLA+ verification of the Resilience Benchmark

The Resilience Benchmark lets an AI agent plan and run chaos experiments against
a replica of a system under test, disturbs the agent while it works, and scores
what it did.  Its results can be trusted only if faults go into the cluster and
come out again as recorded, if a failure is filed as the platform's or the
agent's rightly, and if one trial leaves nothing behind for the next.  The parts
that decide this are concurrent, fail half-way and survive restarts.  This
directory models seven of them, step by step:

| Module | Part of the system |
|---|---|
| `ChaosControl` | controlled execution (`mcp_servers/chaos_core`): the only way an agent can put a fault into the cluster, and what takes it out again |
| `FleetDispatch` | the Fleet dispatcher (`fleet_service`): which trial runs where, what is run again, whose failure it was |
| `TaskControl` | the Controller's task API, its supervisor and the runtime lock (`stage2_service/task_service`, `api`, `runtime_lock`) |
| `TrialCampaign` | one campaign: trials, disturbances, finalisation, rollback, reset (`stage2_service/campaign` and its helpers) |
| `ToolGate` | the boundary that tool calls pass when a capability is taken away (`capability_loss`, `audit_bridge`) |
| `HarnessSession` | the conversation with an agent: turns, feedback, questions, repairs (`session`, `harness_runtime`) |
| `RunControl` | the older run control plane: run store, leases, workflows and workers (`controller/*`, `progression/*`) |

TLC checks all of them on small instances; TLAPS proves every safety property those
runs check, in all seven, for every value of the constants (section 5 names the few
hypotheses), and that `TaskControl` implements the abstract specification
`EnvironmentUse`.  Liveness is checked by TLC only.
`PROJECT.json` lists components, runs, mutants, the map from definitions to
source lines, hazards and theorems.

## 1. Inventory

### Components and their state

| Component | State it keeps | Operations | Here |
|---|---|---|---|
| `mcp_servers/chaos_core` service, gates, ledger | one JSON entry per cleanup handle, in a directory shared by all executors; a file lock over it | `create_experiment`, `operation_status`, `recovery_status`, `destroy_experiment`, `cleanup_expired_leases` | `ChaosControl` |
| `chaos_core/backends` (ChaosBlade, Chaos Mesh) | the chaos resources; for Chaos Mesh a fence label on the target Pod | create, get, list, delete, prepare and clear fence | `ChaosControl` |
| `chaos_control`, `chaos_mesh_control` servers | a watchdog task each | periodic `cleanup_expired_leases` | `ChaosControl` |
| `stage2_service/preparation`, D2 | baseline capability files | issue, `fence`, `rebind`, `release_fence`; restart of the target | `ChaosControl` |
| `controller/safety` | none | `validate_action` | `ChaosControl` (the budget) |
| `fleet_service/scheduler`, `store` | SQLite tables of batches, items and slots; in memory the stopped batches | `submit_batch`, `tick` = `poll_running`; `dispatch_queued` | `FleetDispatch` |
| `fleet_service/api`, `controller_client`, `provisioner` | none of their own | `stop_batch`, `refresh_slot`, `drain_slot` | `FleetDispatch` |
| `stage2_service/task_service`, `api` | status, result and key files per task; futures and stop events in memory | `create`, `abort`, `reset_environment`, `restore_permissions`, the campaign's callbacks | `TaskControl` |
| `stage2_service/runtime_lock` | a locked file | acquire, release | `TaskControl`, `EnvironmentUse` |
| `stage2_service/campaign`, `finalization`, `runtime_factory` | the trial at hand, disturbance records, recovery result | `run`, `_emergency_cleanup`, `_restore_and_reset`, `finalize` | `TrialCampaign` |
| `condition_monitor`, `foreign_fault_observer` | a thread each, what it did and when | arm, finish, fallback cleanup | `TrialCampaign` |
| `runtime_adapters`, `disturbance`, `permissions` | D5 timers, policy snapshots, permission state | apply, rollback, wait for restoration, provision, restore | `TrialCampaign` |
| `reset`, `reset_policy`, `recovery_state` | none: a judgement over evidence, then commands | classify, verify, reinstall | `ResetPolicy`, `TrialCampaign` |
| `capability_loss`, `capability_policy`, `audit_bridge`, `http_runtime` | a state file and a policy file per trial | before and after each tool call, finish | `ToolGate` |
| `harness_channel`, `platform_ledger`, `notices` | decision file, ledger, notices with leases | confirm, submit; claim and deliver a notice | confirmations and reports in `ToolGate`, `HarnessSession`; notices not |
| `session`, `harness_runtime` | feedback queue, retry budget, open questions, native process | `wait`, `send_event`, the observers | `HarnessSession` |
| `controller/run_store`, `run_service`, workflows, workers | runs, worker leases and the mutation lease in SQLite; artifacts; heartbeat threads | claim, renew, transition, cleanup, each phase | `RunControl` |
| `progression` | one JSON checkpoint per Episode | `start_trial`, `record_result` | `Progression` |
| scoring, evaluators, plan schema, prompts, read-only MCP servers, code sandbox, D0 campaigns, backend, resilience agent, agent execution server | none shared, or queries and I/O | – | not modelled (section 7) |

### How they interact

The Fleet's dispatcher calls `create_run` of a slot's Controller over HTTP and
polls it.  The Controller's task service stores a task, takes the runtime lock and
runs one campaign in a thread.  The campaign issues a capability and permissions
for each trial and starts an agent in a harness session.  The agent calls the MCP
servers; each asks the Controller before it runs a tool, holds the capability
against its gates, writes the ledger and asks Kubernetes for the resource.  The
Controller may at the same moment replace the target Pod, withdraw a tool, close
a channel or lose an answer, and edits the files the servers are reading.  When the session is over
the campaign finalizes, rolls the disturbance back, restores permissions and
resets the environment, and reports to the task service, whose own control thread
may be aborting the same task.  The run control plane drives trials of its own
with leases in SQLite.

### What is hard here

* *Interleaving between awaits and between locks.*  Capability, Pod uid, budget,
  task status, lease and state file are all checked some steps before they are
  relied on.
* *Ambiguous outcomes.*  A create can fail after the API server accepted it, be
  cancelled and land later, or be injected as unknown on purpose (D6); an answer
  of the audit bridge can be lost after the tool ran.
* *Crashes* between the ledger write and the create, between the claim of an item
  and the Controller's answer, inside a trial whose checkpoint is open.
* *Snapshots.*  Threads write back columns and files they read before others
  changed them.
* *Helpers that outlive their trial*: monitor threads, drain threads, bridge
  threads, timers, joined for a few seconds or not at all.
* *Time-driven cleanup* that must win in the end whatever went wrong before.
* *Names and keys reused*: a resource is named after run and fault type, not
  after the handle; an Idempotency-Key after the item, not after the attempt.

### What makes each part correct

Controlled execution: no fault without an entry; none out of the watchdog's
sight; one create per handle and capability; a budget of one; deletes that hit what
they were checked against; closed entries stay closed; every lease is closed.
Fleet: one item per slot; no batch complete with work open; no agent blamed for a
trial the Fleet has in flight itself; no trial lost from sight; every item settles.  Task service: one user of the
environment at a time; no creation over an open recovery; an aborted task leaves
nothing; every action and every task ends.  Campaign: each trial starts clean;
absence, credit and rollback are recorded only when true; nothing is reinstalled
over an unjudged state.  Tool gate: what was taken away stays away and what was
confirmed is what is created.  Session: no feedback is lost and no question
left open.  Runs: one mutator, clean ends, completion that was earned.

## 2. Modules

| Module | Contents |
|---|---|
| `ChaosControl`, `MCChaosControl`, `ChaosControlProofs` | controlled execution over the shared ledger; its instances for TLC; theorems |
| `FleetDispatch`, `MCFleetDispatch`, `FleetDispatchProofs` | the Fleet dispatcher over its store; instances; theorems |
| `EnvironmentUse` | abstract: campaigns use one environment, one at a time |
| `TaskControl`, `MCTaskControl`, `TaskControlProofs` | the task API over files, futures and the lock; instances; theorems and the refinement |
| `ResetPolicy` | pure: the judgement over a trial's evidence |
| `TrialCampaign`, `MCTrialCampaign`, `TrialCampaignProofs` | one campaign and its threads, extends `ResetPolicy`; instances; theorems |
| `ToolGate`, `MCToolGate`, `ToolGateProofs` | tool calls in cases D7 and D8; instances; theorems |
| `HarnessSession`, `MCHarnessSession`, `HarnessSessionProofs` | one session; instances; theorems |
| `Progression` | pure: the checkpoint of a multi-level Episode |
| `RunControl`, `MCRunControl`, `RunControlProofs`, `RunWorkersProofs` | runs, leases, workflows and workers, extends `Progression`; instances; theorems about types and ends, and about the workers |

`RunControl` is composed with `Progression`, and `TrialCampaign` with `ResetPolicy`,
by EXTENDS: their operators are the steps a worker or a campaign takes on a
checkpoint or on evidence.  Where one part meets another it does not contain, the
other is reduced to what it can do there and marked external in `PROJECT.json`
(the Controller in `FleetDispatch`, the fault in `TrialCampaign`).

Operators introduced by a comment *mutant* are wrong variants of the definition
below them, each a plausible slip (a dropped guard, a missing reset, a swapped
order); `PROJECT.json` says which property must catch which.

### `ChaosControl`

| Variable | Code |
|---|---|
| `ledger[h]` | the ledger file of handle `h`: state, executor, resource name, target uid, token; `started`/`ended` are the timestamps of the fault window, `due` that the lease deadline has passed |
| `res[<<x, n>>]` | what `get_experiment` of executor `x` finds under name `n`; `by` is a history field, the handle it was created under |
| `inflight` | a `kubectl create` whose caller was cancelled |
| `pod` | uid of the target Pod and whether it carries the fence label |
| `cap[t]` | the capability file: unbound, bound to a uid, or `REPLACEMENT_PENDING_TARGET` |
| `d2` | progress of the Controller's replacement of the Pod, with the binding it keeps in memory |
| `op` | the operation that holds the ledger lock: program counter and locals |
| `spent`, `faults` | history of issued creates; failures so far |

Every mutating call takes `_ledger_file_lock`, an exclusive lock over processes,
so one `op` suffices; each `await` inside it is a step boundary where D2, the
cluster, the clock, a late create or a crash can act.

* `create_experiment`: `CreateBegin` (handle, baseline gate, replay) →
  `CreateVerify` (`get_pod_uid`, write-back of the capability as it was *read*,
  executor conflict) → `CreateList` (list, unowned resources, budget) →
  `CreateFence` → `CreateWriteAhead` (or `D6AClear`, `D6AWrite`) →
  `CreateApply` → `CreateCommit`, or `CreateFailed` → `CreateUnwind` →
  `CreateUnwindClear`.  D6-B applies the create and then reports an unknown
  outcome.
* `Status`, `DestroyBegin`, `DestroyObserve` and the shared tail `CleanCheck` →
  `CleanDelete` → `CleanConfirm` → `CleanUnfence` → `CleanClose`.
* `cleanup_expired_leases`: `ExpireBegin`, `ExpireScan` over a snapshot of the handles,
  then the same tail; `ScanError` and `ExpireError` record `cleanup_error` and go
  on with the next entry, as the `except` clause does.
* `Abort`: the process dies (the kernel frees the lock), or an await that nobody
  catches raises.
* Environment: `D2Fence`, `D2Replace`, `D2Rebind`, `D2Release`; `Advance` of a
  resource's phase; `Land` of a late create; `DeadlinePasses`.

Abstractions.  A call refused before its first await changes nothing and is a
`CreateBegin` that does not happen, so value checks of plans, expiry of a
capability and fault-type authorisation need no state.  A resource the service
does not own may be listed or not at any time (`unowned`).  Manifests, durations
and wording are left out.  The deadline is a flag that may rise at any time after
the entry exists, which covers every duration.  The awaits on `kubectl` have no time
limit (`chaosblade.py` 104, `chaos_mesh.py` 213); an operation at one of them is
`Awaiting`, and nothing says that it goes on.  `D2Tokens` are the capabilities
issued for case D2, the only ones under which the Pod is replaced.

### `FleetDispatch`

| Variable | Code |
|---|---|
| `item[i]` | the row of table `items`: state, slot, whether `run_id` is set, `platform_retries`, and of the failure record `upstream_deferrals`, `stop_requested` and the owner |
| `batch`, `phase` | state column of `batches`, phase column of `slots` |
| `pin[i]` | the slot the plan resolved the item to |
| `stopped` | `_stopped_batches`, in memory only |
| `run[i]` | the task the item's Idempotency-Key names at its Controller (external); `refused` that the Controller does not accept the request of the item |
| `th` | per thread its program counter and the snapshot it works on, a row for each item it read |

Each method of the store is one transaction and one step; so is each HTTP call.
The loop thread does `Tick`, then per batch `NextBatch`, `PollItem`,
`RefreshBatch`, `WriteBatch`, and `PassEnds` turns from polling to dispatching.
`Submit` plans the batch (`Plans` is `plan_batch`: pinned slots kept, the others
to the least loaded of `max_concurrency` slots) and dispatches in the request's
thread at the same time as the loop.  `Claim` is `_pick_slot` on the snapshot
plus the atomic `claim_slot_for_item`; `CreateRun` the HTTP call with every
answer it can give, a lost reply included; `RecordReply` the rest of `_submit`,
which writes the counters *of the row it read*.  `StopBegin`, `StopRead`,
`StopItem`, `StopEnd` are `stop_batch`; `RefreshRead`/`RefreshWrite`
`refresh_slot`; `Drain` `drain_slot`; `Restart` keeps the store and forgets
`th` and `stopped`.

Abstractions.  The order of items within a pass is arbitrary, which includes the
order of `item_id`.  The poller's stop of a trial past its time changes nothing
at the Fleet, because the model lets a trial end at any time.  A
`RECOVERY_FAILED` task may be classified either way by `classify_failure`, whose
data are not modelled.  The `attempts` counter has no reader in the dispatcher.

### `TaskControl` and `EnvironmentUse`

| Variable | Code |
|---|---|
| `status`, `terminal`, `acts` | `task_status`, `terminal` and `control_actions` of a task's `status.json` |
| `result`, `keyFile` | what `_abort_environment_result` can read in `result.json`; the file of an Idempotency-Key |
| `fut`, `stop` | futures and stop events of `CampaignSupervisor`, in memory |
| `lease` | the holder of the runtime lock: a task, the qualification CLI, nobody |
| `call` | the threads of API requests, each with what it read |
| `queue`, `ctl` | the control pool, which has one worker |
| `ev` | the two threads that report events of a campaign: its own and its monitor's |
| `dirty`, `mutated`, `late` | history: whose mutation is in the environment, whose ever was, which task had an event after its result |
| `lost` | history: tasks whose `control_actions` were overwritten by a write-back of an older read |

A read of a status file and a locked update of it are separate steps; `WriteBack`
is an update of `control_actions` by somebody who read them before, and records in
`lost` that what it replaces was not what it read.  `create` is
`CreateBegin` → `CreateGate` → `CreateRuns` → `CreateStore` → `CreateBind` →
`CreateSubmit`, or `CreateReject` when the supervisor refuses; the three control
requests are `ControlBegin`, `ControlStart`, `ControlWrite`, and the worker's
`CtlTake`, `CtlMark`, `CtlStop`, `CtlWait`, `CtlRecover`, `CtlLabel`, `CtlRestore`,
`CtlFinRead`, `CtlFinWrite`; the campaign's `CampaignStart`, `CampaignMutate`,
`CampaignRecover`, `CampaignResult`, `CampaignDone`, `CampaignRaise`; an event is
`EventRead` and `EventWrite`.  `Restart` forgets threads, futures and the lock and
keeps files and environment.

`EnvironmentUse` says what the environment's users may rely on: a user is granted
it, works in it and gives it back; only a user at work changes it; somebody outside
may hold it instead; a reset may come at any time.  `UsesEnvironment` instantiates
it with `holder <- lease`, `phase <- Phase(fut)` and the same `dirty`.  Its action
`Withdraw` is the price of an implementation that cancels a future it granted the
lock for: such a user never gives the environment back.

Abstractions.  Request bodies, events' contents and artifacts are left out; what a
campaign does inside is two actions here and all of `TrialCampaign` there.

### `TrialCampaign` and `ResetPolicy`

| Variable | Code |
|---|---|
| `camp` | place in `CampaignEngine.run`, whether in its `except` branch, trial number and case, platform status |
| `env` | the trial's fault: live or not, in the ledger or the agent's own, through which executor, who removed it first; the system under test |
| `sess` | the agent's session: calls made, the event not delivered yet, report |
| `mon`, `late`, `overtime` | the condition monitor and its thread; threads of earlier trials in their last steps; `overtime_abort` |
| `seer` | the foreign fault observer |
| `dist` | the disturbance: `disturbance_attempt` state, record, policy file, D5 timer |
| `fin`, `recovery`, `tidy` | what the finalizer read, its `RecoveryResult`, restore and reset |

Trials go `TrialBegin` → `Prepare` → `Provision` → session → `FinishMonitor` →
`JoinMonitor` → `Fallback` → `Score` → `AwaitRestoration` → `FinPre` → `FinWait` →
`FinDestroy` → `FinPost` → (`CapabilityLossEnds`) → `Rollback` → `Evaluate` →
`Restore` → `Reset` (→ `Preflight` → `Uninstall` → `Deploy`) → `Conclude`.  Any call
may fail; a failure leads through `Abandon` and `Undo`, which is
`_emergency_cleanup`, or, outside the trial's own handler, to the outer one.  The agent creates
and destroys before its events are seen (`AgentCreate` against `FaultSeen`), and the
monitor's thread, the timers and the observer interleave with all of it.

A fault is ledgered (the platform confirmed it) or the agent's own, and of either
executor.  The finalizer inventories and deletes both kinds (`FinDestroy`); a fault
that outlives its trial is foreign to the next (`LeftOver`), and the environment
gate after a reinstallation counts ChaosBlade only.

`ResetPolicy` is `classify_recovery` and `classify_reset_policy` over evidence in
which a key is true, false or missing; the code distinguishes the last two.

Abstractions.  D7 withdraws nothing of the campaign's and is `ToolGate`'s; D8 is
here for what it adds to finalisation.  Effect samples, plans and scores are choices
of outcome.  One fault lives at a time: an agent that makes a second one of its own is
left out.

### `ToolGate`

| Variable | Code |
|---|---|
| `call` | per call under way: which tool, server, plan, epoch presented, how far |
| `st` | `CapabilityLossState`, the locked state file |
| `policy` | is the gated tool of a server enabled in the policy file |
| `ledger`, `decision` | confirmations and the trigger in the platform ledger; the decision file |
| `invalid`, `fault`, `trial`, `did` | `invalid_reason`; the oracle's fault; the end; history of what was executed |

A call goes `Ask` → `Look` (what is read of the state and of the oracle without the
lock) → `Arm` or `Grant` → `Decide` (under the lock, after a second reading of the
oracle: a reading that fails or comes too early lets an observation pass, and one that
finds the case invalid says so) → `Run`, unless `AnswerLost` or the policy gate
intervenes → `Report` → `Start` → `Trigger` → `Return`.  `Answer` and `Publish` are
`confirm`: decision file first, ledger afterwards.  `Finish` restores the policy while
threads of the bridge may still be at work.

Abstractions.  The servers are interchangeable; a plan is one of a set that the
compared fields tell apart; the time budget is a flag that may rise at any time.
Notices, which a call's result may carry, change nothing that the calls depend on.

### `HarnessSession`

| Variable | Code |
|---|---|
| `pc`, `turn`, `res`, `full` | the thread in `wait()`; the feedback its turn delivers; the last turn's result; the 16 MiB used up |
| `fb`, `queue` | outcome of each feedback as recorded; `_pending_feedback` |
| `retries` | `RetryBudget`, shared by turns, model calls and repairs |
| `said`, `pending`, `replies`, `report`, `repairing` | the observers' state: messages, open questions, answers, assessment, `report_only` |
| `decision`, `confirming` | the decision file, a confirmation being answered |
| `drain`, `clock` | the thread that reads the process's output; deadline and cancellation |

A turn is `TurnStarts` → lines and tool calls in any order → `Exit` or `Kill` → `Join`
→ `observe_turn_complete` (`CompleteQuietly`, `TakeStructured`, `Interpret`, `Answer`,
`AnswerAll`) → `Retry` or `NoRetry` → `Dispatch` of the next feedback or `Finish`.

A harness in `Remote` runs its turns in the sidecar of the agent execution server
(`turn_executor`): its output is read in the thread of `wait()` itself, so it has no
drain thread to join; the others are local processes whose drain thread is joined for
a few seconds and may lag.

Abstractions.  A message is prose or an assessment, with a set of topics it asks
about; what the model reads in it is a choice.

### `RunControl` and `Progression`

| Variable | Code |
|---|---|
| `run` | the row: phase, terminal and desired status, abort flag, kind of run |
| `art` | the artifacts that later steps load instead of working: missing, good, bad or thin |
| `prog` | the checkpoint of `ProgressionController` |
| `wlease`, `mlease` | worker leases and the mutation lease |
| `wk`, `hb` | workers with what they read; heartbeat threads |
| `fault`, `load` | whose fault and workload are in the cluster |
| `taken`, `frail` | history: runs taken from a worker at work; runs resumed without the lease or whose heartbeat stopped |

Each `RunStore` method is one IMMEDIATE transaction and at most one occurs in a step.
Discovery workers go `DClaim` → `DBegin` → `DStage` … → `DLeave` → `DFinish`; execution
workers `XClaim` → `XBegin` → `XBaseline` → per level `XTrial`, `XPrepare`, `XAgent`,
`XFinalize`, `XJudge` → `XRecover` → `XEvaluate` → `XScore` → `Request`, `Ask`,
`XCleanup`, `XFinish`, `Release`.  `Crash` ends a worker of `CanCrash` anywhere; `RanOut` lets a claim
take a run whose lease expired.  An exception that leaves a workflow ends the process:
`main` returns (`run_execution_worker.py` 469-480, `run_control_worker.py` 132), the
worker is `exited`, and only a `Start` from outside, which nothing in the repository
does, brings it back.

Abstractions.  What a scan, an agent or an evaluator finds is a choice.  A lease has no
clock: it runs out when its worker is gone, or, at most `MaxLapses` times, under a
worker at work.  The watchdog of `ChaosControl` may remove a fault at any time.
`RunTerminalStatus.BLOCKED` is requested by no workflow and is left out.

## 3. Runs

| Run | Instance | Shows |
|---|---|---|
| `ChaosShared` | 2 handles, 2 capabilities, ChaosBlade and Chaos Mesh, 2 fault types, D6-A, a controller-bound target, 1 replacement of the Pod, 1 failure | `NoFaultEscapesTheWatchdog`, `OneCreatePerHandleAndToken`, `DeleteHitsTheLedgeredTarget`, `OneActiveFaultPerExecutor`, `ClosedEntriesAreFinal` |
| `ChaosLate` | `FairSpec`, 2 handles, 2 capabilities of which one replaces the Pod, ChaosBlade, D6-B, late creates, 1 replacement, 1 failure | `EveryFaultIsLedgered` for creates that land after their caller gave up; `EveryLeaseIsClosed` |
| `FleetSlots` | 1 batch of 2 floating items, requests the Controller may refuse, 1 slot, refresh, 1 failure, 1 restart | `SlotExclusive`, `CompletedMeansSettled`, `AgentBlamedFairly`, `EveryTrialIsFollowed`, `SettledIsFinal` |
| `FleetLiveness` | `FairSpec`, 1 item, 1 slot, its batch may be stopped, its slot drained, 2 failures | `EveryItemSettles` |
| `TaskShared` | 2 tasks, 2 request threads, 1 key, 3 requests, 1 event, 1 timeout, 1 restart | `LeaseHeldExactly`, `CreateExcludesRecovery`, `AbortedIsClean`, `UsesEnvironment` |
| `TaskLiveness` | `FairSpec`, the same with 2 requests, no symmetry | `ControlSettles`, `TaskSettles` |
| `RunShared` | 2 runs, 1 discovery and 2 execution workers, 1 level, 1 crash | `LeaseOfLiveRun`, `OneMutator`, `CleanWhenClosed` |
| `RunTaken` | `FairSpec`, 1 run (dry or approved by hand), 2 discovery and 1 execution worker, 2 levels with a retry, 1 lapsed lease, 1 crash of the execution worker, 1 abort | `CompletedIsEarned`, `AbortIsKept`, `RunsEnd` |
| `CampaignCases` | each of D1–D6 and D8 alone, and two control cases in a row; own faults of either executor; attribution on; 1 failure, 1 slow monitor | `LeftClean`, `AbsenceIsReal`, `AgentCreditIsEarned`, `ReinstallIsJudged`, `RolledBackIsTrue` |
| `CampaignEnds` | `FairSpec`, D5 and D8, 1 failure | `CampaignEnds` |
| `ToolGateCalls` | D7 and D8, 2 calls at once, 4 in all, 2 servers, 2 plans, budget 1, 1 lost message, readings of the oracle that fail | `LostServerStaysDark`, `AlternativeCreateIsConfirmed`, `PolicyFollowsState` |
| `SessionTurns` | `FairSpec`, codex and deepseek in the sidecar, claude local, both executors provisioned, 1 topic, 3 attempts, 2 lines, 1 error | `FeedbackAccounted`, `QuestionsSettled`, `SessionEnds` |

Every run passes.  Each property has a mutant of the code's definitions that
violates it in the same instance.  `TypeOK` of each module documents its state;
it is proved for all of them, and the runs spend their time on the properties
above.

### Where the code departs from what it says

A property above is stated with the exemption its comment names where the code
does something else than its comments, documents or tests say.  The behaviours
below were met while modelling; each is one of the models' behaviours, and dropping
the exemption, or changing the constant named, makes TLC show it.

| Where | What happens | Against |
|---|---|---|
| `chaos_core/service.py:1097` | `create_failed` after a lost reply is not among the states that refuse the other executor: two active faults in one Trial | `service.py:81` |
| `service.py:1037` | `_bind_agent_selected_baseline_target` writes back a capability read before an await and so erases D2's fence (`AgentSelected = TRUE`) | `preparation.py:119` |
| `service.py:692` | through the executor that does not own the entry, status and destroy stamp `ended_at` on a running fault | the fault window the finalizer reads |
| `service.py:842` | the fence label is per Pod: closing one entry unfences another's live fault | `chaos_mesh.py:6`, "only after the ledger-owned resource is verified absent" |
| `service.py:297` | a cancellation between `prepare_target_fence` and the ledger write leaves a label no entry accounts for | `service.py:851` |
| `service.py:828` | a late create of a closed handle over a Pod replaced since holds the name of the next entry; every pass then fails with `LEDGER_TARGET_MISMATCH`, and that entry stays `cleanup_error` for ever (`EveryLeaseIsClosed` without `[]Obstructed`) | the lease |
| `chaosblade.py:104`, `chaos_mesh.py:213` | a `kubectl` that never returns keeps the ledger lock, and no lease is closed any more (`EveryLeaseIsClosed` without `[]Awaiting`) | the lease |
| `chaos_mesh.py:85` | a create that lands after its entry was closed is out of the watchdog's sight (`LateCreates = TRUE`) | – |
| `scheduler.py:380` | `max_concurrency` is read from a row that does not carry it; items pinned to different slots run all at once | the batch request |
| `scheduler.py:448` | a 409 from a busy or unrecovered Controller, on a slot lost to a trial that the Fleet let go or that did not recover, is filed as the agent's failure (`AgentBlamedFairly` without `SlotLost`) | `scheduler.py:23` |
| `fleet_service/api.py:322` | `stop_batch` dequeues, by the row it read, an item that was started meanwhile (`CanStop = {b1}` in `FleetSlots`) | `api.py:331` |
| `scheduler.py:281` | an item claimed but not submitted at a restart is neither polled nor dispatched (`MaxRestarts = 1` in `FleetLiveness`) | `store.py:3` |
| `scheduler.py:402` | a refresh during a trial stores `Busy`; only another refresh stores `Ready` again (`CanRefresh = {s1}`) | – |
| `scheduler.py:415` | a voided item is resubmitted under the same key and handed the dead task | `scheduler.py:23` |
| `scheduler.py:294` | the poller files a stopped run by the row it read before the stop mark | `api.py:331` |
| `scheduler.py:291`, `:456` | replies lost on submission, or runs that cannot be read, use up the retries: the item is given up as the platform's failure while its trial runs on (`EveryTrialIsFollowed` without its second disjunct, `MaxFaults = 2`) | – |
| `task_service.py:1706` | an abort between store and submit finds no future; the campaign starts after the task is ABORTED | the label |
| `stage2_service/api.py:190` | a stop that cancels a campaign not yet started leaves the runtime lock held until a restart | `api.py:85` releases it in `_run_request` only |
| `stage2_service/api.py:159` | `list_runs` raises a failed campaign's exception in every later create | `docs/status/stage2-gate-map-20260909.md:159` describes it |
| `task_service.py:1511`, `:1719` | `control_actions` are read, and written back without a lock: a request can overwrite another's on disk, and a task is then created over a recovery that is still to come (`CreateExcludesRecovery` without `lost`, `Keys <- TwoKeys` and `MaxCalls = 4` in `TaskShared`) | `task_service.py:639` |
| `task_service.py:1553` | a permission restore writes back the label it read, ABORTED included, over a task whose abort failed or is at work (`AbortedIsClean` speaks of the control worker's own label) | the label |
| `task_service.py:1736`, `:1763` | events set a finished or aborting task back to RUNNING | the terminal flag |
| `task_service.py:1571` | after a restart a control action stays REQUESTED or RUNNING and refuses every create | – |
| `discovery_workflow.py:429` | a discovery worker whose lease ran out ends the run as FAILED and verified while an execution worker's fault is live (`CleanWhenClosed` without `taken`) | "verified" |
| `execution_workflow.py:92` | a run resumed in EXECUTING does not take the mutation lease again (`OneMutator` without `frail`) | `docs/status/stage2-gate-map-20260909.md:175` |
| `execution_workflow.py:191` | the second conflict over `request_cleanup` is raised out of the workflow, the process exits and the run stays in `CLEANING_UP` (`RunsEnd` without `[]Deserted`) | the abort |
| `orchestrator.py:104` | a resumed run reports only the trials of its last worker | – |
| `campaign.py:216` | the overtime flag of one trial cancels the session of the next when its monitor thread is late | – |
| `recovery_state.py:33` | nobody writes the keys of `RECOVERY_RAISED`: after a finalizer that raised, a reinstallation may go over a live fault (`ReinstallIsJudged` without `Rescuing /\ ~recovery.made`, case D6 with `MaxFaults = 3`) | `docs/status/stage2-dx-remediation-notes-20260912.md:97` |
| `campaign.py:1338` | an error in the trial's `except` branch before `_emergency_cleanup` skips it | "cleanup is mandatory" |
| `campaign.py:1350` | an exception of `abort_capability_loss` is swallowed: the trial is undone over a policy that may not be restored | – |
| `runtime_adapters.py:149` | the environment gate counts ChaosBlade experiments only: an agent's own Chaos Mesh fault kept by a finalizer survives a reinstallation that is verified, and the next trial starts over it (`LeftClean` without its second conjunct's exemption) | `fault_inventory.py:101` counts both |
| `capability_loss/orchestrator.py:147` | `after_validate_plan` of a late bridge thread disables a tool after the policy was restored | `restore` |
| `capability_loss/runtime.py:266` | an observation whose second reading of the oracle fails is passed on before the loss begins | `orchestrator.py:82`, "The first D7 observation … is disabled before dispatch" |
| `capability_loss/runtime.py:316` | two creations at once both grant an epoch; the first is refused as unconfirmed | – |
| `harness_runtime.py:1607` | with chaos_mesh_control provisioned, a codex repair turn can create an experiment once a confirmation replaced the report-only mark (`Substitution = TRUE`) | `docs/stage2-remediation-ledger-20260904.md:65` |
| `session.py:536` | a drain thread that outlives its join queues feedback nobody sends | – |

### Bounds, and why they are enough

*Controlled execution.*  Every cross-entry rule of the ledger (replayed token,
other executor, shared name, shared fence) relates two entries, and every race
involves the operation that holds the lock and one environment actor: two handles,
tokens and executors make each rule bind.  Two fault types are needed for the
budget (with one, the name clash hides a broken budget).  `MaxUid = 2` gives a Pod
before and after replacement.  `MaxFaults` counts API errors, cancellations and
crashes together; one separates any two steps of an operation.
`ChaosLate` has both handles and both Pods, since a late create obstructs another
entry's cleanup only over a replaced Pod.
*Fleet.*  A slot conflict needs two items and one slot, a lost update two threads, and a retry
limit of one reaches both sides of the limit.
*Tasks.*  Two tasks and two request threads make every pair of requests meet, with
the worker and both event threads beside them; three requests are a create, an
abort and a third that finds either half-way.  Requests that overwrite each other
before a fourth creates a task are the theorem's.
*Runs.*  Two runs contend for the mutation lease, two execution workers for a run
and one crash, there or in `RunTaken` at any place of a trial, puts one of them in the place of the other; two levels with a retry
reach every branch of `record_result`.
*Campaign.*  Cases do not depend on each other beyond the environment and the late
threads, so each is run alone and the hand-over with two control cases; one failure
falls into any place, the emergency cleanup included.  A reinstallation over a live
fault takes three failures and is the theorem's.
*Tool gate.*  Two calls at once, before and after the loss, with a confirmation and
a fourth call after it; a budget of one is used up and refused.
*Session.*  Two lines are a question and a feedback, or two messages; three attempts
are the code's own number.
Symmetry permutes handles and tokens, tasks and callers, workers, servers, plans and
calls, none of which anything tells apart, and is not used with liveness.

The theorems of section 5 carry every safety property of the runs to all values, so
these bounds matter for liveness and for what a hypothesis of a theorem excludes.
Deadlock is checked in the `Chaos` runs, `FleetSlots` and
`SessionTurns`, where something is always possible; the task service, the run
control plane, the campaign, the tool gate and a drained Fleet do come to rest when the bounded
requests are used up, so their runs do not check it.

## 4. Fairness

*Controlled execution.*  An operation that holds the lock continues
when it is not waiting for `kubectl` (`WF(~Awaiting /\ (CreateSteps \/ CleanSteps))`).
Nothing makes a call of `kubectl` return, since the code gives it no time limit:
`EveryLeaseIsClosed` ends in `[]Awaiting` where one never does.  The watchdog starts a pass infinitely often although others keep
taking the lock (`SF(ExpireBegin(x))`): the server's loop never exits, survives
exceptions and polls the lock until it gets it.  Wall-clock time passes
(`WF(DeadlinePasses(h))`).  Nothing is assumed of agents, D2 or the cluster, and
failures are finite because `MaxFaults` bounds them.

*Fleet.*  The loop ticks for ever and an exception in a tick does not end it; a
started request goes on; a trial ends (`WF(RunEnds(i))`), which the Controller's
time limits and the poller's stop are there for.

*Tasks.*  Request threads, the control worker and event threads run; a campaign
reaches its result by its deadline.  Operators, the CLI and restarts owe nothing.

*Runs.*  A worker whose process runs goes on, and an idle one keeps claiming, as their
loops do; one that has exited owes nothing and nobody owes it a restart, so `RunsEnd`
exempts a run whose workers have all exited for good (`[]Deserted`); a heartbeat finishes the renewal it began.  Approval and abort owe nothing,
so `RunsEnd` leaves out runs that wait for approval.

*Campaign.*  The campaign's thread, the monitor's and the D5 timer run; the agent
owes nothing, since a session is cut at its time limit.

*Session.*  The thread in `wait()` runs and the deadline comes; the agent owes
nothing.

## 5. Proofs

### `ChaosControlProofs`

`ChaosControlProofs` proves, from `ConstantsAssumption` alone and so for any
number of handles, capabilities, executors, Trials, fault types, Pod
replacements and failures, and for every variant:

| Theorem | Statement |
|---|---|
| `InductiveHolds` | `Spec => []Inductive` |
| `TypeCorrect` | `Spec => []TypeOK` |
| `FaultsAreLedgered` | `Spec => []EveryFaultIsLedgered` |
| `WatchdogSeesEveryFault` | `Spec => []NoFaultEscapesTheWatchdog` |
| `CreateIsSingleUse` | `Spec => []OneCreatePerHandleAndToken` |
| `BudgetOfOneHolds` | `Spec => []OneActiveFaultPerExecutor` |
| `DeletesAreChecked` | `Spec => []DeleteHitsTheLedgeredTarget` |
| `ClosedIsFinal` | `Spec => ClosedEntriesAreFinal` |

None of these properties is inductive.  A resource's entry is right because
the *operation* that created it held the right entry when it asked, and because
nobody reuses the handle afterwards; so `Inductive` adds what an operation knows
of its handle at each program counter:

* `ResourcesLeased`, `InflightLeased`: a resource, and a request under way, has an
  entry that describes it and that no D6-A retry may overwrite.  This is where
  write-ahead matters, and why `operation_outcome_unknown` is excluded: it is the
  one state in which a handle is used again, and D6-A writes it without a create.
* `TokensDistinct`, `SpentLedgered`: the ledger itself remembers every spent
  token.  A retry overwrites an entry only in the state that proves nothing was
  spent under it.
* `CreateHoldsHandle`, `CleanHoldsHandle`: before the write, the handle is fresh
  or retriable and the token is unused; after it, the entry is the operation's own
  and open; a cleanup works on an entry of its own executor.
* `NothingLate`, under `~LateCreates`: the entry of a live resource is one the
  watchdog cleans; between confirm and close the resource is gone; the check
  before a delete is still true at the delete; from the budget check up to the
  create the executor has no active resource.
* `ReplacementBound` keeps the Pod's uid within its type.

`ClosedIsFinal` rests on `PassIsOpen` besides: the watchdog works on a snapshot of
handles, and an entry it has still to visit, or is cleaning, is open, because the
lock keeps every other operation out for the whole pass and the pass visits no
handle twice.

Preservation is proved with one lemma per action, or group of actions that touch
the same variables, and under it a step per conjunct that the action disturbs.
TLC agreed with `Inductive` on the instance of `ChaosShared` before it was proved.

The condition `~LateCreates` is part of those properties, not of the proofs: a
create that lands after its entry was closed does escape the watchdog, and the
run `ChaosLate` shows what remains true of it.

### `FleetDispatchProofs`

From `FleetAssumption`, for any items, batches, slots, pins, limits, failures and
restarts:

| Theorem | Statement |
|---|---|
| `TypeCorrect` | `Spec => []TypeOK` |
| `SlotsAreExclusive` | `CanStop = {}` implies `Spec => []SlotExclusive` |
| `CompletedIsSettled` | `CanStop = {}` implies `Spec => []CompletedMeansSettled` |
| `BlameIsFair` | `CanStop = {}` implies `Spec => []AgentBlamedFairly` |
| `TrialsAreFollowed` | `CanStop = {}` implies `Spec => []EveryTrialIsFollowed` |
| `SettledStays` | `CanStop = {}` implies `Spec => SettledIsFinal` |

`CanStop = {}` says that no operator stops a batch.  It is a true restriction: with
stops, `stop_batch` dequeues an item by the row it read although the loop has started
it meanwhile (section 3), and the others of these are false there.
`FleetLiveness` has stops.

The store's transactions are atomic, but the loop and a submitting request write
back rows that they read some steps before.  `Inductive` is what makes that safe:

* `Typed` adds to the types that a thread only remembers rows that exist;
* `Sound` is what holds of the tables: the invariants but the one on blame, and that a
  batch and its items are stored together and that an item not yet accepted has no
  `run_id`;
* `Tracks`: between the claim and the write of the reply the item stays `Assigned`,
  since neither poller nor dispatcher touches an assigned item without `run_id`; what
  a thread counted as settled before it writes the batch's state is still settled;
* `Apart`: the loop and the request submit different items, because the claim of an
  item succeeds only once;
* `Polls`: an item the loop is about to poll is still running, because nobody but the
  loop ends it;
* `Quiet`: no stop is under way.

`BlameIsFair` needs a second layer, `Blame`, over `Inductive`: an item in flight is in
the slot its plan names (`Planned`), a Controller knows only items of stored batches
(`Asked`), an item queued again after its trial ran has used a retry (`Requeued`), and
what an answer says of slot and run still holds when the thread records it (`Heard`).
Then a TaskConflict means that the slot was lost to somebody else (`ConflictIsLoss`):
the claim that preceded the request rules out a trial the Fleet has in flight.

One lemma per action shows `Typed`, one more the rest of `Inductive` together with
`KeepsSettled`, the step property behind `SettledStays`.

### `TaskControlProofs`

From `TaskAssumption` alone, for any finite set of tasks and any request threads, keys and bounds:

| Theorem | Statement |
|---|---|
| `TypeCorrect` | `Spec => []TypeOK` |
| `LockIsHeld` | `Spec => []LeaseHeldExactly` |
| `Refinement` | `Spec => UsesEnvironment` |
| `CreationKeepsOut` | `Spec => CreateExcludesRecovery` |
| `AbortsAreClean` | `Spec => AbortedIsClean` |

`Inductive` adds to these two invariants what the threads remember:
`EventsOfCampaigns` (an event thread that has read a status has a task),
`RequestsOfTasks` and `ControlOfTasks` (a request, and the worker, past its first
step has one).  Without them a step could update a file of no task.  The refinement
needs `LeaseHeldExactly` in every step that maps to `Begin`, `Change`, `GiveBack` or
`Withdraw`: the abstract guard `holder = u` is what the concrete code never
tests, since `_run_request` trusts `submit` to have taken the lock for it.  One lemma per
action says which abstract step, or none, it is.

The two action properties look further back than the step they speak of.
`CreationKeepsOut` needs `Gated`: as long as no entry of a task was overwritten, the
request in the control pool and the one at work are on disk as active and are one
(`RequestsOnDisk`), a request about to be written had seen none active
(`WritersSawNone`), and a create that has looked and is still fresh is right
(`FreshIsClear`).  `AbortsAreClean` needs `Stopped`: a task with a result is over, so
that what `_abort_environment_result` reads in it cannot become wrong
(`ResultsArePast`), and a campaign that did not escape the stop will not run again
between the recovery and the label (`StoppedForGood`).  Both are false without the
exemptions their comments name; the attempt to prove them is what brought the
overwritten requests of section 3 to light, which the runs' bounds had hidden.

### `RunControlProofs`

From `RunAssumption` and `ProgressionAssumption`, for any runs, workers, levels and budgets:

| Theorem | Statement |
|---|---|
| `TypeCorrect` | `Spec => []TypeOK` |
| `LeaseNeedsLiveRun` | `Spec => []LeaseOfLiveRun` |
| `AbortDecides` | `Spec => []AbortIsKept` |
| `EndsAreFinal` | `Spec => EndIsFinal` |

Types are proved in parts (`RowsTyped`, `WorkersTyped`, `BeatsTyped`,
`JournalTyped`, `RestTyped`), with `WorkersBusy` for the run a busy worker has.  Then
every step is classified once as at most one call of the store (`StoreStep`), and
the last three theorems look at those calls only.  `AbortDecides` needs
`AbortPending`: between the request and the end, an aborted run is in `CLEANING_UP`
with `ABORTED` as the status asked for, which is why the store refuses a different
one.  `EndsAreFinal` needs that a worker's run, and a run that ended, exist as rows.

### `RunWorkersProofs`

From the same assumptions:

| Theorem | Statement |
|---|---|
| `MutatorIsAlone` | `Spec => []OneMutator` |
| `ClosedRunsAreClean` | `Spec => []CleanWhenClosed` |
| `CompletionIsEarned` | `Spec => []CompletedIsEarned` |

These are about workers that may be stale, so a worker's knowledge of its run is what
has to be stated.  `IInv` says of each run what its row, its
checkpoint and its artifacts owe each other (`RowOK`, `FreshOK`, `TicketOK`,
`JournalOK`), and of each busy worker and its run, by the worker's place, which
leases it may count on, whether a trial is open, whether a fault can be in the
cluster, and which checkpoints it has passed (`LeaseOK`, `TrialsOK`, `CleanOK`,
`EarnOK`).  The parts about leases and trials exempt runs in `taken` and `frail`,
where the code gives no such guarantee; `EarnOK` exempts nothing, so `COMPLETED` is
earned even by a worker whose run was taken.  `OneTicket`, that two workers never
have a trial of the same run open, holds without any lease: the checkpoint refuses
the second `start_trial`.  TLC agreed with `IInv` on `RunShared` and `RunTaken`.

### `TrialCampaignProofs`

From the assumptions that bounds are natural numbers, requests are sequences of cases
and `Attribution` is a Boolean, for any requests, any number of failed calls and of
monitor threads that outlive their join:

| Theorem | Statement |
|---|---|
| `TypeCorrect` | `Spec => []TypeOK` |
| `TrialsStartClean` | `Spec => []LeftClean` |
| `ReportedAbsenceIsReal` | `Spec => []AbsenceIsReal` |
| `CreditIsEarned` | `Spec => []AgentCreditIsEarned` |
| `ReinstallsAreJudged` | `Spec => []ReinstallIsJudged` |
| `RollbacksAreTrue` | `Spec => []RolledBackIsTrue` |

`IInv` joins to the types

* `Phases`: which records are still blank, or already made, at each place of the
  campaign's thread, and that the emergency cleanup alone reaches `abandon` and `undo`;
* `Policies`: what the attempt and the record of the disturbance say of the policy file
  and the D5 timer, for each case;
* `Faults`: a reading of the finalizer that says absent stays true, since nobody creates
  once the session is over;
* `Credits`: an accepted destroy of the agent found the fault or found it removed by one
  of three removers; past the join a monitor thread is over, or counted in `slow`;
* `Resets`: what a qualified reset, a dry run and a missing system under test imply of
  the fault and of the disturbance.

`TrialsStartClean` says what a fault that lives on must be: of Chaos Mesh, and either
reported as foreign or left by a finalizer that raised.  Both come from what the gate
after a reset counts.  `ReinstallsAreJudged` speaks of a fault only where the finalizer
returned; it uses `ResetPolicy`: a disturbance still applied, or a fault still
there, makes the evidence one of a failed rollback, for which `Treatment` is
`withhold` whatever the other keys say (`OpenIsWithheld`, `PresentIsWithheld`).

### `ToolGateProofs`

From `ToolGateAssumption`, for any number of calls at once, servers, plans and bounds:

| Theorem | Statement |
|---|---|
| `TypeCorrect` | `Spec => []TypeOK` |
| `LostServerIsDark` | `Spec => []LostServerStaysDark` |
| `CreationsAreConfirmed` | `Spec => []AlternativeCreateIsConfirmed` |
| `PolicyIsFollowed` | `Spec => []PolicyFollowsState` |

What a call decided from a state it read without the lock must still be right when it
acts on it.  `Tracked` says so of each call at its place: an observation allowed
during the fault is one of another server (`Dark`), a creation elsewhere past its
first check has a confirmation after the loss (`Confirmed`).  `StateFile`,
`OneTrigger` (the loss begins in one thread, once) and `Ends` (what is restored is
restored at the end) close it.

### `HarnessSessionProofs`

From `HarnessAssumption`, for any number of lines, errors, topics, attempts and feedbacks:

| Theorem | Statement |
|---|---|
| `TypeCorrect` | `Spec => []TypeOK` |
| `FeedbackIsAccounted` | `Spec => []FeedbackAccounted` |
| `QuestionsAreSettled` | `Spec => []QuestionsSettled` |

`Accounts` ties each feedback's recorded outcome to the queue and to the turn that
delivers it; `Turns` says what is behind `wait()` at each of its places; `Asked` says
that a question is pending only while a message that raised it is still to be read or
is being answered, or a lagging drain thread added it.

### Only model-checked

Liveness, which is out of the prover's reach: `EveryLeaseIsClosed`, `EveryItemSettles`,
`ControlSettles`, `TaskSettles`, `RunsEnd`, `CampaignEnds` and `SessionEnds`.

## 6. What the checks do not say

A passing run speaks of its instance and of the abstractions of section 2.  The
models share no variables: that the fault of `TrialCampaign` behaves like a resource
of `ChaosControl`, or the Controller of `FleetDispatch` like `TaskControl`, is by
construction of the external actions and is not checked.

## 7. Not modelled

The map covers about a twelfth of the repository's Python.  The rest was read or
sampled and left out, for one of these reasons:

* *No state that two actors share.*  Scoring, evaluators, node evaluation, rescoring,
  plan schema, qualification of channels, evidence assessment, reporting and the
  matrices are functions of recorded evidence; their correctness is a matter of the
  fields of large records, which these models abstract away.  The read-only MCP
  servers answer queries.  The resilience agent, the semantic scan and the static
  analysis produce data.  A model of any of them would repeat the code line by line.
* *Text and I/O.*  Prompts, the simulated user's wording, command lines, manifests,
  Kubernetes identities, gateway configuration, the code sandbox, the agent execution
  server, artifact writing, tests and most scripts.
* *CRUD around generated data.*  The backend of the episode catalogue; D0 campaigns,
  which work on recorded observations one after the other.

Within the modelled parts:

* the ledger state `pending` and `RunTerminalStatus.BLOCKED`, which no code writes;
* plan value checks, manifests, durations, authentication, read-only calls;
* entries of different Trials in different namespaces: names carry the run, and one
  target Pod is modelled;
* the Fleet's creation and deletion of slots and the manual slot trial;
* the task service's views, event logs and the `lx` catalogue of levels;
* BladeAI sessions, which keep one process and answer inside it;
* the queue, lease and delivery of notices; `request_fact` of the harness channel; RBAC objects behind permissions; the
  supervision of MCP server processes;
* the injector of `disturbances/`, whose state belongs to the thread of one trial.

## 8. Plan

Done: the seven parts above, their safety properties proved, one refinement.  Worth
adding, in this order:

1. an abstract lease (free, held, released; a handle and a token spent once) refined by
   `ChaosControl`, and an abstract queue of items refined by `FleetDispatch`;
2. the composition of `FleetDispatch` with `TaskControl`'s create, in place of the
   external Controller;
3. the theorems on the Fleet with stops, stated for the batches nobody stops;
4. BladeAI sessions beside `HarnessSession`.
