---------------------------- MODULE ChaosControl ----------------------------
(***************************************************************************)
(* The controlled-execution service of mcp_servers/chaos_core: gated       *)
(* creation, reconciliation, destruction and deadline cleanup of chaos     *)
(* resources, over a private ledger shared by every executor of a Trial    *)
(* (chaos_control for ChaosBlade, chaos_mesh_control for Chaos Mesh).      *)
(*                                                                         *)
(* Every mutating call runs under one cross-process lock on the ledger     *)
(* directory (_ledger_file_lock), so at most one operation is under way:   *)
(* the variable op holds its program counter and its locals.  Between two  *)
(* awaits of that operation the cluster, the Controller (which replaces    *)
(* the target Pod in a D2 disturbance) and an earlier, cancelled kubectl   *)
(* take their own steps, and the process may die, which frees the lock.    *)
(*                                                                         *)
(* A request refused by a gate changes nothing, so a refusal before the    *)
(* first await is the absence of a CreateBegin step: an expired baseline   *)
(* capability, an unauthorised fault type or a rejected plan is one of     *)
(* the behaviours in which the request is never begun.                     *)
(***************************************************************************)
EXTENDS Naturals, FiniteSets

CONSTANTS
    Handles,      \* cleanup handles: names of ledger entries
    Tokens,       \* baseline capabilities issued by the Controller
    Executors,    \* controlled executors sharing the ledger
    Fencing,      \* the executors whose backend labels the target Pod
    Runs,         \* Trials (run_id)
    FaultTypes,   \* fault types
    TokenRun,     \* the run each baseline capability was issued for
    D2Tokens,     \* the capabilities whose Trial has a D2 disturbance
    Variant,      \* create-uncertainty variant: "none", "D6-A" or "D6-B"
    AgentSelected,\* is the target chosen by the agent (capability issued unbound)?
    LateCreates,  \* may a cancelled create still reach the API server later?
    MaxUid,       \* bound: the target Pod is replaced at most MaxUid - 1 times
    MaxFaults     \* bound: API errors, cancellations and crashes together

ASSUME ConstantsAssumption ==
    /\ Fencing \subseteq Executors
    /\ TokenRun \in [Tokens -> Runs]
    /\ D2Tokens \subseteq Tokens
    /\ Variant \in {"none", "D6-A", "D6-B"}
    /\ AgentSelected \in BOOLEAN
    /\ LateCreates \in BOOLEAN
    /\ MaxUid \in Nat \ {0}
    /\ MaxFaults \in Nat

VARIABLES
    ledger,    \* the cleanup ledger: one JSON file per handle
    res,       \* owned chaos resources in the cluster, by executor and name
    inflight,  \* create requests whose caller was cancelled
    pod,       \* the target Pod: its uid and the Chaos Mesh fence label
    cap,       \* baseline capability files: the target uid each is bound to
    d2,        \* the Controller's replacement of the target Pod
    op,        \* the operation holding the ledger lock
    spent,     \* history: <<handle, token>> of every create request issued
    faults     \* API errors, cancellations and crashes so far

vars == <<ledger, res, inflight, pod, cap, d2, op, spent, faults>>

(***************************************************************************)
(* Data.  A resource is named after its run and its fault type             *)
(* (_experiment_name), so two handles of one run may share a name.         *)
(***************************************************************************)
Uids   == 1..MaxUid
Names  == Runs \X FaultTypes
Keys   == Executors \X Names
Phases == {"Pending", "Running", "Terminal"}

NoEntry == [state |-> "none"]
NoRes   == [phase |-> "Absent"]
Idle    == [pc |-> "idle"]
Unbound == 0                \* an agent_selected capability not yet bound
ReplacementPending == MaxUid + 1      \* REPLACEMENT_PENDING_TARGET
Bindings == Uids \cup {Unbound, ReplacementPending}

(* The states the watchdog cleans up, and those that refuse an executor.   *)
Cleanable == {"active", "pending_apply", "create_failed", "cleanup_error"}
Conflicting == {"active", "pending_apply", "operation_outcome_unknown",
                "cleanup_error"}
Closed == {"destroyed", "expired_cleaned"}
States == Cleanable \cup Closed \cup {"operation_outcome_unknown"}

Entries == [state : States, x : Executors, name : Names, uid : Uids,
            tok : Tokens, started : BOOLEAN, ended : BOOLEAN, due : BOOLEAN]
Resources == [phase : Phases, uid : Uids, by : Handles]
Requests  == [key : Keys, uid : Uids, by : Handles]

CreatePCs == {"verify", "list", "fence", "write", "d6a_clear", "d6a_write",
              "apply", "commit", "commit_running", "failed", "unwind",
              "unwind_clear"}
CleanPCs == {"observe", "scan", "check", "delete", "confirm", "unfence", "close"}

CreateOps == [pc : CreatePCs, x : Executors, h : Handles, name : Names,
              uid : Uids, tok : Tokens, seen : Bindings, retry : BOOLEAN]
CleanOps == [pc : CleanPCs, kind : {"destroy", "expire"}, x : Executors,
             h : Handles, todo : SUBSET Handles, late : SUBSET Handles]

D2States == [pc : {"fenced", "replaced"}, tok : Tokens, prev : Bindings]

TypeOK ==
    /\ ledger \in [Handles -> Entries \cup {NoEntry}]
    /\ res \in [Keys -> Resources \cup {NoRes}]
    /\ inflight \subseteq Requests
    /\ pod \in [uid : Uids, fence : BOOLEAN]
    /\ cap \in [Tokens -> Bindings]
    /\ d2 \in D2States \cup {Idle}
    /\ op \in CreateOps \cup CleanOps \cup {Idle}
    /\ spent \subseteq Handles \X Tokens
    /\ faults \in Nat

Init ==
    /\ ledger = [h \in Handles |-> NoEntry]
    /\ res = [k \in Keys |-> NoRes]
    /\ inflight = {}
    /\ pod = [uid |-> 1, fence |-> FALSE]
    /\ cap = [t \in Tokens |-> IF AgentSelected THEN Unbound ELSE 1]
    /\ d2 = Idle
    /\ op = Idle
    /\ spent = {}
    /\ faults = 0

-----------------------------------------------------------------------------
(***************************************************************************)
(* Helpers                                                                 *)
(***************************************************************************)
Used(h) == ledger[h] # NoEntry

(* get_experiment of executor x for the resource an entry names.           *)
Lookup(x, e) == res[<<x, e.name>>]

(* _record_matches_ledger: the name is part of the key.                    *)
Matches(r, e) == r # NoRes /\ r.uid = e.uid

(* Mutant: a destroyed handle may be tried again.                          *)
RetriableAfterDestroy(h) ==
    Used(h) /\ ledger[h].state \in {"operation_outcome_unknown", "destroyed"}

(* _is_retriable_absent_uncertainty: only D6-A writes this state.          *)
Retriable(h) == Used(h) /\ ledger[h].state = "operation_outcome_unknown"

Release == op' = Idle
Goto(pc) == op' = [op EXCEPT !.pc = pc]
SetState(h, s) == ledger' = [ledger EXCEPT ![h].state = s]

(* clear_target_fence: only this uid's label; a recreated Pod is untouched. *)
ClearFence(x, uid) ==
    pod' = IF x \in Fencing /\ pod.uid = uid THEN [pod EXCEPT !.fence = FALSE]
           ELSE pod

(* _observe_fault_window: first sight of Running, first sight of absence.  *)
Observed(e, r) ==
    CASE Matches(r, e) /\ r.phase = "Running" -> [e EXCEPT !.started = TRUE]
      [] r = NoRes /\ e.started -> [e EXCEPT !.ended = TRUE]
      [] OTHER -> e

Active(x) == {n \in Names : /\ res[<<x, n>>] # NoRes
                            /\ res[<<x, n>>].phase # "Terminal"}

(* An API error, a cancellation or a crash, within the bound.              *)
Fault == faults < MaxFaults /\ faults' = faults + 1

-----------------------------------------------------------------------------
(***************************************************************************)
(* create_experiment                                                       *)
(***************************************************************************)
(* Mutant: a baseline capability may be replayed.                          *)
TokenReplayed(h, t) == TRUE

TokenUnused(h, t) ==
    \A g \in Handles \ {h} : Used(g) => ledger[g].tok # t

NoOtherExecutor(x, run) ==
    \A g \in Handles : Used(g) /\ ledger[g].name[1] = run /\ ledger[g].x # x
                          => ledger[g].state \notin Conflicting

(* _assert_create_runtime_gates: a fresh handle, or one D6-A left absent.   *)
HandleFree(h) == Used(h) => Retriable(h)

(* _verify_baseline_gate: issued for this run, and unbound or bound to uid. *)
BaselineGate(t, run, uid) ==
    /\ TokenRun[t] = run
    /\ cap[t] \in {Unbound, uid}

CreateBegin(x, h, n, uid, t) ==
    /\ op = Idle
    /\ HandleFree(h)
    /\ BaselineGate(t, n[1], uid)
    /\ TokenUnused(h, t)
    /\ op' = [pc |-> "verify", x |-> x, h |-> h, name |-> n, uid |-> uid,
              tok |-> t, seen |-> cap[t], retry |-> Retriable(h)]
    /\ UNCHANGED <<ledger, res, inflight, pod, cap, d2, spent, faults>>

(* get_pod_uid, then _bind_agent_selected_baseline_target writes back the  *)
(* capability it read before that await, then the executor conflict check. *)
CreateVerify ==
    /\ op.pc = "verify"
    /\ \/ /\ pod.uid # op.uid
          /\ Release
          /\ UNCHANGED cap
       \/ /\ pod.uid = op.uid
          /\ cap' = IF op.seen = Unbound THEN [cap EXCEPT ![op.tok] = op.uid]
                    ELSE cap
          /\ IF NoOtherExecutor(op.x, op.name[1]) THEN Goto("list") ELSE Release
    /\ UNCHANGED <<ledger, res, inflight, pod, d2, spent, faults>>

(* Mutant: the budget is not checked.                                      *)
CreateListUnbudgeted ==
    /\ op.pc = "list"
    /\ \E unowned \in BOOLEAN : IF unowned THEN Release ELSE Goto("fence")
    /\ UNCHANGED <<ledger, res, inflight, pod, cap, d2, spent, faults>>

(* list_experiments, the guard against a resource nobody here owns (it may *)
(* come and go at any time) and validate_action's budget of one.           *)
CreateList ==
    /\ op.pc = "list"
    /\ \E unowned \in BOOLEAN :
          IF unowned \/ Active(op.x) # {} THEN Release ELSE Goto("fence")
    /\ UNCHANGED <<ledger, res, inflight, pod, cap, d2, spent, faults>>

(* prepare_target_fence; the label may be installed although the call fails. *)
CreateFence ==
    /\ op.pc = "fence"
    /\ \/ /\ op.x \notin Fencing
          /\ Goto("write")
          /\ UNCHANGED <<pod, faults>>
       \/ /\ op.x \in Fencing /\ pod.uid # op.uid
          /\ Release
          /\ UNCHANGED <<pod, faults>>
       \/ /\ op.x \in Fencing /\ pod.uid = op.uid
          /\ pod' = [pod EXCEPT !.fence = TRUE]
          /\ \/ Goto("write") /\ UNCHANGED faults
             \/ Release /\ Fault
    /\ UNCHANGED <<ledger, res, inflight, cap, d2, spent>>

NewEntry(s) == [state |-> s, x |-> op.x, name |-> op.name, uid |-> op.uid,
                tok |-> op.tok, started |-> FALSE, ended |-> FALSE, due |-> FALSE]

(* The entry is written before the resource is requested.                  *)
CreateWriteAhead ==
    /\ op.pc = "write"
    /\ \/ /\ Variant = "D6-A" /\ ~op.retry
          /\ Goto("d6a_clear")
          /\ UNCHANGED ledger
       \/ /\ Variant # "D6-A" \/ op.retry
          /\ ledger' = [ledger EXCEPT ![op.h] = NewEntry("pending_apply")]
          /\ Goto("apply")
    /\ UNCHANGED <<res, inflight, pod, cap, d2, spent, faults>>

(* D6-A: no create; the fence is removed, then the entry is written.       *)
D6AClear ==
    /\ op.pc = "d6a_clear"
    /\ ClearFence(op.x, op.uid)
    /\ Goto("d6a_write")
    /\ UNCHANGED <<ledger, res, inflight, cap, d2, spent, faults>>

D6AWrite ==
    /\ op.pc = "d6a_write"
    /\ ledger' = [ledger EXCEPT ![op.h] = NewEntry("operation_outcome_unknown")]
    /\ Release
    /\ UNCHANGED <<res, inflight, pod, cap, d2, spent, faults>>

NewRes(ph) == [phase |-> ph, uid |-> op.uid, by |-> op.h]
OpKey == <<op.x, op.name>>

(* backend.create_experiment: refuse an existing name, create, read back.  *)
(* A failed call may have created the resource, or may create it later.    *)
CreateApply ==
    /\ op.pc = "apply"
    /\ spent' = spent \cup {<<op.h, op.tok>>}
    /\ \/ /\ res[OpKey] # NoRes
          /\ Goto("failed")
          /\ UNCHANGED <<res, inflight, faults>>
       \/ /\ res[OpKey] = NoRes
          /\ \E ph \in {"Pending", "Running"} :
                /\ res' = [res EXCEPT ![OpKey] = NewRes(ph)]
                /\ \/ /\ Goto(IF ph = "Running" THEN "commit_running" ELSE "commit")
                      /\ UNCHANGED faults
                   \/ Goto("failed") /\ Fault
          /\ UNCHANGED inflight
       \/ /\ Fault
          /\ Goto("failed")
          /\ UNCHANGED res
          /\ \/ UNCHANGED inflight
             \/ /\ LateCreates
                /\ inflight' = inflight \cup
                                 {[key |-> OpKey, uid |-> op.uid, by |-> op.h]}
    /\ UNCHANGED <<ledger, pod, cap, d2>>

CreateCommit ==
    /\ op.pc \in {"commit", "commit_running"}
    /\ ledger' = [ledger EXCEPT ![op.h].state = "active",
                                ![op.h].started = (op.pc = "commit_running")]
    /\ Release
    /\ UNCHANGED <<res, inflight, pod, cap, d2, spent, faults>>

CreateFailed ==
    /\ op.pc = "failed"
    /\ SetState(op.h, "create_failed")
    /\ Goto("unwind")
    /\ UNCHANGED <<res, inflight, pod, cap, d2, spent, faults>>

(* _clear_target_fence_if_no_resource                                      *)
CreateUnwind ==
    /\ op.pc = "unwind"
    /\ IF res[OpKey] = NoRes THEN Goto("unwind_clear") ELSE Release
    /\ UNCHANGED <<ledger, res, inflight, pod, cap, d2, spent, faults>>

(* Mutant: the entry of a create that left no resource is dropped.         *)
CreateUnwindForget ==
    /\ op.pc = "unwind_clear"
    /\ ClearFence(op.x, op.uid)
    /\ ledger' = [ledger EXCEPT ![op.h] = NoEntry]
    /\ Release
    /\ UNCHANGED <<res, inflight, cap, d2, spent, faults>>

CreateUnwindClear ==
    /\ op.pc = "unwind_clear"
    /\ ClearFence(op.x, op.uid)
    /\ Release
    /\ UNCHANGED <<ledger, res, inflight, cap, d2, spent, faults>>

CreateSteps ==
    \/ CreateVerify \/ CreateList \/ CreateFence \/ CreateWriteAhead
    \/ D6AClear \/ D6AWrite \/ CreateApply \/ CreateCommit
    \/ CreateFailed \/ CreateUnwind \/ CreateUnwindClear

-----------------------------------------------------------------------------
(***************************************************************************)
(* operation_status and recovery_status: read the cluster, then record     *)
(* what was seen of the fault window.  Any executor may ask.               *)
(***************************************************************************)
Status(x, h) ==
    /\ op = Idle
    /\ Used(h)
    /\ ledger' = [ledger EXCEPT ![h] = Observed(ledger[h], Lookup(x, ledger[h]))]
    /\ UNCHANGED <<res, inflight, pod, cap, d2, op, spent, faults>>

(***************************************************************************)
(* destroy_experiment and cleanup_expired_leases share the deletion steps  *)
(* of _delete_and_verify_from_ledger.                                      *)
(***************************************************************************)
DestroyBegin(x, h) ==
    /\ op = Idle
    /\ Used(h)
    /\ op' = [pc |-> "observe", kind |-> "destroy", x |-> x, h |-> h,
              todo |-> {}, late |-> {}]
    /\ UNCHANGED <<ledger, res, inflight, pod, cap, d2, spent, faults>>

(* The window is recorded before the executor of the entry is checked.     *)
DestroyObserve ==
    /\ op.pc = "observe"
    /\ ledger' = [ledger EXCEPT ![op.h] = Observed(ledger[op.h],
                                                   Lookup(op.x, ledger[op.h]))]
    /\ IF ledger[op.h].x = op.x THEN Goto("check") ELSE Release
    /\ UNCHANGED <<res, inflight, pod, cap, d2, spent, faults>>

(* Mutant: the watchdog passes over entries whose cleanup failed before.   *)
OwnedOnce(x) == {h \in Handles : /\ Used(h)
                                 /\ ledger[h].x = x
                                 /\ ledger[h].state \in Cleanable \ {"cleanup_error"}}

(* One watchdog pass of executor x over its own cleanable entries; the     *)
(* current time is read once, so late holds the entries already due.       *)
Owned(x) == {h \in Handles : /\ Used(h)
                             /\ ledger[h].x = x
                             /\ ledger[h].state \in Cleanable}

ExpireBegin(x) ==
    /\ op = Idle
    /\ \E h \in Owned(x) :
          op' = [pc |-> "scan", kind |-> "expire", x |-> x, h |-> h,
                 todo |-> Owned(x),
                 late |-> {g \in Owned(x) : ledger[g].due}]
    /\ UNCHANGED <<ledger, res, inflight, pod, cap, d2, spent, faults>>

ExpireScan ==
    /\ op.pc = "scan"
    /\ \/ /\ op.todo = {}
          /\ Release
          /\ UNCHANGED ledger
       \/ \E h \in op.todo :
          /\ ledger' = [ledger EXCEPT ![h] = Observed(ledger[h], Lookup(op.x, ledger[h]))]
          /\ op' = [op EXCEPT !.h = h, !.todo = @ \ {h},
                              !.pc = IF h \in op.late THEN "check" ELSE "scan"]
    /\ UNCHANGED <<res, inflight, pod, cap, d2, spent, faults>>

(* An exception: destroy raises, the watchdog records it and scans on.     *)
CleanFails ==
    IF op.kind = "destroy"
    THEN Release /\ UNCHANGED ledger
    ELSE SetState(op.h, "cleanup_error") /\ Goto("scan")

(* Mutant: the name alone identifies the resource.                         *)
CleanUnchecked ==
    /\ op.pc = "check"
    /\ Goto("delete")
    /\ UNCHANGED <<ledger, res, inflight, pod, cap, d2, spent, faults>>

(* LEDGER_TARGET_MISMATCH                                                  *)
CleanCheck ==
    /\ op.pc = "check"
    /\ LET r == Lookup(op.x, ledger[op.h])
       IN  \/ /\ r = NoRes \/ Matches(r, ledger[op.h])
              /\ Goto("delete")
              /\ UNCHANGED ledger
           \/ /\ r # NoRes /\ ~Matches(r, ledger[op.h])
              /\ CleanFails
    /\ UNCHANGED <<res, inflight, pod, cap, d2, spent, faults>>

CleanKey == <<op.x, ledger[op.h].name>>

(* delete_experiment, by name; a resource with finalizers may linger.      *)
CleanDelete ==
    /\ op.pc = "delete"
    /\ Goto("confirm")
    /\ \/ res' = [res EXCEPT ![CleanKey] = NoRes] /\ UNCHANGED faults
       \/ Fault /\ UNCHANGED res
    /\ UNCHANGED <<ledger, inflight, pod, cap, d2, spent>>

(* Mutant: an issued delete is taken for a finished one.                   *)
CleanUnconfirmed ==
    /\ op.pc = "confirm"
    /\ Goto("unfence")
    /\ UNCHANGED <<ledger, res, inflight, pod, cap, d2, spent, faults>>

(* DESTROY_VERIFY_ABSENCE_FAILED                                           *)
CleanConfirm ==
    /\ op.pc = "confirm"
    /\ \/ res[CleanKey] = NoRes /\ Goto("unfence") /\ UNCHANGED ledger
       \/ res[CleanKey] # NoRes /\ CleanFails
    /\ UNCHANGED <<res, inflight, pod, cap, d2, spent, faults>>

CleanUnfence ==
    /\ op.pc = "unfence"
    /\ ClearFence(op.x, ledger[op.h].uid)
    /\ Goto("close")
    /\ UNCHANGED <<ledger, res, inflight, cap, d2, spent, faults>>

CleanClose ==
    /\ op.pc = "close"
    /\ ledger' = [ledger EXCEPT
                    ![op.h].state = IF op.kind = "destroy" THEN "destroyed"
                                    ELSE "expired_cleaned",
                    ![op.h].ended = TRUE]
    /\ IF op.kind = "destroy" THEN Release ELSE Goto("scan")
    /\ UNCHANGED <<res, inflight, pod, cap, d2, spent, faults>>

(* An API error makes the watchdog record cleanup_error and scan on: while *)
(* it first reads an entry, due or not, and at each later await.  A delete *)
(* that took effect before its call failed is CleanDelete, then this step. *)
ScanError ==
    /\ op.pc = "scan"
    /\ Fault
    /\ \E h \in op.todo :
          /\ SetState(h, "cleanup_error")
          /\ op' = [op EXCEPT !.h = h, !.todo = @ \ {h}]
    /\ UNCHANGED <<res, inflight, pod, cap, d2, spent>>

ExpireError ==
    /\ op.pc \in {"check", "delete", "confirm", "unfence"}
    /\ op.kind = "expire"
    /\ Fault
    /\ SetState(op.h, "cleanup_error")
    /\ Goto("scan")
    /\ UNCHANGED <<res, inflight, pod, cap, d2, spent>>

CleanSteps ==
    \/ DestroyObserve \/ ExpireScan \/ CleanCheck \/ CleanDelete
    \/ CleanConfirm \/ CleanUnfence \/ CleanClose

(* The process dies and its lock is released, or an await outside the      *)
(* create call and outside a watchdog pass raises: the operation ends here. *)
Abort ==
    /\ op # Idle
    /\ Fault
    /\ Release
    /\ UNCHANGED <<ledger, res, inflight, pod, cap, d2, spent>>

-----------------------------------------------------------------------------
(***************************************************************************)
(* The Controller's D2 disturbance replaces the target Pod: fence the      *)
(* baseline capability, restart the Pod, bind the capability to the        *)
(* replacement.  It does not take the ledger lock.                         *)
(***************************************************************************)
D2Fence(t) ==
    /\ d2 = Idle
    /\ pod.uid < MaxUid
    /\ d2' = [pc |-> "fenced", tok |-> t, prev |-> cap[t]]
    /\ cap' = [cap EXCEPT ![t] = ReplacementPending]
    /\ UNCHANGED <<ledger, res, inflight, pod, op, spent, faults>>

D2Replace ==
    /\ d2 # Idle /\ d2.pc = "fenced"
    /\ pod' = [uid |-> pod.uid + 1, fence |-> FALSE]
    /\ d2' = [d2 EXCEPT !.pc = "replaced"]
    /\ UNCHANGED <<ledger, res, inflight, cap, op, spent, faults>>

D2Rebind ==
    /\ d2 # Idle /\ d2.pc = "replaced"
    /\ cap' = [cap EXCEPT ![d2.tok] = pod.uid]
    /\ d2' = Idle
    /\ UNCHANGED <<ledger, res, inflight, pod, op, spent, faults>>

(* release_fence: the replacement or the rebind failed.                    *)
D2Release ==
    /\ d2 # Idle
    /\ Fault
    /\ cap' = IF cap[d2.tok] = ReplacementPending
              THEN [cap EXCEPT ![d2.tok] = d2.prev] ELSE cap
    /\ d2' = Idle
    /\ UNCHANGED <<ledger, res, inflight, pod, op, spent>>

-----------------------------------------------------------------------------
(***************************************************************************)
(* The cluster and the clock                                               *)
(***************************************************************************)
Advance(k) ==
    /\ res[k] # NoRes /\ res[k].phase # "Terminal"
    /\ res' = [res EXCEPT ![k].phase = IF @ = "Pending" THEN "Running"
                                       ELSE "Terminal"]
    /\ UNCHANGED <<ledger, inflight, pod, cap, d2, op, spent, faults>>

(* A cancelled create reaches the API server, which refuses a taken name.  *)
Land(c) ==
    /\ inflight' = inflight \ {c}
    /\ res' = IF res[c.key] = NoRes
              THEN [res EXCEPT ![c.key] = [phase |-> "Pending", uid |-> c.uid,
                                           by |-> c.by]]
              ELSE res
    /\ UNCHANGED <<ledger, pod, cap, d2, op, spent, faults>>

DeadlinePasses(h) ==
    /\ Used(h) /\ ~ledger[h].due
    /\ ledger' = [ledger EXCEPT ![h].due = TRUE]
    /\ UNCHANGED <<res, inflight, pod, cap, d2, op, spent, faults>>

Environment ==
    \/ \E t \in D2Tokens : D2Fence(t)
    \/ D2Replace \/ D2Rebind \/ D2Release
    \/ \E k \in Keys : Advance(k)
    \/ \E c \in inflight : Land(c)
    \/ \E h \in Handles : DeadlinePasses(h)

Calls ==
    \/ \E x \in Executors, h \in Handles, n \in Names, uid \in Uids, t \in Tokens :
          CreateBegin(x, h, n, uid, t)
    \/ \E x \in Executors, h \in Handles : Status(x, h) \/ DestroyBegin(x, h)
    \/ \E x \in Executors : ExpireBegin(x)

Next ==
    \/ Calls \/ CreateSteps \/ CleanSteps
    \/ ScanError \/ ExpireError \/ Abort
    \/ Environment

Spec == Init /\ [][Next]_vars

(* The operation stands at an await of kubectl, which has no timeout.      *)
Awaiting ==
    /\ op.pc \notin {"idle", "write", "d6a_write", "commit", "commit_running",
                     "failed", "close"}
    /\ op.pc = "scan" => op.todo # {}

(***************************************************************************)
(* The watchdog loop of each server runs for ever and its lock is polled   *)
(* until it is won; between two awaits an operation goes on; time passes.  *)
(* Nothing makes a kubectl call return: neither backend bounds one.        *)
(***************************************************************************)
Fairness ==
    /\ WF_vars(~Awaiting /\ (CreateSteps \/ CleanSteps))
    /\ \A x \in Executors : SF_vars(ExpireBegin(x))
    /\ \A h \in Handles : WF_vars(DeadlinePasses(h))

FairSpec == Spec /\ Fairness

-----------------------------------------------------------------------------
(***************************************************************************)
(* Safety                                                                  *)
(***************************************************************************)
Live(k) == res[k] # NoRes

(* Every chaos resource the service ever put in the cluster has a ledger   *)
(* entry naming its executor, its name and its target, whatever crash,     *)
(* cancellation or ambiguous error came in between: the entry is written   *)
(* before the create call and no later call overwrites it.                 *)
EveryFaultIsLedgered ==
    \A k \in Keys : Live(k) =>
        LET h == res[k].by
        IN  /\ Used(h)
            /\ ledger[h].x = k[1]
            /\ ledger[h].name = k[2]
            /\ ledger[h].uid = res[k].uid

(* While a resource is in the cluster its entry stays in a state the       *)
(* deadline watchdog cleans: no path of create, destroy or an earlier      *)
(* watchdog pass closes an entry over a live fault.  A create that reaches *)
(* the API server after its caller was cancelled is the exception.         *)
NoFaultEscapesTheWatchdog ==
    ~LateCreates =>
        \A k \in Keys : Live(k) => ledger[res[k].by].state \in Cleanable

(* A create request is issued at most once per cleanup handle and at most  *)
(* once per baseline capability, over retries, crashes and both executors, *)
(* although a D6-A retry overwrites the entry that recorded the token.     *)
OneCreatePerHandleAndToken ==
    /\ \A s1, s2 \in spent : s1[1] = s2[1] \/ s1[2] = s2[2] => s1 = s2
    /\ op.pc = "apply" =>
          \A s \in spent : s[1] # op.h /\ s[2] # op.tok

(* The concurrency budget of one: an executor never has two non-terminal   *)
(* resources, although the count is taken several awaits before the create. *)
OneActiveFaultPerExecutor ==
    ~LateCreates =>
        \A x \in Executors : \A m, n \in Active(x) : m = n

(* When the service issues a delete, the resource it removes by name is    *)
(* still the one the ledger entry describes: the check made one await      *)
(* earlier cannot have become stale under the lock.                        *)
DeleteHitsTheLedgeredTarget ==
    ~LateCreates /\ op.pc = "delete" =>
        LET r == res[CleanKey]
        IN  r # NoRes => r.uid = ledger[op.h].uid

(* A closed entry stays closed and keeps what it recorded of its fault.    *)
ClosedEntriesStay ==
    \A h \in Handles : Used(h) /\ ledger[h].state \in Closed =>
        /\ ledger'[h].state \in Closed
        /\ ledger'[h].name = ledger[h].name
        /\ ledger'[h].tok = ledger[h].tok
ClosedEntriesAreFinal == [][ClosedEntriesStay]_vars

(***************************************************************************)
(* The inductive invariant behind the safety properties                    *)
(***************************************************************************)
BeforeWrite == {"verify", "list", "fence", "write", "d6a_clear", "d6a_write"}
AfterWrite  == {"apply", "commit", "commit_running", "failed", "unwind",
                "unwind_clear"}

(* Handle h owns the resource: its entry names it and is beyond D6-A.      *)
Leased(h, x, n, uid) ==
    /\ Used(h)
    /\ ledger[h].x = x
    /\ ledger[h].name = n
    /\ ledger[h].uid = uid
    /\ ledger[h].state # "operation_outcome_unknown"

ResourcesLeased ==
    \A k \in Keys : Live(k) => Leased(res[k].by, k[1], k[2], res[k].uid)

InflightLeased ==
    \A c \in inflight : Leased(c.by, c.key[1], c.key[2], c.uid)

TokensDistinct ==
    \A g, h \in Handles :
        Used(g) /\ Used(h) /\ ledger[g].tok = ledger[h].tok => g = h

SpentLedgered ==
    \A s \in spent : /\ Used(s[1])
                     /\ ledger[s[1]].tok = s[2]
                     /\ ledger[s[1]].state # "operation_outcome_unknown"

CreateHoldsHandle ==
    /\ op.pc \in BeforeWrite => /\ Used(op.h) => Retriable(op.h)
                               /\ TokenUnused(op.h, op.tok)
    /\ op.pc \in AfterWrite => /\ Leased(op.h, op.x, op.name, op.uid)
                              /\ ledger[op.h].tok = op.tok
                              /\ ledger[op.h].state \in Cleanable
    /\ op.pc = "apply" => \A s \in spent : s[1] # op.h

CleanHoldsHandle ==
    /\ op.pc \in CleanPCs => /\ Used(op.h)
                            /\ \A h \in op.todo : Used(h) /\ ledger[h].x = op.x
    /\ op.pc \in CleanPCs \ {"observe", "scan"} => ledger[op.h].x = op.x

ReplacementBound == d2.pc = "fenced" => pod.uid < MaxUid

(* What holds besides when no create can land late.                        *)
NothingLate ==
    /\ inflight = {}
    /\ \A k \in Keys : Live(k) => ledger[res[k].by].state \in Cleanable
    /\ op.pc \in {"unfence", "close"} => res[CleanKey] = NoRes
    /\ op.pc = "delete" /\ res[CleanKey] # NoRes =>
          res[CleanKey].uid = ledger[op.h].uid
    /\ op.pc \in {"fence", "write", "d6a_clear", "d6a_write", "apply"} =>
          Active(op.x) = {}
    /\ \A x \in Executors : \A m, n \in Active(x) : m = n

Inductive ==
    /\ TypeOK
    /\ ResourcesLeased
    /\ InflightLeased
    /\ TokensDistinct
    /\ SpentLedgered
    /\ CreateHoldsHandle
    /\ CleanHoldsHandle
    /\ ReplacementBound
    /\ ~LateCreates => NothingLate

(* LEDGER_TARGET_MISMATCH: another target's resource has the entry's name. *)
Obstructed(h) ==
    /\ Used(h)
    /\ LET r == Lookup(ledger[h].x, ledger[h])
       IN  r # NoRes /\ ~Matches(r, ledger[h])

CleanupDue(h) == Used(h) /\ ledger[h].state \in Cleanable
IsClosed(h)   == Used(h) /\ ledger[h].state \in Closed

(* An entry the watchdog owes a cleanup is eventually closed, even if its  *)
(* create failed, its server crashed or an earlier cleanup went wrong, but *)
(* for the two ways in which the code leaves it open for ever: a kubectl   *)
(* call that never returns keeps the ledger lock, and a resource of        *)
(* another target under the entry's name (a late create of a closed handle *)
(* over a Pod replaced since) fails every pass with LEDGER_TARGET_MISMATCH *)
(* for as long as it stays.                                                *)
EveryLeaseIsClosed ==
    \A h \in Handles :
        CleanupDue(h) ~> (IsClosed(h) \/ []Obstructed(h) \/ []Awaiting)

=============================================================================
