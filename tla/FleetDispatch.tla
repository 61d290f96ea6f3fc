---------------------------- MODULE FleetDispatch ----------------------------
(***************************************************************************)
(* The batch dispatcher of fleet_service: a batch of trials is planned     *)
(* onto slots (one replica of the system under test with one Controller    *)
(* each), dispatched, polled, retried after platform failures and stopped. *)
(*                                                                         *)
(* Several threads of one process share the SQLite store, every method of  *)
(* which is one transaction: the dispatcher loop polls and dispatches, the *)
(* request thread of submit_batch dispatches too, stop_batch and           *)
(* refresh_slot run in request threads of their own.  Each works on a      *)
(* snapshot of the rows it read, so the variable th keeps, per thread, its *)
(* program counter and its snapshot.  A restart of the process forgets     *)
(* every thread and the set of stopped batches; the store survives.        *)
(*                                                                         *)
(* The Controller of a slot is modelled by what                            *)
(* stage2_service.task_service.create promises the Fleet: one live task at *)
(* a time, and the existing task again for a known Idempotency-Key, which  *)
(* the Fleet derives from the item alone.                                  *)
(***************************************************************************)
EXTENDS Naturals, FiniteSets

CONSTANTS
    Items, Batches, Slots,
    None,           \* no slot
    BatchOf,        \* the batch of each item
    PinTo,          \* the slot an item's request names, or None
    MaxConcurrency, \* max_concurrency of every batch
    RetryLimit,     \* platform_retry_limit of every batch
    DeferralLimit,  \* UPSTREAM_DEFERRAL_LIMIT
    CanStop,        \* the batches an operator may stop
    CanRefresh,     \* the slots whose phase an operator may refresh
    CanDrain,       \* the slots an operator may drain
    MaxFaults,      \* bound: transient answers, lost replies, unready slots
    MaxRestarts     \* bound: restarts of the Fleet process

ASSUME FleetAssumption ==
    /\ None \notin Slots
    /\ BatchOf \in [Items -> Batches]
    /\ PinTo \in [Items -> Slots \cup {None}]
    /\ CanStop \subseteq Batches
    /\ CanRefresh \subseteq Slots /\ CanDrain \subseteq Slots
    /\ MaxConcurrency \in Nat \ {0}
    /\ {RetryLimit, DeferralLimit, MaxFaults, MaxRestarts} \subseteq Nat

VARIABLES
    item,      \* the rows of the table items
    batch,     \* the state column of the table batches
    phase,     \* the phase column of the table slots
    pin,       \* the slot each item was planned onto (resolved.namespace)
    stopped,   \* _stopped_batches, in memory
    run,       \* the task each item's Idempotency-Key names at its Controller, or
               \* that the Controller refuses the item's request
    th,        \* the threads of the Fleet process
    faults, restarts

vars == <<item, batch, phase, pin, stopped, run, th, faults, restarts>>
store == <<item, batch, phase, pin>>
counters == <<faults, restarts>>

Settled   == {"Done", "Failed", "Invalid"}
OpenStates == {"Queued", "Assigned", "Running"}
InFlight  == {"Assigned", "Running"}
Outcomes  == {"done", "platform", "agent", "recovery"}
Phases    == {"Ready", "Busy", "Failed", "Draining"}
Answers   == {"accepted", "notready", "upstream", "rejected", "lost"}

NoRow == [state |-> "none"]
NoRows == [i \in Items |-> NoRow]
Rows == [state : OpenStates \cup Settled, slot : Slots \cup {None},
         run : BOOLEAN,              \* is run_id set?
         retries : Nat,              \* platform_retries
         defer : Nat,                \* failure.upstream_deferrals
         stop : BOOLEAN,             \* failure.stop_requested
         owner : {"none", "platform", "agent", "operator"}]

Dispatchers == {"loop", "submit"}
Threads == Dispatchers \cup {"stop", "refresh"}
Idle == [pc |-> "idle"]

(* A dispatching thread: the batches and rows it still has to visit, the    *)
(* rows and the Ready slots as it read them, the item it is submitting,    *)
(* the Controller's answer and the batch state it is about to write.       *)
Working(poll, todo) ==
    [pc |-> "batch", poll |-> poll, todo |-> todo, b |-> None, snap |-> NoRows,
     left |-> {}, ready |-> {}, i |-> None, ans |-> "none", st |-> "none"]

Tables == [Items -> Rows \cup {NoRow}]

DispatchStates ==
    [pc : {"batch", "items", "call", "reply", "write"}, poll : BOOLEAN,
     todo : SUBSET Batches, b : Batches \cup {None}, snap : Tables,
     left : SUBSET Items, ready : SUBSET Slots, i : Items \cup {None},
     ans : Answers \cup {"none"}, st : {"none", "Running", "Completed", "Stopped"}]
StopStates ==
    [pc : {"read", "items"}, b : Batches, snap : Tables, left : SUBSET Items]
RefreshStates == [pc : {"phase"}, s : Slots, p : Phases]

TypeOK ==
    /\ item \in Tables
    /\ batch \in [Batches -> {"none", "Scheduled", "Running", "Completed", "Stopped"}]
    /\ phase \in [Slots -> Phases]
    /\ pin \in [Items -> Slots \cup {None}]
    /\ stopped \subseteq Batches
    /\ run \in [Items -> Outcomes \cup {"none", "live", "refused"}]
    /\ th \in [Threads -> {Idle} \cup DispatchStates \cup StopStates \cup RefreshStates]
    /\ \A t \in Dispatchers : th[t] \in {Idle} \cup DispatchStates
    /\ th["stop"] \in {Idle} \cup StopStates
    /\ th["refresh"] \in {Idle} \cup RefreshStates
    /\ faults \in 0..MaxFaults
    /\ restarts \in 0..MaxRestarts

Init ==
    /\ item = NoRows
    /\ batch = [b \in Batches |-> "none"]
    /\ phase = [s \in Slots |-> "Ready"]
    /\ pin = [i \in Items |-> None]
    /\ stopped = {}
    /\ run = [i \in Items |-> "none"]
    /\ th = [t \in Threads |-> Idle]
    /\ faults = 0
    /\ restarts = 0

-----------------------------------------------------------------------------
(***************************************************************************)
(* The store                                                               *)
(***************************************************************************)
ItemsOf(b) == {i \in Items : BatchOf[i] = b}

(* items(batch_id), restricted to the rows in the given states.            *)
IdsIn(b, states) == {i \in ItemsOf(b) : item[i].state \in states}
Read(ids) == [i \in Items |-> IF i \in ids THEN item[i] ELSE NoRow]

(* claim_slot_for_item and busy_slot_ids.                                  *)
SlotBusy(s) == \E i \in Items : item[i].state \in InFlight /\ item[i].slot = s

Known == {b \in Batches : batch[b] # "none"}

Set(i, row) == item' = [item EXCEPT ![i] = row]

(* A transient answer or a lost reply, within the bound.                   *)
Fault == faults < MaxFaults /\ faults' = faults + 1

(* _finish_failed: r is the row as the caller read it, d the deferrals in  *)
(* the failure record it writes.                                           *)
FinishFailed(i, r, owner, d) ==
    IF owner = "platform" /\ r.retries < RetryLimit
    THEN Set(i, [item[i] EXCEPT !.state = "Queued", !.slot = None, !.run = FALSE,
                                !.retries = r.retries + 1, !.defer = d,
                                !.stop = FALSE, !.owner = owner])
    ELSE Set(i, [item[i] EXCEPT !.state = "Failed", !.defer = d, !.stop = FALSE,
                                !.owner = owner])

-----------------------------------------------------------------------------
(***************************************************************************)
(* submit_batch plans every item onto a slot, stores the batch and starts  *)
(* to dispatch in the request's own thread.                                *)
(***************************************************************************)
Load(f, s) == Cardinality({i \in DOMAIN f : f[i] = s})

(* plan_batch: a named slot is kept; the other items go to the least       *)
(* loaded of at most max_concurrency slots.                                *)
Plans(b) ==
    LET ready == {s \in Slots : phase[s] \in {"Ready", "Busy"}}
        width == IF Cardinality(ready) < MaxConcurrency THEN Cardinality(ready)
                 ELSE MaxConcurrency
        floating == {i \in ItemsOf(b) : PinTo[i] = None}
    IN  {f \in [ItemsOf(b) -> ready] :
           /\ \A i \in ItemsOf(b) \ floating : f[i] = PinTo[i]
           /\ \E usable \in SUBSET ready :
                /\ Cardinality(usable) = width
                /\ \A i \in floating : /\ f[i] \in usable
                                       /\ \A s \in usable :
                                             Load(f, f[i]) <= Load(f, s) + 1}

NewRow == [state |-> "Queued", slot |-> None, run |-> FALSE, retries |-> 0,
           defer |-> 0, stop |-> FALSE, owner |-> "none"]

OpenBatches == {b \in Known : batch[b] \notin {"Stopped", "Completed"}}

Submit(b) ==
    /\ th["submit"] = Idle
    /\ batch[b] = "none"
    /\ \E f \in Plans(b) :
          /\ pin' = [i \in Items |-> IF i \in DOMAIN f THEN f[i] ELSE pin[i]]
          /\ item' = [i \in Items |-> IF i \in DOMAIN f THEN NewRow ELSE item[i]]
    /\ batch' = [batch EXCEPT ![b] = "Scheduled"]
    /\ th' = [th EXCEPT !["submit"] = Working(TRUE, {})]    \* nothing to poll
    /\ UNCHANGED <<phase, stopped, run, counters>>

(***************************************************************************)
(* tick: poll_running, then dispatch_queued, each over every batch.        *)
(***************************************************************************)
Tick ==
    /\ th["loop"] = Idle
    /\ Known # {}
    /\ th' = [th EXCEPT !["loop"] = Working(TRUE, Known)]
    /\ UNCHANGED <<store, stopped, run, counters>>

PassEnds(t) ==
    /\ th[t] # Idle /\ th[t].pc = "batch" /\ th[t].todo = {}
    /\ th' = [th EXCEPT ![t] = IF th[t].poll THEN Working(FALSE, OpenBatches)
                               ELSE Idle]
    /\ UNCHANGED <<store, stopped, run, counters>>

(* The next batch: a dispatching pass skips a batch stopped in memory and  *)
(* reads the slots, then the rows.                                         *)
NextBatch(t, b) ==
    /\ th[t] # Idle /\ th[t].pc = "batch" /\ b \in th[t].todo
    /\ LET o == [th[t] EXCEPT !.todo = @ \ {b}]
           ids == IdsIn(b, IF o.poll THEN InFlight ELSE {"Queued"})
       IN  th' = [th EXCEPT ![t] =
                    IF ~o.poll /\ b \in stopped THEN o
                    ELSE [o EXCEPT !.pc = "items", !.b = b, !.snap = Read(ids),
                                   !.left = ids,
                                   !.ready = {s \in Slots : phase[s] = "Ready"}]]
    /\ UNCHANGED <<store, stopped, run, counters>>

At(t, pc) == th[t] # Idle /\ th[t].pc = pc
Drop(t, i) == [th[t] EXCEPT !.left = @ \ {i}]

(***************************************************************************)
(* _poll_item, on the row r as it was read.                                *)
(***************************************************************************)
(* Mutant: a trial that overran its time is filed as failed while it still *)
(* runs.                                                                   *)
PolledOverrun(i, r) ==
    \/ run[i] = "live" /\ FinishFailed(i, r, "agent", 0)
    \/ run[i] \in Outcomes /\ FinishFailed(i, r, "platform", 0)

(* The Controller reports the task; a stop of a task that overran its time *)
(* changes nothing here, since the task may end at any moment anyway.      *)
Polled(i, r) ==
    \/ /\ run[i] = "live"
       /\ Set(i, [item[i] EXCEPT !.state = IF r.state = "Running" THEN @ ELSE "Running"])
    \/ /\ run[i] \in Outcomes /\ r.stop
       /\ Set(i, [item[i] EXCEPT !.state = "Invalid", !.stop = FALSE, !.defer = 0,
                                 !.owner = "operator"])
    \/ /\ run[i] \in {"platform", "agent"} /\ ~r.stop
       /\ FinishFailed(i, r, run[i], 0)
    \/ /\ run[i] = "recovery" /\ ~r.stop
       /\ \E owner \in {"platform", "agent"} : FinishFailed(i, r, owner, 0)
    \/ /\ run[i] = "done" /\ ~r.stop
       /\ Set(i, [item[i] EXCEPT !.state = "Done", !.stop = FALSE, !.defer = 0,
                                 !.owner = "none"])

PollItem(i) ==
    /\ At("loop", "items") /\ th["loop"].poll /\ i \in th["loop"].left
    /\ LET r == th["loop"].snap[i]
       IN  \/ /\ ~r.run
              /\ UNCHANGED <<item, faults>>
           \/ /\ r.run
              /\ Polled(i, r)
              /\ UNCHANGED faults
           \/ /\ r.run
              /\ Fault
              /\ \/ UNCHANGED item                         \* unreachable for now
                 \/ FinishFailed(i, r, "platform", 0)      \* FLEET_RUN_UNREADABLE
    /\ th' = [th EXCEPT !["loop"] = Drop("loop", i)]
    /\ UNCHANGED <<batch, phase, pin, stopped, run, restarts>>

(***************************************************************************)
(* dispatch_queued: pick a slot, claim it, submit the item.  The batch's   *)
(* max_concurrency is not among the columns batches() reads, so it bounds  *)
(* nothing here.                                                           *)
(***************************************************************************)
(* Mutants: the slot, or the row, is not looked at again when it is claimed. *)
ClaimableBusy(t, i) == pin[i] \in th[t].ready /\ item[i].state = "Queued"
ClaimableStale(t, i) == pin[i] \in th[t].ready /\ ~SlotBusy(pin[i])

(* _pick_slot among the Ready slots as read, and claim_slot_for_item.      *)
Claimable(t, i) ==
    /\ pin[i] \in th[t].ready
    /\ ~SlotBusy(pin[i])
    /\ item[i].state = "Queued"

Claim(t, i) ==
    /\ At(t, "items") /\ ~th[t].poll /\ i \in th[t].left
    /\ IF Claimable(t, i)
       THEN /\ Set(i, [item[i] EXCEPT !.state = "Assigned", !.slot = pin[i]])
            /\ th' = [th EXCEPT ![t] = [Drop(t, i) EXCEPT !.pc = "call", !.i = i]]
       ELSE /\ UNCHANGED item
            /\ th' = [th EXCEPT ![t] = Drop(t, i)]
    /\ UNCHANGED <<batch, phase, pin, stopped, run, counters>>

Answer(t, a) == th' = [th EXCEPT ![t].pc = "reply", ![t].ans = a]

LiveAt(s) == {i \in Items : run[i] = "live" /\ pin[i] = s}
Unrecovered(s) == {i \in Items : run[i] = "recovery" /\ pin[i] = s}

(* create_run with the item's Idempotency-Key.                             *)
CreateRun(t) ==
    /\ At(t, "call")
    /\ LET i == th[t].i
           s == pin[i]
       IN  \/ /\ Fault                                   \* never reached it
              /\ Answer(t, "lost")
              /\ UNCHANGED run
           \/ /\ run[i] \in {"none", "refused"}            \* an invalid request
              /\ run' = [run EXCEPT ![i] = "refused"]
              /\ Answer(t, "rejected")
              /\ UNCHANGED faults
           \/ /\ run[i] \in Outcomes \cup {"live"}         \* the same task again
              /\ Answer(t, "accepted")
              /\ UNCHANGED <<run, faults>>
           \/ /\ run[i] = "none"
              /\ LiveAt(s) \cup Unrecovered(s) # {}      \* 409 TaskConflict
              /\ Answer(t, "rejected")
              /\ UNCHANGED <<run, faults>>
           \/ /\ run[i] = "none"
              /\ LiveAt(s) \cup Unrecovered(s) = {}
              /\ \/ /\ run' = [run EXCEPT ![i] = "live"]
                    /\ \/ Answer(t, "accepted") /\ UNCHANGED faults
                       \/ Fault /\ Answer(t, "lost")     \* the reply is lost
                 \/ /\ Fault
                    /\ \E a \in {"notready", "upstream"} : Answer(t, a)
                    /\ UNCHANGED run
    /\ UNCHANGED <<store, stopped, restarts>>

(* Mutant: a slot that is not ready keeps the item assigned to it.          *)
RecordedStuck(i, r, a) ==
    \/ /\ a = "accepted"
       /\ Set(i, [item[i] EXCEPT !.state = "Running", !.run = TRUE])
    \/ /\ a = "notready" /\ Set(i, item[i])
    \/ /\ a \notin {"accepted", "notready"}
       /\ FinishFailed(i, r, "platform", 0)

(* The rest of _submit, on the row as it was read before the claim.        *)
Recorded(i, r, a) ==
    LET d == r.defer + 1
        Requeue(n) == Set(i, [item[i] EXCEPT !.state = "Queued", !.slot = None,
                                             !.defer = n, !.stop = FALSE, !.owner = "none"])
    IN  \/ a = "notready" /\ Requeue(0)
        \/ a = "upstream" /\ d < DeferralLimit /\ Requeue(d)
        \/ a = "upstream" /\ d >= DeferralLimit /\ FinishFailed(i, r, "platform", d)
        \/ a = "lost" /\ FinishFailed(i, r, "platform", 0)
        \/ /\ a = "rejected"
           /\ Set(i, [item[i] EXCEPT !.state = "Invalid", !.defer = 0, !.stop = FALSE,
                                     !.owner = "agent"])
        \/ /\ a = "accepted"
           /\ Set(i, [item[i] EXCEPT !.state = "Running", !.run = TRUE, !.defer = 0,
                                     !.stop = FALSE, !.owner = "none"])

RecordReply(t) ==
    /\ At(t, "reply")
    /\ Recorded(th[t].i, th[t].snap[th[t].i], th[t].ans)
    /\ th' = [th EXCEPT ![t].pc = "items", ![t].i = None, ![t].ans = "none"]
    /\ UNCHANGED <<batch, phase, pin, stopped, run, counters>>

(***************************************************************************)
(* _refresh_batch_state reads the rows and the stopped set, then writes.   *)
(***************************************************************************)
(* Mutant: an assigned item counts as settled.                             *)
BatchStateEarly(b) ==
    IF \A i \in ItemsOf(b) : item[i].state \notin {"Queued", "Running"} THEN "Completed"
    ELSE IF b \in stopped THEN "Stopped" ELSE "Running"

BatchState(b) ==
    IF \A i \in ItemsOf(b) : item[i].state \notin OpenStates THEN "Completed"
    ELSE IF b \in stopped THEN "Stopped" ELSE "Running"

RefreshBatch(t) ==
    /\ At(t, "items") /\ th[t].left = {}
    /\ th' = [th EXCEPT ![t].pc = "write", ![t].st = BatchState(th[t].b),
                        ![t].snap = NoRows, ![t].ready = {}]
    /\ UNCHANGED <<store, stopped, run, counters>>

WriteBatch(t) ==
    /\ At(t, "write")
    /\ batch' = [batch EXCEPT ![th[t].b] = th[t].st]
    /\ th' = [th EXCEPT ![t] = Working(th[t].poll, th[t].todo)]
    /\ UNCHANGED <<item, phase, pin, stopped, run, counters>>

-----------------------------------------------------------------------------
(***************************************************************************)
(* stop_batch                                                              *)
(***************************************************************************)
StopBegin(b) ==
    /\ th["stop"] = Idle
    /\ b \in CanStop \ stopped
    /\ batch[b] # "none"
    /\ stopped' = stopped \cup {b}
    /\ th' = [th EXCEPT !["stop"] = [pc |-> "read", b |-> b, snap |-> NoRows,
                                          left |-> {}]]
    /\ UNCHANGED <<store, run, counters>>

StopRead ==
    /\ At("stop", "read")
    /\ LET ids == IdsIn(th["stop"].b, OpenStates)
       IN  th' = [th EXCEPT !["stop"].pc = "items", !["stop"].snap = Read(ids),
                            !["stop"].left = ids]
    /\ UNCHANGED <<store, stopped, run, counters>>

(* A queued row is dequeued; a running trial is stopped at its Controller, *)
(* which refuses when the task has already ended, and the row is marked.   *)
StopItem(i) ==
    /\ At("stop", "items") /\ i \in th["stop"].left
    /\ LET r == th["stop"].snap[i]
       IN  \/ /\ r.state = "Queued"
              /\ Set(i, [item[i] EXCEPT !.state = "Invalid", !.defer = 0, !.stop = FALSE,
                                        !.owner = "platform"])
              /\ UNCHANGED faults
           \/ /\ r.state # "Queued" /\ r.run /\ run[i] = "live"
              /\ Set(i, [item[i] EXCEPT !.stop = TRUE, !.defer = 0, !.owner = "operator"])
              /\ UNCHANGED faults
           \/ /\ r.state # "Queued" /\ (r.run => run[i] # "live")
              /\ UNCHANGED <<item, faults>>
           \/ /\ r.state # "Queued" /\ r.run /\ Fault
              /\ UNCHANGED item
    /\ th' = [th EXCEPT !["stop"] = Drop("stop", i)]
    /\ UNCHANGED <<batch, phase, pin, stopped, run, restarts>>

StopEnd ==
    /\ At("stop", "items") /\ th["stop"].left = {}
    /\ batch' = [batch EXCEPT ![th["stop"].b] = "Stopped"]
    /\ th' = [th EXCEPT !["stop"] = Idle]
    /\ UNCHANGED <<item, phase, pin, stopped, run, counters>>

(***************************************************************************)
(* refresh_slot reads the cluster and the busy slots, then writes a phase; *)
(* drain_slot writes one.                                                  *)
(***************************************************************************)
RefreshRead(s) ==
    /\ th["refresh"] = Idle
    /\ s \in CanRefresh
    /\ LET Found(p) == th' = [th EXCEPT !["refresh"] =
                                 [pc |-> "phase", s |-> s,
                                  p |-> IF phase[s] = "Draining" THEN "Draining" ELSE p]]
       IN  \/ Found(IF SlotBusy(s) THEN "Busy" ELSE "Ready") /\ UNCHANGED faults
           \/ Found("Failed") /\ Fault
    /\ UNCHANGED <<store, stopped, run, restarts>>

RefreshWrite ==
    /\ At("refresh", "phase")
    /\ phase' = [phase EXCEPT ![th["refresh"].s] = th["refresh"].p]
    /\ th' = [th EXCEPT !["refresh"] = Idle]
    /\ UNCHANGED <<item, batch, pin, stopped, run, counters>>

Drain(s) ==
    /\ s \in CanDrain
    /\ phase[s] # "Draining"
    /\ phase' = [phase EXCEPT ![s] = "Draining"]
    /\ UNCHANGED <<item, batch, pin, stopped, run, th, counters>>

-----------------------------------------------------------------------------
(* A trial ends at its Controller.                                         *)
RunEnds(i) ==
    /\ run[i] = "live"
    /\ \E o \in Outcomes : run' = [run EXCEPT ![i] = o]
    /\ UNCHANGED <<store, stopped, th, counters>>

(* The Fleet process restarts.                                             *)
Restart ==
    /\ restarts < MaxRestarts
    /\ restarts' = restarts + 1
    /\ th' = [t \in Threads |-> Idle]
    /\ stopped' = {}
    /\ UNCHANGED <<store, run, faults>>

DispatchStep(t) ==
    \/ PassEnds(t) \/ (\E b \in Batches : NextBatch(t, b))
    \/ (\E i \in Items : Claim(t, i))
    \/ CreateRun(t) \/ RecordReply(t) \/ RefreshBatch(t) \/ WriteBatch(t)

StopStep == StopRead \/ (\E i \in Items : StopItem(i)) \/ StopEnd

Next ==
    \/ \E b \in Batches : Submit(b) \/ StopBegin(b)
    \/ Tick
    \/ \E t \in Dispatchers : DispatchStep(t)
    \/ \E i \in Items : PollItem(i) \/ RunEnds(i)
    \/ StopStep
    \/ \E s \in Slots : RefreshRead(s) \/ Drain(s)
    \/ RefreshWrite
    \/ Restart

Spec == Init /\ [][Next]_vars

(***************************************************************************)
(* The loop ticks for ever, a started thread goes on, a trial ends.        *)
(***************************************************************************)
Fairness ==
    /\ WF_vars(Tick)
    /\ WF_vars(DispatchStep("loop") \/ \E i \in Items : PollItem(i))
    /\ WF_vars(DispatchStep("submit"))
    /\ WF_vars(StopStep)
    /\ WF_vars(RefreshWrite)
    /\ \A i \in Items : WF_vars(RunEnds(i))

FairSpec == Spec /\ Fairness

-----------------------------------------------------------------------------
(* Two items are never in flight on one slot, although two threads         *)
(* dispatch from snapshots of their own: claim_slot_for_item checks the    *)
(* slot and the row in one transaction.                                    *)
SlotExclusive ==
    \A i, j \in Items :
        /\ item[i].state \in InFlight /\ item[j].state \in InFlight
        /\ item[i].slot = item[j].slot
        => i = j

(* A batch is reported Completed only when every item of it is settled,    *)
(* whatever thread computed the state and however late it wrote it; a      *)
(* queued item of a Completed batch would never be dispatched again.       *)
CompletedMeansSettled ==
    \A b \in Batches : batch[b] = "Completed" =>
        \A i \in ItemsOf(b) : item[i].state \in Settled

(* The Fleet let the item's trial go: it requeued or failed the item after *)
(* an answer that was lost or could not be read.                           *)
LetGo(i) ==
    item[i].retries > 0 \/ (item[i].state = "Failed" /\ item[i].owner = "platform")

(* The Controller of the item's slot is held by another trial: one whose   *)
(* recovery failed, or one that ran although the Fleet had let it go.      *)
SlotLost(i) ==
    \E j \in Items \ {i} :
        /\ pin[j] = pin[i]
        /\ run[j] = "recovery" \/ (run[j] \in Outcomes \cup {"live"} /\ LetGo(j))

(* A failure is the Agent's only for a trial that ran and failed, or for a *)
(* request the Controller refuses as such, but for one case of the Fleet's *)
(* own making: a TaskConflict, which _submit files as the agent's too.  It *)
(* meets a slot lost to another trial and nothing else: no item is blamed  *)
(* for a trial that the Fleet itself still has in flight on its slot.      *)
AgentBlamedFairly ==
    \A i \in Items :
        item[i].state \in {"Failed", "Invalid"} /\ item[i].owner = "agent" =>
            run[i] \in {"agent", "recovery", "refused"} \/ SlotLost(i)

(* A live trial is one the Fleet still follows: its item is in flight, or  *)
(* queued to be submitted again under the same key.  The one exception is  *)
(* an item given up as the platform's failure, after lost or unreadable    *)
(* answers used up its retries; no answer of the Agent's is ever filed     *)
(* over a trial that is still running.                                     *)
EveryTrialIsFollowed ==
    \A i \in Items : run[i] = "live" =>
        \/ item[i].state \in OpenStates
        \/ item[i].state = "Failed" /\ item[i].owner = "platform"

(* A settled item stays settled, with the owner it was settled for.        *)
SettledIsFinal ==
    [][\A i \in Items : item[i].state \in Settled =>
          item'[i].state = item[i].state /\ item'[i].owner = item[i].owner]_vars

(* Every item of a submitted batch is eventually settled, unless the       *)
(* operator stops the batch (an item that was in flight when stop_batch    *)
(* took its snapshot may be queued again, and nothing dispatches it then)  *)
(* or drains the slot it was planned onto: no other slot takes it over.    *)
EveryItemSettles ==
    \A i \in Items : item[i].state = "Queued"
        ~> \/ item[i].state \in Settled
           \/ BatchOf[i] \in stopped
           \/ pin[i] \in Slots /\ phase[pin[i]] = "Draining"
=============================================================================
