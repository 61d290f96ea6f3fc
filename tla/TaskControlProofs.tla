------------------------- MODULE TaskControlProofs -------------------------
(***************************************************************************)
(* Proofs about the task API, for any number of tasks, callers and keys    *)
(* and for every value of the bounds: its type invariant, the exclusion by *)
(* the runtime lock, that it implements EnvironmentUse, that no task is    *)
(* created over an open recovery, and what the label ABORTED stands for.   *)
(***************************************************************************)
EXTENDS TaskControl, TLAPS

\* The thread of the campaign reports for a campaign that is running, and
\* only that thread labels the task at the end.
EventsOfCampaigns ==
    /\ \A e \in Emitters : ev[e].pc # "idle" => ev[e].task \in Tasks
    /\ ev["run"].pc # "idle" => fut[ev["run"].task] = "RUNNING"
    /\ ev["monitor"].pc # "label"

\* A request works on a task that exists, and a create that has not
\* submitted yet is the only one that will submit its task.
RequestsOfTasks ==
    /\ \A c \in Callers :
          /\ call[c].pc \in {"bind", "submit", "reject", "start", "write"} =>
                call[c].task \in Tasks /\ status[call[c].task] # "ABSENT"
          /\ call[c].pc = "write" => call[c].status # "ABSENT"
          /\ call[c].pc \in {"bind", "submit"} => fut[call[c].task] = "NONE"
    /\ \A c, d \in Callers :
          /\ call[c].pc \in {"bind", "submit"} /\ call[d].pc \in {"bind", "submit"}
          /\ call[c].task = call[d].task
          => c = d
    /\ \A t \in Tasks : status[t] = "ABSENT" => fut[t] = "NONE"

\* The control worker works on a task.
ControlOfTasks == ctl.pc # "idle" => ctl.task \in Tasks

Inductive ==
    TypeOK /\ LeaseHeldExactly /\ EventsOfCampaigns /\ RequestsOfTasks /\ ControlOfTasks
----------------------------------------------------------------------------
(***************************************************************************)
(* Records                                                                 *)
(***************************************************************************)
USE TaskAssumption DEF files, supervisor, world, bounds

\* The idle records have their types.
LEMMA IdleTyped ==
    IdleCall \in Requests /\ IdleCtl \in Workers /\ IdleEv \in Reports
BY DEF IdleCall, Request, IdleCtl, IdleEv, Requests, Workers, Reports, CallPcs, CtlPcs,
       Actions, ActStates, ControlStates, Statuses, Kinds

\* The actions of a task that are written back have their type.
LEMMA WriteBackTyped ==
    ASSUME TypeOK, NEW t \in Tasks, NEW seen \in [Actions -> ActStates], NEW a \in Actions,
           NEW state \in ActStates, WriteBack(t, seen, a, state)
    PROVE  acts' \in [Tasks -> [Actions -> ActStates]] /\ lost' \subseteq Tasks
BY DEF TypeOK, WriteBack

\* A request that moves on without a new task.
LEMMA CallMoves ==
    ASSUME RequestsOfTasks, call \in [Callers -> Requests], NEW c \in Callers,
           UNCHANGED <<status, fut>>,
           call' \in [Callers -> Requests],
           \A d \in Callers : d # c => call'[d] = call[d],
           \/ call'[c].pc \in {"idle", "gate", "runs", "store"}
           \/ /\ call'[c].task = call[c].task
              /\ call[c].pc = "bind" /\ call'[c].pc = "submit"
           \/ /\ call'[c].task = call[c].task
              /\ call[c].pc = "submit" /\ call'[c].pc = "reject"
           \/ /\ call'[c].pc \in {"start", "write"}
              /\ call'[c].task \in Tasks /\ status[call'[c].task] # "ABSENT"
              /\ call'[c].pc = "write" => call'[c].status # "ABSENT"
    PROVE  RequestsOfTasks'
BY DEF RequestsOfTasks
----------------------------------------------------------------------------
(***************************************************************************)
(* create                                                                  *)
(***************************************************************************)

\* A create begins.
LEMMA CreateBeginKeeps ==
    ASSUME Inductive, NEW c \in Callers, NEW k \in Keys, CreateBegin(c, k)
    PROVE  Inductive'
<1> USE DEF Inductive
<1>1. call[c] \in Requests /\ call \in [Callers -> Requests]
  BY DEF TypeOK
<1>2. call' \in [Callers -> Requests]
  <2>1. Request("gate", "abort", NoTask, k) \in Requests
    BY DEF Request, Requests, CallPcs, Actions, ActStates, ControlStates, Statuses
  <2> QED  BY <1>1, <2>1 DEF CreateBegin
<1>3. TypeOK'
  BY <1>2 DEF TypeOK, CreateBegin
<1>4. LeaseHeldExactly'
  BY DEF LeaseHeldExactly, InFlight, CreateBegin
<1>5. EventsOfCampaigns'
  BY DEF EventsOfCampaigns, CreateBegin
<1>6. RequestsOfTasks'
  BY <1>1, <1>2, CallMoves DEF CreateBegin, Request
<1>7. ControlOfTasks'
  BY DEF ControlOfTasks, CreateBegin
<1> QED  BY <1>3, <1>4, <1>5, <1>6, <1>7

\* It has looked for unresolved recoveries.
LEMMA CreateGateKeeps ==
    ASSUME Inductive, NEW c \in Callers, CreateGate(c)
    PROVE  Inductive'
<1> USE DEF Inductive
<1>1. call[c] \in Requests /\ call \in [Callers -> Requests]
  BY DEF TypeOK
<1>2. call' \in [Callers -> Requests]
  BY <1>1, IdleTyped DEF CreateGate, Return, Requests, CallPcs
<1>3. TypeOK'
  BY <1>2 DEF TypeOK, CreateGate
<1>4. LeaseHeldExactly'
  BY DEF LeaseHeldExactly, InFlight, CreateGate
<1>5. EventsOfCampaigns'
  BY DEF EventsOfCampaigns, CreateGate
<1>6. RequestsOfTasks'
  BY <1>1, <1>2, CallMoves DEF CreateGate, Return, RequestsOfTasks, Requests, IdleCall, Request
<1>7. ControlOfTasks'
  BY DEF ControlOfTasks, CreateGate
<1> QED  BY <1>3, <1>4, <1>5, <1>6, <1>7

\* It has looked for live campaigns.
LEMMA CreateRunsKeeps ==
    ASSUME Inductive, NEW c \in Callers, CreateRuns(c)
    PROVE  Inductive'
<1> USE DEF Inductive
<1>1. call[c] \in Requests /\ call \in [Callers -> Requests]
  BY DEF TypeOK
<1>2. call' \in [Callers -> Requests]
  BY <1>1, IdleTyped DEF CreateRuns, Return, Goto, Requests, CallPcs
<1>3. TypeOK'
  BY <1>2 DEF TypeOK, CreateRuns
<1>4. LeaseHeldExactly'
  BY DEF LeaseHeldExactly, InFlight, CreateRuns
<1>5. EventsOfCampaigns'
  BY DEF EventsOfCampaigns, CreateRuns
<1>6. RequestsOfTasks'
  BY <1>1, <1>2, CallMoves DEF CreateRuns, Return, Goto, RequestsOfTasks, Requests, IdleCall, Request
<1>7. ControlOfTasks'
  BY DEF ControlOfTasks, CreateRuns
<1> QED  BY <1>3, <1>4, <1>5, <1>6, <1>7

\* It has written the task.
LEMMA CreateStoreKeeps ==
    ASSUME Inductive, NEW c \in Callers, NEW t \in Tasks, CreateStore(c, t)
    PROVE  Inductive'
<1> USE DEF Inductive
<1>1. call[c] \in Requests /\ call \in [Callers -> Requests]
  BY DEF TypeOK
<1>2. call' \in [Callers -> Requests]
  BY <1>1, IdleTyped DEF CreateStore, Requests, CallPcs
<1>3. TypeOK'
  BY <1>2 DEF TypeOK, CreateStore, Label, Statuses
<1>4. LeaseHeldExactly'
  BY DEF LeaseHeldExactly, InFlight, CreateStore
<1>5. EventsOfCampaigns'
  BY DEF EventsOfCampaigns, CreateStore
<1>6. RequestsOfTasks'
  BY <1>1, <1>2 DEF CreateStore, Label, RequestsOfTasks, Requests, TypeOK
<1>7. ControlOfTasks'
  BY DEF ControlOfTasks, CreateStore
<1> QED  BY <1>3, <1>4, <1>5, <1>6, <1>7

\* It has written the key.
LEMMA CreateBindKeeps ==
    ASSUME Inductive, NEW c \in Callers, CreateBind(c)
    PROVE  Inductive'
<1> USE DEF Inductive
<1>1. call[c] \in Requests /\ call \in [Callers -> Requests]
  BY DEF TypeOK
<1>2. call' \in [Callers -> Requests]
  BY <1>1, IdleTyped DEF CreateBind, Goto, Requests, CallPcs
<1>3. TypeOK'
  BY <1>2 DEF TypeOK, CreateBind, Requests
<1>4. LeaseHeldExactly'
  BY DEF LeaseHeldExactly, InFlight, CreateBind
<1>5. EventsOfCampaigns'
  BY DEF EventsOfCampaigns, CreateBind
<1>6. RequestsOfTasks'
  BY <1>1, <1>2, CallMoves DEF CreateBind, Goto, RequestsOfTasks, Requests
<1>7. ControlOfTasks'
  BY DEF ControlOfTasks, CreateBind
<1> QED  BY <1>3, <1>4, <1>5, <1>6, <1>7

\* It has submitted the campaign, or was refused.
LEMMA CreateSubmitKeeps ==
    ASSUME Inductive, NEW c \in Callers, CreateSubmit(c)
    PROVE  Inductive'
<1> USE DEF Inductive
<1>1. call[c] \in Requests /\ call \in [Callers -> Requests]
  BY DEF TypeOK
<1>2. call' \in [Callers -> Requests]
  BY <1>1, IdleTyped DEF CreateSubmit, Return, Goto, Requests, CallPcs
<1>3. TypeOK'
  BY <1>2 DEF TypeOK, CreateSubmit, Requests, Futures, RequestsOfTasks
<1>4. LeaseHeldExactly'
  BY DEF LeaseHeldExactly, RequestsOfTasks, TypeOK, InFlight, CreateSubmit
<1>5. EventsOfCampaigns'
  <2>1. \A t \in Tasks : fut[t] = "RUNNING" => fut'[t] = "RUNNING"
    BY DEF CreateSubmit, RequestsOfTasks, TypeOK
  <2> QED  BY <2>1 DEF CreateSubmit, EventsOfCampaigns, Emitters
<1>6. RequestsOfTasks'
  <2>1. CASE InFlight = {} /\ lease = NoTask
    <3>1. /\ call' = [call EXCEPT ![c] = IdleCall]
          /\ fut' = [fut EXCEPT ![call[c].task] = "PENDING"]
          /\ UNCHANGED status
      BY <2>1 DEF CreateSubmit, Return
    <3> QED  BY <1>1, <3>1 DEF RequestsOfTasks, CreateSubmit, IdleCall, Request, TypeOK
  <2>2. CASE ~(InFlight = {} /\ lease = NoTask)
    BY <2>2, <1>1, <1>2, CallMoves DEF CreateSubmit, Goto, Requests
  <2> QED  BY <2>1, <2>2
<1>7. ControlOfTasks'
  BY DEF ControlOfTasks, CreateSubmit
<1> QED  BY <1>3, <1>4, <1>5, <1>6, <1>7

\* It has labelled the refused task.
LEMMA CreateRejectKeeps ==
    ASSUME Inductive, NEW c \in Callers, CreateReject(c)
    PROVE  Inductive'
<1> USE DEF Inductive
<1>1. call[c] \in Requests /\ call \in [Callers -> Requests]
  BY DEF TypeOK
<1>2. call' \in [Callers -> Requests]
  BY <1>1, IdleTyped DEF CreateReject, Return, Requests, CallPcs
<1>3. TypeOK'
  BY <1>2 DEF TypeOK, CreateReject, Label, Statuses
<1>4. LeaseHeldExactly'
  BY DEF LeaseHeldExactly, InFlight, CreateReject
<1>5. EventsOfCampaigns'
  BY DEF EventsOfCampaigns, CreateReject
<1>6. RequestsOfTasks'
  BY <1>1, <1>2 DEF CreateReject, Return, Label, IdleCall, Request, RequestsOfTasks, Requests, TypeOK
<1>7. ControlOfTasks'
  BY DEF ControlOfTasks, CreateReject
<1> QED  BY <1>3, <1>4, <1>5, <1>6, <1>7
----------------------------------------------------------------------------
(***************************************************************************)
(* The requests for control actions                                        *)
(***************************************************************************)

\* A control request begins.
LEMMA ControlBeginKeeps ==
    ASSUME Inductive, NEW c \in Callers, NEW a \in Actions, NEW t \in Tasks, ControlBegin(c, a, t)
    PROVE  Inductive'
<1> USE DEF Inductive
<1>1. call[c] \in Requests /\ call \in [Callers -> Requests]
  BY DEF TypeOK
<1>2. call' \in [Callers -> Requests]
  <2>1. Request("start", a, t, NoTask) \in Requests
    BY DEF Request, Requests, CallPcs, Actions, ActStates, ControlStates, Statuses
  <2> QED  BY <1>1, <2>1 DEF ControlBegin
<1>3. TypeOK'
  BY <1>2 DEF TypeOK, ControlBegin
<1>4. LeaseHeldExactly'
  BY DEF LeaseHeldExactly, InFlight, ControlBegin
<1>5. EventsOfCampaigns'
  BY DEF EventsOfCampaigns, ControlBegin
<1>6. RequestsOfTasks'
  <2>1. CASE UNCHANGED call
    BY <2>1 DEF ControlBegin, RequestsOfTasks
  <2>2. CASE call' = [call EXCEPT ![c] = Request("start", a, t, NoTask)]
    <3>1. call'[c].pc = "start" /\ call'[c].task = t
      BY <1>1, <2>2 DEF Request
    <3> QED  BY <1>1, <1>2, <2>2, <3>1, CallMoves DEF ControlBegin
  <2> QED  BY <2>1, <2>2 DEF ControlBegin
<1>7. ControlOfTasks'
  BY DEF ControlOfTasks, ControlBegin
<1> QED  BY <1>3, <1>4, <1>5, <1>6, <1>7

\* It has read the status file.
LEMMA ControlStartKeeps ==
    ASSUME Inductive, NEW c \in Callers, NEW same \in BOOLEAN, ControlStart(c, same)
    PROVE  Inductive'
<1> USE DEF Inductive
<1>1. call[c] \in Requests /\ call \in [Callers -> Requests]
  BY DEF TypeOK
<1>2. call' \in [Callers -> Requests]
  <2>1. CASE call' = [call EXCEPT ![c] = IdleCall]
    BY <1>1, <2>1, IdleTyped
  <2>2. CASE /\ call[c].pc = "start"
             /\ call' = [call EXCEPT ![c].pc = "write", ![c].seen = acts[call[c].task],
                                     ![c].status = status[call[c].task]]
    <3>1. acts[call[c].task] \in [Actions -> ActStates] /\ status[call[c].task] \in Statuses
      BY <2>2 DEF TypeOK, RequestsOfTasks
    <3>2. [call[c] EXCEPT !.pc = "write", !.seen = acts[call[c].task],
                          !.status = status[call[c].task]] \in Requests
      BY <1>1, <3>1 DEF Requests, CallPcs
    <3> QED  BY <1>1, <2>2, <3>2
  <2> QED  BY <2>1, <2>2 DEF ControlStart, Return
<1>3. TypeOK'
  BY <1>2 DEF TypeOK, ControlStart
<1>4. LeaseHeldExactly'
  BY DEF LeaseHeldExactly, InFlight, ControlStart
<1>5. EventsOfCampaigns'
  BY DEF EventsOfCampaigns, ControlStart
<1>6. RequestsOfTasks'
  BY <1>1, <1>2, CallMoves DEF ControlStart, Return, RequestsOfTasks, Requests, IdleCall, Request
<1>7. ControlOfTasks'
  BY DEF ControlOfTasks, ControlStart
<1> QED  BY <1>3, <1>4, <1>5, <1>6, <1>7

\* It has written it back.
LEMMA ControlWriteKeeps ==
    ASSUME Inductive, NEW c \in Callers, ControlWrite(c)
    PROVE  Inductive'
<1> USE DEF Inductive
<1>1. call[c] \in Requests /\ call \in [Callers -> Requests]
  BY DEF TypeOK
<1>2. call' \in [Callers -> Requests]
  BY <1>1, IdleTyped DEF ControlWrite, Requests, CallPcs
<1>3. TypeOK'
  <2>1. call[c].task \in Tasks /\ call[c].act \in Actions
    BY <1>1 DEF ControlWrite, RequestsOfTasks, Requests
  <2>2. acts' \in [Tasks -> [Actions -> ActStates]] /\ lost' \subseteq Tasks
    BY <1>1, <2>1, WriteBackTyped DEF ControlWrite, Requests, ActStates, ControlStates
  <2>3. status' \in [Tasks -> Statuses]
    BY <1>1, <2>1 DEF TypeOK, ControlWrite, Requests, Statuses
  <2>4. queue' \in Seq(Tasks \X Actions)
    BY <2>1 DEF TypeOK, ControlWrite
  <2> QED  BY <1>2, <2>2, <2>3, <2>4 DEF TypeOK, ControlWrite
<1>4. LeaseHeldExactly'
  BY DEF LeaseHeldExactly, InFlight, ControlWrite
<1>5. EventsOfCampaigns'
  BY DEF EventsOfCampaigns, ControlWrite
<1>6. RequestsOfTasks'
  <2> DEFINE t == call[c].task
  <2>1. /\ status' \in [Tasks -> Statuses] /\ UNCHANGED fut
        /\ \A u \in Tasks : u # t => status'[u] = status[u]
        /\ t \in Tasks /\ status[t] # "ABSENT" /\ status'[t] # "ABSENT"
    BY <1>1, <1>3 DEF TypeOK, ControlWrite, RequestsOfTasks
  <2>2. call'[c].pc = "idle"
    BY <1>1 DEF ControlWrite, IdleCall, Request
  <2>3. \A d \in Callers : d # c =>
            /\ call'[d].pc = call[d].pc /\ call'[d].task = call[d].task
            /\ call'[d].status = call[d].status
    BY <1>1 DEF ControlWrite, Requests
  <2> QED  BY <1>1, <2>1, <2>2, <2>3 DEF RequestsOfTasks
<1>7. ControlOfTasks'
  BY DEF ControlOfTasks, ControlWrite
<1> QED  BY <1>3, <1>4, <1>5, <1>6, <1>7
----------------------------------------------------------------------------
(***************************************************************************)
(* The control worker                                                      *)
(***************************************************************************)

\* The worker takes a request.
LEMMA CtlTakeKeeps ==
    ASSUME Inductive, CtlTake
    PROVE  Inductive'
<1> USE DEF Inductive
<1>1. ctl \in Workers
  BY DEF TypeOK
<1>2. ctl' \in Workers
  <2>1. Head(queue) \in Tasks \X Actions
    BY DEF TypeOK, CtlTake
  <2>2. acts[Head(queue)[1]] \in [Actions -> ActStates]
    BY <2>1 DEF TypeOK
  <2> QED  BY <2>1, <2>2 DEF CtlTake, Workers, CtlPcs
<1>3. TypeOK'
  BY <1>1, <1>2 DEF TypeOK, CtlTake
<1>4. LeaseHeldExactly'
  BY DEF LeaseHeldExactly, InFlight, CtlTake
<1>5. EventsOfCampaigns'
  BY DEF EventsOfCampaigns, CtlTake
<1>6. RequestsOfTasks'
  BY DEF RequestsOfTasks, CtlTake
<1>7. ControlOfTasks'
  BY DEF ControlOfTasks, CtlTake, TypeOK
<1> QED  BY <1>3, <1>4, <1>5, <1>6, <1>7

\* It has marked the action running.
LEMMA CtlMarkKeeps ==
    ASSUME Inductive, CtlMark
    PROVE  Inductive'
<1> USE DEF Inductive
<1>1. ctl \in Workers
  BY DEF TypeOK
<1>2. ctl' \in Workers
  BY <1>1, IdleTyped DEF CtlMark, Workers, CtlPcs
<1>3. TypeOK'
  <2>1. acts' \in [Tasks -> [Actions -> ActStates]] /\ lost' \subseteq Tasks
    BY <1>1, WriteBackTyped DEF CtlMark, Workers, ControlOfTasks, ActStates, ControlStates
  <2> QED  BY <1>1, <1>2, <2>1 DEF TypeOK, CtlMark
<1>4. LeaseHeldExactly'
  BY DEF LeaseHeldExactly, InFlight, CtlMark
<1>5. EventsOfCampaigns'
  BY DEF EventsOfCampaigns, CtlMark
<1>6. RequestsOfTasks'
  BY DEF RequestsOfTasks, CtlMark
<1>7. ControlOfTasks'
  BY <1>1 DEF ControlOfTasks, CtlMark, Workers
<1> QED  BY <1>3, <1>4, <1>5, <1>6, <1>7

\* It has stopped the campaign, if there is one.
LEMMA CtlStopKeeps ==
    ASSUME Inductive, CtlStop
    PROVE  Inductive'
<1> USE DEF Inductive
<1>1. ctl \in Workers
  BY DEF TypeOK
<1>2. ctl' \in Workers
  <2>1. Submitting(ctl.task) \in BOOLEAN
    BY DEF Submitting
  <2> QED  BY <1>1, <2>1 DEF CtlStop, Workers, CtlPcs
<1>3. TypeOK'
  <2>1. ctl.task \in Tasks
    BY DEF ControlOfTasks, CtlStop
  <2>2. fut' \in [Tasks -> Futures]
    BY <2>1 DEF TypeOK, CtlStop, Futures
  <2> QED  BY <1>2, <2>1, <2>2 DEF TypeOK, CtlStop
<1>4. LeaseHeldExactly'
  BY DEF LeaseHeldExactly, TypeOK, InFlight, ControlOfTasks, CtlStop
<1>5. EventsOfCampaigns'
  <2>1. \A t \in Tasks : fut[t] = "RUNNING" => fut'[t] = "RUNNING"
    BY DEF CtlStop, ControlOfTasks, TypeOK
  <2> QED  BY <2>1 DEF CtlStop, EventsOfCampaigns, Emitters
<1>6. RequestsOfTasks'
  BY DEF RequestsOfTasks, TypeOK, ControlOfTasks, CtlStop
<1>7. ControlOfTasks'
  BY <1>1 DEF ControlOfTasks, CtlStop, Workers
<1> QED  BY <1>3, <1>4, <1>5, <1>6, <1>7

\* It has waited for it.
LEMMA CtlWaitKeeps ==
    ASSUME Inductive, CtlWait
    PROVE  Inductive'
<1> USE DEF Inductive
<1>1. ctl \in Workers
  BY DEF TypeOK
<1>2. ctl' \in Workers
  BY <1>1, IdleTyped DEF CtlWait, Workers, CtlPcs
<1>3. TypeOK'
  BY <1>1, <1>2 DEF TypeOK, CtlWait
<1>4. LeaseHeldExactly'
  BY DEF LeaseHeldExactly, InFlight, CtlWait
<1>5. EventsOfCampaigns'
  BY DEF EventsOfCampaigns, CtlWait
<1>6. RequestsOfTasks'
  BY DEF RequestsOfTasks, CtlWait
<1>7. ControlOfTasks'
  BY <1>1 DEF ControlOfTasks, CtlWait, Workers
<1> QED  BY <1>3, <1>4, <1>5, <1>6, <1>7

\* It has recovered the environment, or failed to.
LEMMA CtlRecoverKeeps ==
    ASSUME Inductive, CtlRecover
    PROVE  Inductive'
<1> USE DEF Inductive
<1>1. ctl \in Workers
  BY DEF TypeOK
<1>2. ctl' \in Workers
  BY <1>1, IdleTyped DEF CtlRecover, Workers, CtlPcs
<1>3. TypeOK'
  BY <1>1, <1>2 DEF TypeOK, CtlRecover
<1>4. LeaseHeldExactly'
  BY DEF LeaseHeldExactly, InFlight, CtlRecover
<1>5. EventsOfCampaigns'
  BY DEF EventsOfCampaigns, CtlRecover
<1>6. RequestsOfTasks'
  BY DEF RequestsOfTasks, CtlRecover
<1>7. ControlOfTasks'
  BY <1>1 DEF ControlOfTasks, CtlRecover, Workers
<1> QED  BY <1>3, <1>4, <1>5, <1>6, <1>7

\* It has labelled the task.
LEMMA CtlLabelKeeps ==
    ASSUME Inductive, CtlLabel
    PROVE  Inductive'
<1> USE DEF Inductive
<1>1. ctl \in Workers
  BY DEF TypeOK
<1>2. ctl' \in Workers
  BY <1>1, IdleTyped DEF CtlLabel, Workers, CtlPcs
<1>3. TypeOK'
  BY <1>1, <1>2 DEF TypeOK, CtlLabel, Label, Statuses
<1>4. LeaseHeldExactly'
  BY DEF LeaseHeldExactly, InFlight, CtlLabel
<1>5. EventsOfCampaigns'
  BY DEF EventsOfCampaigns, CtlLabel
<1>6. RequestsOfTasks'
  BY DEF RequestsOfTasks, Label, TypeOK, CtlLabel
<1>7. ControlOfTasks'
  BY <1>1 DEF ControlOfTasks, CtlLabel, Workers
<1> QED  BY <1>3, <1>4, <1>5, <1>6, <1>7

\* It has restored the permissions, or failed to.
LEMMA CtlRestoreKeeps ==
    ASSUME Inductive, CtlRestore
    PROVE  Inductive'
<1> USE DEF Inductive
<1>1. ctl \in Workers
  BY DEF TypeOK
<1>2. ctl' \in Workers
  BY <1>1, IdleTyped DEF CtlRestore, Workers, CtlPcs
<1>3. TypeOK'
  BY <1>1, <1>2 DEF TypeOK, CtlRestore
<1>4. LeaseHeldExactly'
  BY DEF LeaseHeldExactly, InFlight, CtlRestore
<1>5. EventsOfCampaigns'
  BY DEF EventsOfCampaigns, CtlRestore
<1>6. RequestsOfTasks'
  BY DEF RequestsOfTasks, CtlRestore
<1>7. ControlOfTasks'
  BY <1>1 DEF ControlOfTasks, CtlRestore, Workers
<1> QED  BY <1>3, <1>4, <1>5, <1>6, <1>7

\* It has read the actions again.
LEMMA CtlFinReadKeeps ==
    ASSUME Inductive, CtlFinRead
    PROVE  Inductive'
<1> USE DEF Inductive
<1>1. ctl \in Workers
  BY DEF TypeOK
<1>2. ctl' \in Workers
  BY <1>1, IdleTyped DEF CtlFinRead, Workers, CtlPcs, TypeOK, ControlOfTasks
<1>3. TypeOK'
  BY <1>1, <1>2 DEF TypeOK, CtlFinRead
<1>4. LeaseHeldExactly'
  BY DEF LeaseHeldExactly, InFlight, CtlFinRead
<1>5. EventsOfCampaigns'
  BY DEF EventsOfCampaigns, CtlFinRead
<1>6. RequestsOfTasks'
  BY DEF RequestsOfTasks, CtlFinRead
<1>7. ControlOfTasks'
  BY <1>1 DEF ControlOfTasks, CtlFinRead, Workers
<1> QED  BY <1>3, <1>4, <1>5, <1>6, <1>7

\* It has recorded how the action ended.
LEMMA CtlFinWriteKeeps ==
    ASSUME Inductive, CtlFinWrite
    PROVE  Inductive'
<1> USE DEF Inductive
<1>1. ctl \in Workers
  BY DEF TypeOK
<1>2. ctl' \in Workers
  BY <1>1, IdleTyped DEF CtlFinWrite, Workers, CtlPcs
<1>3. TypeOK'
  <2>1. acts' \in [Tasks -> [Actions -> ActStates]] /\ lost' \subseteq Tasks
    BY <1>1, WriteBackTyped DEF CtlFinWrite, Workers, ControlOfTasks, ActStates, ControlStates
  <2> QED  BY <1>1, <1>2, <2>1 DEF TypeOK, CtlFinWrite
<1>4. LeaseHeldExactly'
  BY DEF LeaseHeldExactly, InFlight, CtlFinWrite
<1>5. EventsOfCampaigns'
  BY DEF EventsOfCampaigns, CtlFinWrite
<1>6. RequestsOfTasks'
  BY DEF RequestsOfTasks, CtlFinWrite
<1>7. ControlOfTasks'
  BY DEF ControlOfTasks, CtlFinWrite, IdleCtl
<1> QED  BY <1>3, <1>4, <1>5, <1>6, <1>7
----------------------------------------------------------------------------
(***************************************************************************)
(* The campaign, its events, the CLI and restarts                          *)
(***************************************************************************)

\* A campaign starts.
LEMMA CampaignStartKeeps ==
    ASSUME Inductive, NEW t \in Tasks, CampaignStart(t)
    PROVE  Inductive'
<1> USE DEF Inductive
<1>1. TypeOK'
  BY DEF TypeOK, CampaignStart, Futures
<1>2. LeaseHeldExactly'
  BY DEF LeaseHeldExactly, InFlight, TypeOK, CampaignStart
<1>3. EventsOfCampaigns'
  BY DEF EventsOfCampaigns, TypeOK, CampaignStart
<1>4. RequestsOfTasks'
  BY DEF RequestsOfTasks, TypeOK, CampaignStart
<1>5. ControlOfTasks'
  BY DEF ControlOfTasks, TypeOK, CampaignStart
<1> QED  BY <1>1, <1>2, <1>3, <1>4, <1>5

\* It changes the environment.
LEMMA CampaignMutateKeeps ==
    ASSUME Inductive, NEW t \in Tasks, CampaignMutate(t)
    PROVE  Inductive'
<1> USE DEF Inductive
<1>1. TypeOK'
  BY DEF TypeOK, CampaignMutate
<1>2. LeaseHeldExactly'
  BY DEF LeaseHeldExactly, InFlight, TypeOK, CampaignMutate
<1>3. EventsOfCampaigns'
  BY DEF EventsOfCampaigns, TypeOK, CampaignMutate
<1>4. RequestsOfTasks'
  BY DEF RequestsOfTasks, TypeOK, CampaignMutate
<1>5. ControlOfTasks'
  BY DEF ControlOfTasks, TypeOK, CampaignMutate
<1> QED  BY <1>1, <1>2, <1>3, <1>4, <1>5

\* It undoes the change.
LEMMA CampaignRecoverKeeps ==
    ASSUME Inductive, NEW t \in Tasks, CampaignRecover(t)
    PROVE  Inductive'
<1> USE DEF Inductive
<1>1. TypeOK'
  BY DEF TypeOK, CampaignRecover
<1>2. LeaseHeldExactly'
  BY DEF LeaseHeldExactly, InFlight, TypeOK, CampaignRecover
<1>3. EventsOfCampaigns'
  BY DEF EventsOfCampaigns, TypeOK, CampaignRecover
<1>4. RequestsOfTasks'
  BY DEF RequestsOfTasks, TypeOK, CampaignRecover
<1>5. ControlOfTasks'
  BY DEF ControlOfTasks, TypeOK, CampaignRecover
<1> QED  BY <1>1, <1>2, <1>3, <1>4, <1>5

\* It has written its result.
LEMMA CampaignResultKeeps ==
    ASSUME Inductive, NEW t \in Tasks, CampaignResult(t)
    PROVE  Inductive'
<1> USE DEF Inductive
<1>1. TypeOK'
  BY DEF TypeOK, CampaignResult, Free, Recorded, Results, Reports, Kinds, Emitters
<1>2. LeaseHeldExactly'
  BY DEF LeaseHeldExactly, InFlight, TypeOK, CampaignResult, Free
<1>3. EventsOfCampaigns'
  BY DEF EventsOfCampaigns, TypeOK, CampaignResult, Free
<1>4. RequestsOfTasks'
  BY DEF RequestsOfTasks, TypeOK, CampaignResult, Free
<1>5. ControlOfTasks'
  BY DEF ControlOfTasks, TypeOK, CampaignResult, Free
<1> QED  BY <1>1, <1>2, <1>3, <1>4, <1>5

\* It has labelled the task and released the lock.
LEMMA CampaignDoneKeeps ==
    ASSUME Inductive, CampaignDone
    PROVE  Inductive'
<1> USE DEF Inductive
<1>1. TypeOK'
  <2>1. ev' \in [Emitters -> Reports]
    BY IdleTyped DEF TypeOK, CampaignDone, Emitters
  <2>2. ev["run"].task \in Tasks
    BY DEF EventsOfCampaigns, CampaignDone, Emitters
  <2> QED  BY <2>1, <2>2 DEF TypeOK, CampaignDone, Label, Statuses, Futures
<1>2. LeaseHeldExactly'
  BY DEF LeaseHeldExactly, InFlight, TypeOK, EventsOfCampaigns, CampaignDone, Emitters
<1>3. EventsOfCampaigns'
  BY DEF EventsOfCampaigns, TypeOK, CampaignDone, Emitters, IdleEv
<1>4. RequestsOfTasks'
  <2>1. ev["run"].task \in Tasks /\ fut[ev["run"].task] = "RUNNING"
    BY DEF EventsOfCampaigns, CampaignDone, Emitters
  <2>2. status' = status \/ status' = [status EXCEPT ![ev["run"].task] = "COMPLETED"]
    BY DEF CampaignDone, Label
  <2>3. /\ fut' = [fut EXCEPT ![ev["run"].task] = "DONE"]
        /\ UNCHANGED call
    BY DEF CampaignDone
  <2> QED  BY <2>1, <2>2, <2>3 DEF RequestsOfTasks, TypeOK
<1>5. ControlOfTasks'
  BY DEF ControlOfTasks, CampaignDone
<1> QED  BY <1>1, <1>2, <1>3, <1>4, <1>5

\* The runner raises.
LEMMA CampaignRaiseKeeps ==
    ASSUME Inductive, NEW t \in Tasks, CampaignRaise(t)
    PROVE  Inductive'
<1> USE DEF Inductive
<1>1. TypeOK'
  BY DEF TypeOK, CampaignRaise, Free, Futures
<1>2. LeaseHeldExactly'
  BY DEF LeaseHeldExactly, InFlight, TypeOK, CampaignRaise, Free
<1>3. EventsOfCampaigns'
  BY DEF EventsOfCampaigns, TypeOK, CampaignRaise, Free
<1>4. RequestsOfTasks'
  BY DEF RequestsOfTasks, TypeOK, CampaignRaise, Free
<1>5. ControlOfTasks'
  BY DEF ControlOfTasks, TypeOK, CampaignRaise, Free
<1> QED  BY <1>1, <1>2, <1>3, <1>4, <1>5

\* A thread begins to report an event.
LEMMA EventReadKeeps ==
    ASSUME Inductive, NEW e \in Emitters, NEW t \in Tasks, NEW k \in Kinds, EventRead(e, t, k)
    PROVE  Inductive'
<1> USE DEF Inductive
<1>1. TypeOK'
  BY DEF TypeOK, EventRead, Reports, Kinds
<1>2. LeaseHeldExactly'
  BY DEF LeaseHeldExactly, InFlight, TypeOK, EventRead
<1>3. EventsOfCampaigns'
  BY DEF EventsOfCampaigns, TypeOK, EventRead
<1>4. RequestsOfTasks'
  BY DEF RequestsOfTasks, TypeOK, EventRead
<1>5. ControlOfTasks'
  BY DEF ControlOfTasks, TypeOK, EventRead
<1> QED  BY <1>1, <1>2, <1>3, <1>4, <1>5

\* It has written the status.
LEMMA EventWriteKeeps ==
    ASSUME Inductive, NEW e \in Emitters, EventWrite(e)
    PROVE  Inductive'
<1> USE DEF Inductive
<1>1. TypeOK'
  <2>1. ev' \in [Emitters -> Reports]
    BY IdleTyped DEF TypeOK, EventWrite
  <2>2. ev[e].task \in Tasks
    BY DEF EventsOfCampaigns, EventWrite
  <2>3. status' \in [Tasks -> Statuses]
    BY <2>2 DEF TypeOK, EventWrite, Statuses
  <2>4. terminal' \in [Tasks -> BOOLEAN]
    BY <2>2 DEF TypeOK, EventWrite, Reports
  <2> QED  BY <2>1, <2>2, <2>3, <2>4 DEF TypeOK, EventWrite
<1>2. LeaseHeldExactly'
  BY DEF LeaseHeldExactly, InFlight, EventWrite
<1>3. EventsOfCampaigns'
  BY DEF EventsOfCampaigns, TypeOK, EventWrite, IdleEv
<1>4. RequestsOfTasks'
  BY DEF RequestsOfTasks, TypeOK, EventWrite
<1>5. ControlOfTasks'
  BY DEF ControlOfTasks, EventWrite
<1> QED  BY <1>1, <1>2, <1>3, <1>4, <1>5

\* The CLI takes or releases the lock.
LEMMA CliRunKeeps ==
    ASSUME Inductive, CliRun
    PROVE  Inductive'
<1> USE DEF Inductive
<1>1. TypeOK'
  BY DEF TypeOK, CliRun
<1>2. LeaseHeldExactly'
  BY DEF LeaseHeldExactly, InFlight, TypeOK, CliRun
<1>3. EventsOfCampaigns'
  BY DEF EventsOfCampaigns, TypeOK, CliRun
<1>4. RequestsOfTasks'
  BY DEF RequestsOfTasks, TypeOK, CliRun
<1>5. ControlOfTasks'
  BY DEF ControlOfTasks, TypeOK, CliRun
<1> QED  BY <1>1, <1>2, <1>3, <1>4, <1>5

\* The process restarts.
LEMMA RestartKeeps ==
    ASSUME Inductive, Restart
    PROVE  Inductive'
<1> USE DEF Inductive
<1>1. TypeOK'
  BY IdleTyped DEF TypeOK, Restart, Futures, Emitters
<1>2. LeaseHeldExactly'
  BY DEF LeaseHeldExactly, InFlight, TypeOK, Restart
<1>3. EventsOfCampaigns'
  BY DEF EventsOfCampaigns, Restart, IdleEv, Emitters
<1>4. RequestsOfTasks'
  BY DEF RequestsOfTasks, Restart, IdleCall, Request
<1>5. ControlOfTasks'
  BY DEF ControlOfTasks, Restart, IdleCtl
<1> QED  BY <1>1, <1>2, <1>3, <1>4, <1>5
----------------------------------------------------------------------------
(***************************************************************************)
(* The inductive invariant                                                 *)
(***************************************************************************)

\* It holds when the Controller comes up.
LEMMA InitInductive == Init => Inductive
<1> SUFFICES ASSUME Init PROVE Inductive
  OBVIOUS
<1>1. TypeOK
  BY IdleTyped DEF Init, TypeOK, Statuses, Results, Futures, ActStates, ControlStates
<1>2. LeaseHeldExactly /\ EventsOfCampaigns /\ RequestsOfTasks /\ ControlOfTasks
  BY DEF Init, LeaseHeldExactly, InFlight, EventsOfCampaigns, RequestsOfTasks,
         ControlOfTasks, IdleCall, Request, IdleCtl, IdleEv, Emitters
<1> QED  BY <1>1, <1>2 DEF Inductive

\* Every step keeps it.
LEMMA NextInductive == Inductive /\ [Next]_vars => Inductive'
<1> SUFFICES ASSUME Inductive, [Next]_vars PROVE Inductive'
  OBVIOUS
<1>1. ASSUME NEW c \in Callers, CallStep(c) PROVE Inductive'
  BY <1>1, CreateGateKeeps, CreateRunsKeeps, CreateBindKeeps, CreateSubmitKeeps,
     CreateRejectKeeps, CreateStoreKeeps, ControlStartKeeps, ControlWriteKeeps
  DEF CallStep
<1>2. ASSUME NEW c \in Callers, NEW k \in Keys, CreateBegin(c, k) PROVE Inductive'
  BY <1>2, CreateBeginKeeps
<1>3. ASSUME NEW c \in Callers, NEW a \in Actions, NEW t \in Tasks, ControlBegin(c, a, t)
      PROVE  Inductive'
  BY <1>3, ControlBeginKeeps
<1>4. CASE CtlStep
  BY <1>4, CtlTakeKeeps, CtlMarkKeeps, CtlStopKeeps, CtlWaitKeeps, CtlRecoverKeeps,
     CtlLabelKeeps, CtlRestoreKeeps, CtlFinReadKeeps, CtlFinWriteKeeps DEF CtlStep
<1>5. CASE RunStep
  BY <1>5, CampaignDoneKeeps, CampaignStartKeeps DEF RunStep
<1>6. ASSUME NEW t \in Tasks,
             CampaignMutate(t) \/ CampaignRecover(t) \/ CampaignResult(t) \/ CampaignRaise(t)
      PROVE  Inductive'
  BY <1>6, CampaignMutateKeeps, CampaignRecoverKeeps, CampaignResultKeeps, CampaignRaiseKeeps
<1>7. ASSUME NEW e \in Emitters, NEW t \in Tasks, NEW k \in Kinds, EventRead(e, t, k)
      PROVE  Inductive'
  BY <1>7, EventReadKeeps
<1>8. ASSUME NEW e \in Emitters, EventWrite(e) PROVE Inductive'
  BY <1>8, EventWriteKeeps
<1>9. CASE CliRun
  BY <1>9, CliRunKeeps
<1>10. CASE Restart
  BY <1>10, RestartKeeps
<1>11. CASE UNCHANGED vars
  BY <1>11 DEF vars, Inductive, TypeOK, LeaseHeldExactly, InFlight, EventsOfCampaigns,
               RequestsOfTasks, ControlOfTasks
<1> QED
  BY <1>1, <1>2, <1>3, <1>4, <1>5, <1>6, <1>7, <1>8, <1>9, <1>10, <1>11 DEF Next

\* So it holds in every reachable state.
LEMMA AlwaysInductive == Spec => []Inductive
BY InitInductive, NextInductive, PTL DEF Spec

\* Every file, future, thread and counter of the task API keeps its type,
\* however its threads interleave.
THEOREM TypeCorrect == Spec => []TypeOK
<1>1. Inductive => TypeOK
  BY DEF Inductive
<1> QED  BY <1>1, AlwaysInductive, PTL

\* A pending or running campaign holds the runtime lock, so campaigns exclude
\* each other and the qualification CLI; the lock outlives a campaign only
\* when a stop cancelled it before it ran (CampaignSupervisor, runtime_lock).
THEOREM LockIsHeld == Spec => []LeaseHeldExactly
<1>1. Inductive => LeaseHeldExactly
  BY DEF Inductive
<1> QED  BY <1>1, AlwaysInductive, PTL
----------------------------------------------------------------------------
(***************************************************************************)
(* The refinement                                                          *)
(***************************************************************************)
phases == [t \in Tasks |-> Phase(t)]
abstract == <<lease, phases, dirty>>

\* A step that touches neither futures, lock nor environment is a stutter.
LEMMA Stutters ==
    ASSUME UNCHANGED <<fut, lease, dirty>>
    PROVE  UNCHANGED abstract
BY DEF abstract, phases, Phase

\* Only the submit of a create grants the environment.
LEMMA SubmitGrants ==
    ASSUME Inductive, NEW c \in Callers, CreateSubmit(c)
    PROVE  [Environment!Next]_abstract
<1> DEFINE t == call[c].task
<1>1. CASE InFlight = {} /\ lease = NoTask
  <2>1. t \in Tasks /\ fut[t] = "NONE"
    BY DEF Inductive, RequestsOfTasks, CreateSubmit
  <2>2. /\ lease' = t
        /\ fut' = [fut EXCEPT ![t] = "PENDING"]
        /\ dirty' = dirty
    BY <1>1 DEF CreateSubmit
  <2>3. phases' = [phases EXCEPT ![t] = "granted"]
    BY <2>1, <2>2 DEF phases, Phase, Inductive, TypeOK
  <2>4. phases[t] = "idle"
    BY <2>1 DEF phases, Phase
  <2>5. Environment!Grant(t)
    BY <1>1, <2>2, <2>3, <2>4 DEF Environment!Grant, phases
  <2> QED  BY <2>1, <2>5 DEF Environment!Next
<1>2. CASE ~(InFlight = {} /\ lease = NoTask)
  BY <1>2, Stutters DEF CreateSubmit
<1> QED  BY <1>1, <1>2

\* A stop withdraws a campaign that has not begun, and leaves it the lock.
LEMMA StopWithdraws ==
    ASSUME Inductive, CtlStop
    PROVE  [Environment!Next]_abstract
<1> DEFINE t == ctl.task
<1>1. t \in Tasks
  BY DEF Inductive, ControlOfTasks, CtlStop
<1>2. CASE fut[t] = "PENDING"
  <2>1. lease = t /\ UNCHANGED <<lease, dirty>> /\ fut' = [fut EXCEPT ![t] = "CANCELLED"]
    BY <1>1, <1>2 DEF Inductive, LeaseHeldExactly, InFlight, CtlStop
  <2>2. phases[t] = "granted" /\ phases' = [phases EXCEPT ![t] = "over"]
    BY <1>1, <1>2, <2>1 DEF phases, Phase, Inductive, TypeOK
  <2>3. Environment!Withdraw(t)
    BY <2>1, <2>2 DEF Environment!Withdraw, phases
  <2> QED  BY <1>1, <2>3 DEF Environment!Next
<1>3. CASE fut[t] # "PENDING"
  <2>1. UNCHANGED <<fut, lease, dirty>>
    BY <1>1, <1>3 DEF CtlStop, Inductive, TypeOK
  <2> QED  BY <2>1, Stutters
<1> QED  BY <1>2, <1>3

\* What the campaign's own thread does, it does as the holder.
LEMMA CampaignWorks ==
    ASSUME Inductive, NEW t \in Tasks,
           \/ CampaignStart(t) \/ CampaignMutate(t) \/ CampaignRecover(t)
           \/ CampaignResult(t) \/ CampaignRaise(t) \/ CampaignDone
    PROVE  [Environment!Next]_abstract
<1> USE DEF phases, Phase
<1>1. CASE CampaignStart(t)
  <2>1. lease = t /\ phases[t] = "granted" /\ phases' = [phases EXCEPT ![t] = "working"]
    BY <1>1 DEF CampaignStart, Inductive, LeaseHeldExactly, InFlight, TypeOK
  <2>2. Environment!Begin(t)
    BY <1>1, <2>1 DEF CampaignStart, Environment!Begin
  <2> QED  BY <2>2 DEF Environment!Next
<1>2. CASE CampaignMutate(t)
  <2>1. lease = t /\ phases[t] = "working" /\ UNCHANGED <<lease, phases>>
    BY <1>2 DEF CampaignMutate, Free, Inductive, LeaseHeldExactly, InFlight
  <2>2. Environment!Change(t)
    BY <1>2, <2>1 DEF CampaignMutate, Environment!Change
  <2> QED  BY <2>2 DEF Environment!Next
<1>3. CASE CampaignRecover(t)
  <2>1. lease = t /\ phases[t] = "working" /\ UNCHANGED <<lease, phases>>
    BY <1>3 DEF CampaignRecover, Free, Inductive, LeaseHeldExactly, InFlight
  <2>2. Environment!Undo(t)
    BY <1>3, <2>1 DEF CampaignRecover, Environment!Undo
  <2> QED  BY <2>2 DEF Environment!Next
<1>4. CASE CampaignResult(t)
  BY <1>4, Stutters DEF CampaignResult
<1>5. CASE CampaignRaise(t)
  <2>1. /\ lease = t /\ lease' = NoTask /\ UNCHANGED dirty
        /\ phases[t] = "working" /\ phases' = [phases EXCEPT ![t] = "over"]
    BY <1>5 DEF CampaignRaise, Free, Inductive, LeaseHeldExactly, InFlight, TypeOK
  <2>2. Environment!GiveBack(t)
    BY <2>1 DEF Environment!GiveBack
  <2> QED  BY <2>2 DEF Environment!Next
<1>6. CASE CampaignDone
  <2>1. PICK u \in Tasks : u = ev["run"].task /\ fut[u] = "RUNNING"
    BY <1>6 DEF CampaignDone, Inductive, EventsOfCampaigns, Emitters
  <2>2. /\ lease = u /\ lease' = NoTask /\ UNCHANGED dirty
        /\ phases[u] = "working" /\ phases' = [phases EXCEPT ![u] = "over"]
    BY <1>6, <2>1 DEF CampaignDone, Inductive, LeaseHeldExactly, InFlight, TypeOK
  <2>3. Environment!GiveBack(u)
    BY <2>2 DEF Environment!GiveBack
  <2> QED  BY <2>3 DEF Environment!Next
<1> QED  BY <1>1, <1>2, <1>3, <1>4, <1>5, <1>6

\* The control worker changes the environment by resetting it.
LEMMA RecoverResets ==
    ASSUME CtlRecover
    PROVE  [Environment!Next]_abstract
<1>1. CASE UNCHANGED dirty
  BY <1>1, Stutters DEF CtlRecover
<1>2. CASE dirty' = {}
  <2>1. Environment!Reset
    BY <1>2 DEF CtlRecover, Environment!Reset, Phase
  <2> QED  BY <2>1 DEF Environment!Next
<1> QED  BY <1>1, <1>2 DEF CtlRecover

\* The lock passes to the CLI and back, and a restart forgets everybody else.
LEMMA OutsideSteps ==
    ASSUME CliRun \/ Restart
    PROVE  [Environment!Next]_abstract
<1>1. CASE CliRun
  <2>1. Environment!Outsider
    BY <1>1 DEF CliRun, Environment!Outsider, Phase
  <2> QED  BY <2>1 DEF Environment!Next
<1>2. CASE Restart
  <2>1. Environment!Forget
    BY <1>2 DEF Restart, Environment!Forget, Phase
  <2> QED  BY <2>1 DEF Environment!Next
<1> QED  BY <1>1, <1>2

\* Every step of the task API is a step of EnvironmentUse or a stutter.
LEMMA StepSimulates ==
    Inductive /\ [Next]_vars => [Environment!Next]_abstract
<1> SUFFICES ASSUME Inductive, [Next]_vars PROVE [Environment!Next]_abstract
  OBVIOUS
<1>1. ASSUME NEW c \in Callers, CallStep(c) PROVE [Environment!Next]_abstract
  <2>1. CASE CreateSubmit(c)
    BY <2>1, SubmitGrants
  <2>2. CASE ~CreateSubmit(c)
    <3>1. UNCHANGED <<fut, lease, dirty>>
      BY <1>1, <2>2 DEF CallStep, CreateGate, CreateRuns, CreateBind, CreateReject,
                        CreateStore, ControlStart, ControlWrite
    <3> QED  BY <3>1, Stutters
  <2> QED  BY <2>1, <2>2
<1>2. ASSUME NEW c \in Callers, NEW k \in Keys, CreateBegin(c, k)
      PROVE  [Environment!Next]_abstract
  BY <1>2, Stutters DEF CreateBegin
<1>3. ASSUME NEW c \in Callers, NEW a \in Actions, NEW t \in Tasks, ControlBegin(c, a, t)
      PROVE  [Environment!Next]_abstract
  BY <1>3, Stutters DEF ControlBegin
<1>4. CASE CtlStep
  <2>1. CASE CtlStop
    BY <2>1, StopWithdraws
  <2>2. CASE CtlRecover
    BY <2>2, RecoverResets
  <2>3. CASE ~CtlStop /\ ~CtlRecover
    <3>1. UNCHANGED <<fut, lease, dirty>>
      BY <1>4, <2>3 DEF CtlStep, CtlTake, CtlMark, CtlWait, CtlLabel, CtlRestore,
                        CtlFinRead, CtlFinWrite
    <3> QED  BY <3>1, Stutters
  <2> QED  BY <2>1, <2>2, <2>3
<1>5. CASE RunStep
  <2>1. CASE CampaignDone
    <3>1. ev["run"].task \in Tasks
      BY <2>1 DEF CampaignDone, Inductive, EventsOfCampaigns, Emitters
    <3> QED  BY <2>1, <3>1, CampaignWorks
  <2> QED  BY <1>5, <2>1, CampaignWorks DEF RunStep
<1>6. ASSUME NEW t \in Tasks,
             CampaignMutate(t) \/ CampaignRecover(t) \/ CampaignResult(t) \/ CampaignRaise(t)
      PROVE  [Environment!Next]_abstract
  BY <1>6, CampaignWorks
<1>7. ASSUME NEW e \in Emitters, NEW t \in Tasks, NEW k \in Kinds, EventRead(e, t, k)
      PROVE  [Environment!Next]_abstract
  BY <1>7, Stutters DEF EventRead
<1>8. ASSUME NEW e \in Emitters, EventWrite(e) PROVE [Environment!Next]_abstract
  BY <1>8, Stutters DEF EventWrite
<1>9. CASE CliRun \/ Restart
  BY <1>9, OutsideSteps
<1>10. CASE UNCHANGED vars
  BY <1>10, Stutters DEF vars
<1> QED
  BY <1>1, <1>2, <1>3, <1>4, <1>5, <1>6, <1>7, <1>8, <1>9, <1>10 DEF Next

\* The task API, its supervisor and the runtime lock together implement the
\* exclusive use of the environment, for any number of tasks and requests.
THEOREM Refinement == Spec => UsesEnvironment
<1>1. Init => Environment!Init
  BY DEF Init, Environment!Init, Phase
<1>2. Inductive /\ [Next]_vars => [Environment!Next]_<<lease, [t \in Tasks |-> Phase(t)], dirty>>
  BY StepSimulates DEF abstract, phases
<1> QED  BY <1>1, <1>2, AlwaysInductive, PTL DEF Spec, UsesEnvironment, Environment!Spec
----------------------------------------------------------------------------
(***************************************************************************)
(* Creating a task and the recoveries under way                            *)
(***************************************************************************)

\* Whoever reports for a task or controls one, controls or reports for a task
\* that was created.
Known ==
    /\ ctl.pc # "idle" => status[ctl.task] # "ABSENT"
    /\ \A i \in 1..Len(queue) : status[queue[i][1]] # "ABSENT"
    /\ \A e \in Emitters : ev[e].pc # "idle" => status[ev[e].task] # "ABSENT"

\* Of the tasks that lost no entry: the request in the pool and the one the
\* worker has are on disk as active, and there is at most one of them.
RequestsOnDisk ==
    \A u \in Tasks \ lost :
        /\ \A i \in 1..Len(queue) : queue[i][1] = u => acts[u][queue[i][2]] \in ControlStates
        /\ \A i, j \in 1..Len(queue) : queue[i][1] = u /\ queue[j][1] = u => i = j
        /\ ctl.pc # "idle" /\ ctl.task = u =>
               /\ acts[u][ctl.act] \in ControlStates
               /\ \A i \in 1..Len(queue) : queue[i][1] # u

\* A request that will be written saw no active action.
WritersSawNone ==
    \A c \in Callers :
        call[c].pc = "write" => \A a \in Actions : call[c].seen[a] \notin ControlStates

\* Since a create looked and no request was written, nothing is unresolved.
FreshIsClear ==
    \A c \in Callers : call[c].fresh => \A u \in Tasks \ lost : ~Unresolved(u)

Gated == RequestsOnDisk /\ WritersSawNone /\ FreshIsClear

\* A step that leaves the actions alone, hands the worker nothing, makes no
\* create fresh, no request ready to be written and no recovery failed.
Quiet ==
    /\ UNCHANGED <<acts, queue, lost>>
    /\ ctl'.pc # "idle" => ctl.pc # "idle" /\ ctl'.task = ctl.task /\ ctl'.act = ctl.act
    /\ \A c \in Callers :
          /\ call'[c].fresh => call[c].fresh
          /\ call'[c].pc = "write" => call[c].pc = "write" /\ call'[c].seen = call[c].seen
    /\ \A u \in Tasks : status'[u] = "RECOVERY_FAILED" => status[u] = "RECOVERY_FAILED"

\* Such a step keeps what holds of the requests.
LEMMA QuietKeeps ==
    ASSUME Gated, Quiet
    PROVE  Gated'
<1>1. RequestsOnDisk'
  BY DEF Gated, Quiet, RequestsOnDisk
<1>2. WritersSawNone'
  BY DEF Gated, Quiet, WritersSawNone
<1>3. FreshIsClear'
  BY DEF Gated, Quiet, FreshIsClear, Unresolved
<1> QED  BY <1>1, <1>2, <1>3 DEF Gated

\* A request that returns or moves on before it reads the actions is quiet.
LEMMA CallIsQuiet ==
    ASSUME NEW c \in Callers, \A d \in Callers : d # c => call'[d] = call[d],
           call'[c].fresh => call[c].fresh, call'[c].pc # "write",
           UNCHANGED <<acts, queue, lost, ctl>>,
           \A u \in Tasks : status'[u] = "RECOVERY_FAILED" => status[u] = "RECOVERY_FAILED"
    PROVE  Quiet
BY DEF Quiet

\* So are the steps of a create after its first look ...
LEMMA CreateIsQuiet ==
    ASSUME Inductive, NEW c \in Callers,
           \/ CreateRuns(c) \/ CreateBind(c) \/ CreateSubmit(c) \/ CreateReject(c)
           \/ \E t \in Tasks : CreateStore(c, t)
           \/ \E k \in Keys : CreateBegin(c, k)
           \/ \E a \in Actions, t \in Tasks : ControlBegin(c, a, t)
    PROVE  Quiet
<1>1. TypeOK /\ call[c] \in Requests /\ call \in [Callers -> Requests]
  BY DEF Inductive, TypeOK
<1>2. ASSUME NEW pc, pc # "write", Goto(c, pc), UNCHANGED <<acts, queue, lost, ctl, status>>
      PROVE  Quiet
  <2>1. /\ \A d \in Callers : d # c => call'[d] = call[d]
        /\ call'[c].fresh = call[c].fresh /\ call'[c].pc = pc
    BY <1>1, <1>2 DEF Goto, Requests
  <2> QED  BY <1>2, <2>1, CallIsQuiet
<1>3. ~IdleCall.fresh /\ IdleCall.pc # "write"
  BY DEF IdleCall, Request
<1>4. CASE CreateRuns(c)
  BY <1>1, <1>2, <1>3, <1>4, CallIsQuiet DEF CreateRuns, Return
<1>5. CASE CreateBind(c)
  BY <1>2, <1>5 DEF CreateBind
<1>6. CASE CreateSubmit(c)
  BY <1>1, <1>2, <1>3, <1>6, CallIsQuiet DEF CreateSubmit, Return
<1>7. CASE CreateReject(c)
  <2>1. \A u \in Tasks : status'[u] = "RECOVERY_FAILED" => status[u] = "RECOVERY_FAILED"
    BY <1>1, <1>7 DEF CreateReject, Label, TypeOK
  <2> QED  BY <1>1, <1>3, <1>7, <2>1, CallIsQuiet DEF CreateReject, Return
<1>8. ASSUME NEW t \in Tasks, CreateStore(c, t) PROVE Quiet
  <2>1. \A u \in Tasks : status'[u] = "RECOVERY_FAILED" => status[u] = "RECOVERY_FAILED"
    BY <1>1, <1>8 DEF CreateStore, Label, TypeOK
  <2>2. /\ \A d \in Callers : d # c => call'[d] = call[d]
        /\ call'[c].fresh = call[c].fresh /\ call'[c].pc = "bind"
    BY <1>1, <1>8 DEF CreateStore, Requests
  <2>3. UNCHANGED <<acts, queue, lost, ctl>>
    BY <1>8 DEF CreateStore
  <2> QED  BY <2>1, <2>2, <2>3, CallIsQuiet
<1>9. ASSUME NEW k \in Keys, CreateBegin(c, k) PROVE Quiet
  <2>1. CASE UNCHANGED call
    BY <2>1, <1>9 DEF CreateBegin, Quiet
  <2>2. CASE call' = [call EXCEPT ![c] = Request("gate", "abort", NoTask, k)]
    BY <1>1, <1>9, <2>2, CallIsQuiet DEF CreateBegin, Request
  <2> QED  BY <1>9, <2>1, <2>2 DEF CreateBegin
<1>10. ASSUME NEW a \in Actions, NEW t \in Tasks, ControlBegin(c, a, t) PROVE Quiet
  <2>1. CASE UNCHANGED call
    BY <2>1, <1>10 DEF ControlBegin, Quiet
  <2>2. CASE call' = [call EXCEPT ![c] = Request("start", a, t, NoTask)]
    BY <1>1, <1>10, <2>2, CallIsQuiet DEF ControlBegin, Request
  <2> QED  BY <1>10, <2>1, <2>2 DEF ControlBegin
<1> QED  BY <1>4, <1>5, <1>6, <1>7, <1>8, <1>9, <1>10

\* ... what the worker does between its writes ...
LEMMA WorkerIsQuiet ==
    ASSUME Inductive, CtlStop \/ CtlWait \/ CtlRecover \/ CtlRestore \/ CtlFinRead
    PROVE  Quiet
<1>1. ctl \in Workers
  BY DEF Inductive, TypeOK
<1>2. UNCHANGED <<acts, queue, lost, call, status>> /\ ctl.pc # "idle"
  BY DEF CtlStop, CtlWait, CtlRecover, CtlRestore, CtlFinRead
<1>3. ctl'.task = ctl.task /\ ctl'.act = ctl.act
  BY <1>1 DEF CtlStop, CtlWait, CtlRecover, CtlRestore, CtlFinRead, Workers
<1> QED  BY <1>2, <1>3 DEF Quiet

\* ... and the campaign, its reports and the CLI.
LEMMA CampaignIsQuiet ==
    ASSUME Inductive,
           \/ \E t \in Tasks : \/ CampaignStart(t) \/ CampaignMutate(t) \/ CampaignRecover(t)
                               \/ CampaignResult(t) \/ CampaignRaise(t)
           \/ CampaignDone \/ CliRun
           \/ \E e \in Emitters, t \in Tasks, k \in Kinds : EventRead(e, t, k)
           \/ \E e \in Emitters : EventWrite(e)
    PROVE  Quiet
<1>1. UNCHANGED <<acts, queue, lost, call, ctl>>
  BY DEF CampaignStart, CampaignMutate, CampaignRecover, CampaignResult, CampaignRaise,
         CampaignDone, CliRun, EventRead, EventWrite
<1>2. \A u \in Tasks : status'[u] = "RECOVERY_FAILED" => status[u] = "RECOVERY_FAILED"
  <2>1. CASE CampaignDone
    BY <2>1 DEF CampaignDone, Label, Inductive, TypeOK
  <2>2. ASSUME NEW e \in Emitters, EventWrite(e)
        PROVE  \A u \in Tasks : status'[u] = "RECOVERY_FAILED" => status[u] = "RECOVERY_FAILED"
    BY <2>2 DEF EventWrite, Inductive, TypeOK
  <2>3. ~CampaignDone /\ ~(\E e \in Emitters : EventWrite(e)) => UNCHANGED status
    BY DEF CampaignStart, CampaignMutate, CampaignRecover, CampaignResult, CampaignRaise,
           CliRun, EventRead
  <2> QED  BY <2>1, <2>2, <2>3
<1> QED  BY <1>1, <1>2 DEF Quiet

\* The first look of a create: it goes on only when nothing is unresolved.
LEMMA CreateGateKeepsGated ==
    ASSUME Inductive, Gated, NEW c \in Callers, CreateGate(c)
    PROVE  Gated'
<1>1. /\ call[c] \in Requests /\ call \in [Callers -> Requests]
      /\ UNCHANGED <<acts, queue, lost, ctl, status>>
      /\ \A d \in Callers : d # c => call'[d] = call[d]
  BY DEF Inductive, TypeOK, CreateGate, Return
<1>2. CASE \E t \in Tasks : Unresolved(t)
  <2>1. ~call'[c].fresh /\ call'[c].pc = "idle"
    BY <1>1, <1>2 DEF CreateGate, Return, IdleCall, Request
  <2> QED  BY <1>1, <2>1, CallIsQuiet, QuietKeeps
<1>3. CASE \A t \in Tasks : ~Unresolved(t)
  <2>1. call'[c].pc = "runs"
    BY <1>1, <1>3 DEF CreateGate, Requests
  <2>2. RequestsOnDisk'
    BY <1>1 DEF Gated, RequestsOnDisk
  <2>3. WritersSawNone'
    BY <1>1, <2>1 DEF Gated, WritersSawNone
  <2>4. FreshIsClear'
    BY <1>1, <1>3 DEF FreshIsClear, Unresolved
  <2> QED  BY <2>2, <2>3, <2>4 DEF Gated
<1> QED  BY <1>2, <1>3

\* The read of a request: it goes on only when no action is active.
LEMMA ControlStartKeepsGated ==
    ASSUME Inductive, Gated, NEW c \in Callers, NEW same \in BOOLEAN, ControlStart(c, same)
    PROVE  Gated'
<1> DEFINE t == call[c].task
           a == call[c].act
<1>1. /\ call[c] \in Requests /\ call \in [Callers -> Requests]
      /\ UNCHANGED <<acts, queue, lost, ctl, status>>
      /\ \A d \in Callers : d # c => call'[d] = call[d]
  BY DEF Inductive, TypeOK, ControlStart, Return
<1>2. CASE call' = [call EXCEPT ![c] = IdleCall]
  <2>1. ~call'[c].fresh /\ call'[c].pc = "idle"
    BY <1>1, <1>2 DEF IdleCall, Request
  <2> QED  BY <1>1, <2>1, CallIsQuiet, QuietKeeps
<1>3. CASE /\ \A b \in Actions : acts[t][b] \notin ControlStates
           /\ call' = [call EXCEPT ![c].pc = "write", ![c].seen = acts[t],
                                   ![c].status = status[t]]
  <2>1. call'[c].seen = acts[t] /\ call'[c].fresh = call[c].fresh
    BY <1>1, <1>3 DEF Requests
  <2>2. RequestsOnDisk'
    BY <1>1 DEF Gated, RequestsOnDisk
  <2>3. WritersSawNone'
    BY <1>1, <1>3, <2>1 DEF Gated, WritersSawNone
  <2>4. FreshIsClear'
    BY <1>1, <2>1 DEF Gated, FreshIsClear, Unresolved
  <2> QED  BY <2>2, <2>3, <2>4 DEF Gated
<1>4. a \in Actions
  BY <1>1 DEF Requests
<1> QED  BY <1>2, <1>3, <1>4 DEF ControlStart, Return

\* The write of a request: no create is fresh any more, and a task that lost
\* no entry had no other request.
LEMMA ControlWriteKeepsGated ==
    ASSUME Inductive, Gated, NEW c \in Callers, ControlWrite(c)
    PROVE  Gated'
<1> DEFINE t == call[c].task
           a == call[c].act
<1>1. /\ call[c] \in Requests /\ call \in [Callers -> Requests]
      /\ acts \in [Tasks -> [Actions -> ActStates]] /\ queue \in Seq(Tasks \X Actions)
  BY DEF Inductive, TypeOK
<1>2. t \in Tasks /\ a \in Actions /\ call[c].pc = "write"
  BY <1>1 DEF Inductive, RequestsOfTasks, ControlWrite, Requests
<1>3. /\ acts' = [acts EXCEPT ![t] = [call[c].seen EXCEPT ![a] = "REQUESTED"]]
      /\ lost' = IF call[c].seen = acts[t] THEN lost ELSE lost \cup {t}
      /\ queue' = Append(queue, <<t, a>>) /\ UNCHANGED ctl
  BY DEF ControlWrite, WriteBack
<1>4. /\ Len(queue') = Len(queue) + 1 /\ queue'[Len(queue) + 1] = <<t, a>>
      /\ \A i \in 1..Len(queue) : queue'[i] = queue[i]
      /\ Len(queue) \in Nat
  BY <1>1, <1>2, <1>3
<1>5. RequestsOnDisk'
  <2> SUFFICES ASSUME NEW u \in Tasks \ lost'
               PROVE  /\ \A i \in 1..Len(queue') :
                            queue'[i][1] = u => acts'[u][queue'[i][2]] \in ControlStates
                      /\ \A i, j \in 1..Len(queue') :
                            queue'[i][1] = u /\ queue'[j][1] = u => i = j
                      /\ ctl.pc # "idle" /\ ctl.task = u =>
                            /\ acts'[u][ctl.act] \in ControlStates
                            /\ \A i \in 1..Len(queue') : queue'[i][1] # u
    BY <1>3 DEF RequestsOnDisk
  <2>1. u \in Tasks \ lost
    BY <1>3
  <2>2. CASE u = t
    <3>1. call[c].seen = acts[t]
      BY <1>3, <2>2
    <3>2. \A b \in Actions : acts[t][b] \notin ControlStates
      BY <1>2, <3>1 DEF Gated, WritersSawNone
    <3>3. \A i \in 1..Len(queue) : queue[i] \in Tasks \X Actions
      BY <1>1
    <3>4. \A i \in 1..Len(queue) : queue[i][1] # t
      BY <2>1, <2>2, <3>2, <3>3 DEF Gated, RequestsOnDisk
    <3>5. ~(ctl.pc # "idle" /\ ctl.task = t)
      BY <2>1, <2>2, <3>2 DEF Gated, RequestsOnDisk, Inductive, TypeOK, Workers
    <3>6. acts'[t][a] \in ControlStates
      BY <1>1, <1>2, <1>3, <3>1 DEF ControlStates
    <3>7. \A i \in 1..Len(queue') : queue'[i][1] = t => i = Len(queue) + 1
      BY <1>4, <3>4
    <3> QED  BY <1>4, <2>2, <3>5, <3>6, <3>7
  <2>3. CASE u # t
    <3>1. acts'[u] = acts[u]
      BY <1>1, <1>3, <2>3
    <3>2. \A i \in 1..Len(queue') : queue'[i][1] = u => i \in 1..Len(queue)
      BY <1>4, <2>3
    <3> QED  BY <1>4, <2>1, <3>1, <3>2 DEF Gated, RequestsOnDisk
  <2> QED  BY <2>2, <2>3
<1>6. call'[c].pc = "idle" /\ ~call'[c].fresh
  BY <1>1 DEF ControlWrite, IdleCall, Request
<1>7. \A d \in Callers : d # c =>
          /\ call'[d].pc = call[d].pc /\ call'[d].seen = call[d].seen /\ ~call'[d].fresh
  BY <1>1 DEF ControlWrite, Requests
<1>8. WritersSawNone'
  BY <1>6, <1>7 DEF Gated, WritersSawNone
<1>9. FreshIsClear'
  BY <1>6, <1>7 DEF FreshIsClear
<1> QED  BY <1>5, <1>8, <1>9 DEF Gated

\* The worker takes the only request of its task.
LEMMA CtlTakeKeepsGated ==
    ASSUME Inductive, Gated, CtlTake
    PROVE  Gated'
<1> DEFINE h == Head(queue)
<1>1. queue \in Seq(Tasks \X Actions) /\ queue # <<>> /\ ctl.pc = "idle"
  BY DEF Inductive, TypeOK, CtlTake
<1>2. /\ queue' = Tail(queue) /\ ctl'.task = queue[1][1] /\ ctl'.act = queue[1][2]
      /\ UNCHANGED <<acts, lost, call, status>>
  BY <1>1 DEF CtlTake
<1>3. /\ Len(queue) \in Nat \ {0} /\ Len(queue') = Len(queue) - 1
      /\ \A i \in 1..Len(queue') : queue'[i] = queue[i + 1]
  BY <1>1, <1>2
<1>4. RequestsOnDisk'
  <2> SUFFICES ASSUME NEW u \in Tasks \ lost
               PROVE  /\ \A i \in 1..Len(queue') :
                            queue'[i][1] = u => acts[u][queue'[i][2]] \in ControlStates
                      /\ \A i, j \in 1..Len(queue') :
                            queue'[i][1] = u /\ queue'[j][1] = u => i = j
                      /\ ctl'.task = u =>
                            /\ acts[u][ctl'.act] \in ControlStates
                            /\ \A i \in 1..Len(queue') : queue'[i][1] # u
    BY <1>2 DEF RequestsOnDisk
  <2>1. /\ \A i \in 1..Len(queue) : queue[i][1] = u => acts[u][queue[i][2]] \in ControlStates
        /\ \A i, j \in 1..Len(queue) : queue[i][1] = u /\ queue[j][1] = u => i = j
    BY DEF Gated, RequestsOnDisk
  <2>2. /\ 1 \in 1..Len(queue) /\ Len(queue) \in Nat
        /\ \A i \in 1..Len(queue') : i + 1 \in 1..Len(queue) /\ i + 1 # 1 /\ i \in Nat
    BY <1>3
  <2>3. \A i \in 1..Len(queue') :
            queue'[i][1] = u => acts[u][queue'[i][2]] \in ControlStates
    BY <1>3, <2>1, <2>2
  <2>4. \A i, j \in 1..Len(queue') : queue'[i][1] = u /\ queue'[j][1] = u => i = j
    <3> SUFFICES ASSUME NEW i \in 1..Len(queue'), NEW j \in 1..Len(queue'),
                        queue'[i][1] = u, queue'[j][1] = u
                 PROVE  i = j
      OBVIOUS
    <3>1. i + 1 = j + 1
      BY <1>3, <2>1, <2>2
    <3> QED  BY <2>2, <3>1
  <2>5. ctl'.task = u => /\ acts[u][ctl'.act] \in ControlStates
                         /\ \A i \in 1..Len(queue') : queue'[i][1] # u
    BY <1>2, <1>3, <2>1, <2>2
  <2> QED  BY <2>3, <2>4, <2>5
<1>5. WritersSawNone' /\ FreshIsClear'
  BY <1>2 DEF Gated, WritersSawNone, FreshIsClear, Unresolved
<1> QED  BY <1>4, <1>5 DEF Gated

\* The worker writes the state of its action back: while it has a request, its
\* task is unresolved and no create is fresh, unless the task lost an entry.
LEMMA WorkerWritesGated ==
    ASSUME Inductive, Gated, NEW state \in ActStates, ctl.pc # "idle",
           WriteBack(ctl.task, ctl.seen, ctl.act, state), UNCHANGED <<queue, call, status>>,
           \/ ctl'.pc = "idle"
           \/ state \in ControlStates /\ ctl'.task = ctl.task /\ ctl'.act = ctl.act
    PROVE  Gated'
<1> DEFINE t == ctl.task
           a == ctl.act
<1>1. /\ t \in Tasks /\ a \in Actions /\ ctl.seen \in [Actions -> ActStates]
      /\ acts \in [Tasks -> [Actions -> ActStates]] /\ queue \in Seq(Tasks \X Actions)
  BY DEF Inductive, TypeOK, ControlOfTasks, Workers
<1>2. /\ acts' = [acts EXCEPT ![t] = [ctl.seen EXCEPT ![a] = state]]
      /\ lost' = IF ctl.seen = acts[t] THEN lost ELSE lost \cup {t}
  BY DEF WriteBack
<1>3. \A u \in Tasks \ lost' : u \in Tasks \ lost /\ (u # t => acts'[u] = acts[u])
  BY <1>1, <1>2
<1>4. t \notin lost' => /\ acts[t][a] \in ControlStates
                        /\ \A i \in 1..Len(queue) : queue[i][1] # t
                        /\ acts'[t][a] = state
  BY <1>1, <1>2 DEF Gated, RequestsOnDisk
<1>5. RequestsOnDisk'
  BY <1>1, <1>3, <1>4 DEF Gated, RequestsOnDisk
<1>6. WritersSawNone'
  BY DEF Gated, WritersSawNone
<1>7. FreshIsClear'
  <2> SUFFICES ASSUME NEW c \in Callers, call[c].fresh, NEW u \in Tasks \ lost'
               PROVE  ~Unresolved(u)'
    BY DEF FreshIsClear
  <2>1. ~Unresolved(u)
    BY <1>3 DEF Gated, FreshIsClear
  <2>2. u # t
    BY <1>1, <1>4, <2>1 DEF Unresolved
  <2> QED  BY <1>3, <2>1, <2>2 DEF Unresolved
<1> QED  BY <1>5, <1>6, <1>7 DEF Gated

\* The worker labels a task whose recovery failed while its action is active.
LEMMA CtlLabelKeepsGated ==
    ASSUME Inductive, Gated, CtlLabel
    PROVE  Gated'
<1> DEFINE t == ctl.task
<1>1. /\ t \in Tasks /\ ctl.act \in Actions /\ ctl \in Workers
      /\ status \in [Tasks -> Statuses]
  BY DEF Inductive, TypeOK, ControlOfTasks, Workers, CtlLabel
<1>2. /\ UNCHANGED <<acts, queue, lost, call>> /\ ctl.pc # "idle"
      /\ ctl'.task = t /\ ctl'.act = ctl.act
      /\ \A u \in Tasks : u # t => status'[u] = status[u]
  BY <1>1 DEF CtlLabel, Label, Workers
<1>3. RequestsOnDisk'
  BY <1>2 DEF Gated, RequestsOnDisk
<1>4. WritersSawNone'
  BY <1>2 DEF Gated, WritersSawNone
<1>5. FreshIsClear'
  <2> SUFFICES ASSUME NEW c \in Callers, call[c].fresh, NEW u \in Tasks \ lost
               PROVE  ~Unresolved(u)'
    BY <1>2 DEF FreshIsClear
  <2>1. ~Unresolved(u)
    BY DEF Gated, FreshIsClear
  <2>2. u # t
    BY <1>1, <1>2, <2>1 DEF Unresolved, Gated, RequestsOnDisk
  <2> QED  BY <1>2, <2>1, <2>2 DEF Unresolved
<1> QED  BY <1>3, <1>4, <1>5 DEF Gated

\* A restart forgets the requests and the worker.
LEMMA RestartKeepsGated ==
    ASSUME Restart
    PROVE  Gated'
<1>1. queue' = <<>> /\ ctl'.pc = "idle"
  BY DEF Restart, IdleCtl
<1>2. \A c \in Callers : call'[c].pc = "idle" /\ ~call'[c].fresh
  BY DEF Restart, IdleCall, Request
<1> QED  BY <1>1, <1>2 DEF Gated, RequestsOnDisk, WritersSawNone, FreshIsClear

\* It holds when the Controller comes up.
LEMMA InitGated == Init => Gated
BY DEF Init, Gated, RequestsOnDisk, WritersSawNone, FreshIsClear, IdleCall, Request, IdleCtl

\* Every step keeps it.
LEMMA NextGated == Inductive /\ Gated /\ [Next]_vars => Gated'
<1> SUFFICES ASSUME Inductive, Gated, [Next]_vars PROVE Gated'
  OBVIOUS
<1>1. ASSUME NEW c \in Callers, CallStep(c) PROVE Gated'
  BY <1>1, CreateIsQuiet, QuietKeeps, CreateGateKeepsGated, ControlStartKeepsGated,
     ControlWriteKeepsGated DEF CallStep
<1>2. ASSUME NEW c \in Callers, NEW k \in Keys, CreateBegin(c, k) PROVE Gated'
  BY <1>2, CreateIsQuiet, QuietKeeps
<1>3. ASSUME NEW c \in Callers, NEW a \in Actions, NEW t \in Tasks, ControlBegin(c, a, t)
      PROVE  Gated'
  BY <1>3, CreateIsQuiet, QuietKeeps
<1>4. CASE CtlStep
  <2>1. CASE CtlMark
    <3>1. /\ ctl.pc # "idle" /\ WriteBack(ctl.task, ctl.seen, ctl.act, "RUNNING")
          /\ UNCHANGED <<queue, call, status>>
      BY <2>1 DEF CtlMark
    <3>2. ctl'.task = ctl.task /\ ctl'.act = ctl.act
      BY <2>1 DEF CtlMark, Inductive, TypeOK, Workers
    <3>3. "RUNNING" \in ControlStates /\ "RUNNING" \in ActStates
      BY DEF ControlStates, ActStates
    <3> QED  BY <3>1, <3>2, <3>3, WorkerWritesGated
  <2>2. CASE CtlFinWrite
    <3>1. /\ ctl.pc # "idle" /\ WriteBack(ctl.task, ctl.seen, ctl.act, ctl.outcome)
          /\ UNCHANGED <<queue, call, status>> /\ ctl'.pc = "idle"
      BY <2>2 DEF CtlFinWrite, IdleCtl
    <3>2. ctl.outcome \in ActStates
      BY DEF Inductive, TypeOK, Workers, ActStates
    <3> QED  BY <3>1, <3>2, WorkerWritesGated
  <2> QED
    BY <1>4, <2>1, <2>2, WorkerIsQuiet, QuietKeeps, CtlTakeKeepsGated, CtlLabelKeepsGated
    DEF CtlStep
<1>5. CASE RunStep
  BY <1>5, CampaignIsQuiet, QuietKeeps DEF RunStep
<1>6. ASSUME NEW t \in Tasks,
             CampaignMutate(t) \/ CampaignRecover(t) \/ CampaignResult(t) \/ CampaignRaise(t)
      PROVE  Gated'
  BY <1>6, CampaignIsQuiet, QuietKeeps
<1>7. ASSUME NEW e \in Emitters, NEW t \in Tasks, NEW k \in Kinds, EventRead(e, t, k)
      PROVE  Gated'
  BY <1>7, CampaignIsQuiet, QuietKeeps
<1>8. ASSUME NEW e \in Emitters, EventWrite(e) PROVE Gated'
  BY <1>8, CampaignIsQuiet, QuietKeeps
<1>9. CASE CliRun
  BY <1>9, CampaignIsQuiet, QuietKeeps
<1>10. CASE Restart
  BY <1>10, RestartKeepsGated
<1>11. CASE UNCHANGED vars
  BY <1>11, QuietKeeps DEF vars, Quiet
<1> QED
  BY <1>1, <1>2, <1>3, <1>4, <1>5, <1>6, <1>7, <1>8, <1>9, <1>10, <1>11 DEF Next
----------------------------------------------------------------------------
(***************************************************************************)
(* Tasks are created once and stay                                         *)
(***************************************************************************)

\* No step takes a task away, and only store.create brings one.
OnlyCreates ==
    \A t \in Tasks :
        /\ status[t] # "ABSENT" => status'[t] # "ABSENT"
        /\ status[t] = "ABSENT" /\ status'[t] # "ABSENT" =>
              \E c \in Callers : CreateStore(c, t)

\* One task gets a new label, and it had been created.
LEMMA Relabels ==
    ASSUME TypeOK, NEW t \in Tasks, status[t] # "ABSENT", NEW s, s # "ABSENT",
           status' = status \/ status' = [status EXCEPT ![t] = s]
    PROVE  OnlyCreates
BY DEF TypeOK, OnlyCreates

\* That is so for every step.
LEMMA TasksStay ==
    ASSUME Inductive, Known, [Next]_vars
    PROVE  OnlyCreates
<1> USE DEF Inductive
<1>1. UNCHANGED status => OnlyCreates
  BY DEF OnlyCreates
<1>2. ASSUME NEW c \in Callers, NEW t \in Tasks, CreateStore(c, t) PROVE OnlyCreates
  <2>1. status' = [status EXCEPT ![t] = "QUEUED"] /\ status \in [Tasks -> Statuses]
    BY <1>2 DEF CreateStore, Label, TypeOK
  <2>2. \A u \in Tasks : IF u = t THEN status'[u] = "QUEUED" ELSE status'[u] = status[u]
    BY <2>1
  <2> QED  BY <1>2, <2>2 DEF OnlyCreates
<1>3. ASSUME NEW c \in Callers, CreateReject(c) PROVE OnlyCreates
  <2>1. call[c].task \in Tasks /\ status[call[c].task] # "ABSENT"
    BY <1>3 DEF RequestsOfTasks, CreateReject
  <2> QED  BY <1>3, <2>1, Relabels DEF CreateReject, Label
<1>4. ASSUME NEW c \in Callers, ControlWrite(c) PROVE OnlyCreates
  <2>1. /\ call[c].task \in Tasks /\ status[call[c].task] # "ABSENT"
        /\ call[c].status # "ABSENT"
    BY <1>4 DEF RequestsOfTasks, ControlWrite
  <2> QED  BY <1>4, <2>1, Relabels DEF ControlWrite
<1>5. CASE CtlLabel
  <2>1. ctl.task \in Tasks /\ status[ctl.task] # "ABSENT"
    BY <1>5 DEF ControlOfTasks, Known, CtlLabel
  <2> QED  BY <1>5, <2>1, Relabels DEF CtlLabel, Label
<1>6. CASE CampaignDone
  <2>1. ev["run"].task \in Tasks /\ status[ev["run"].task] # "ABSENT"
    BY <1>6 DEF EventsOfCampaigns, Known, CampaignDone, Emitters
  <2> QED  BY <1>6, <2>1, Relabels DEF CampaignDone, Label
<1>7. ASSUME NEW e \in Emitters, EventWrite(e) PROVE OnlyCreates
  <2> DEFINE t == ev[e].task
             s == CASE ev[e].kind = "question" -> "HARNESS_RESPONDING"
                    [] ev[e].kind = "answer" -> "RUNNING"
                    [] OTHER -> IF ev[e].held THEN status[t] ELSE "RUNNING"
  <2>1. t \in Tasks /\ status[t] # "ABSENT"
    BY <1>7 DEF EventsOfCampaigns, Known, EventWrite
  <2>2. s # "ABSENT"
    BY <2>1
  <2>3. status' = [status EXCEPT ![t] = s]
    BY <1>7 DEF EventWrite
  <2> HIDE DEF s
  <2> QED  BY <2>1, <2>2, <2>3, Relabels
<1>8. CASE CtlStep
  <2>1. CtlLabel \/ UNCHANGED status
    BY <1>8 DEF CtlStep, CtlTake, CtlMark, CtlStop, CtlWait, CtlRecover, CtlRestore,
                CtlFinRead, CtlFinWrite
  <2> QED  BY <1>1, <1>5, <2>1
<1>9. ASSUME NEW c \in Callers, CallStep(c) PROVE OnlyCreates
  <2>1. \/ CreateReject(c) \/ ControlWrite(c) \/ UNCHANGED status
        \/ \E t \in Tasks : CreateStore(c, t)
    BY <1>9 DEF CallStep, CreateGate, CreateRuns, CreateBind, CreateSubmit, ControlStart
  <2> QED  BY <1>1, <1>2, <1>3, <1>4, <2>1
<1>10. CASE RunStep
  <2>1. CampaignDone \/ UNCHANGED status
    BY <1>10 DEF RunStep, CampaignStart
  <2> QED  BY <1>1, <1>6, <2>1
<1>11. CASE \/ \E c \in Callers, k \in Keys : CreateBegin(c, k)
            \/ \E c \in Callers, a \in Actions, t \in Tasks : ControlBegin(c, a, t)
            \/ \E t \in Tasks : CampaignMutate(t) \/ CampaignRecover(t)
                                \/ CampaignResult(t) \/ CampaignRaise(t)
            \/ \E e \in Emitters, t \in Tasks, k \in Kinds : EventRead(e, t, k)
            \/ CliRun \/ Restart \/ UNCHANGED vars
  <2>1. UNCHANGED status
    BY <1>11 DEF CreateBegin, ControlBegin, CampaignMutate, CampaignRecover, CampaignResult,
                 CampaignRaise, EventRead, CliRun, Restart, vars
  <2> QED  BY <1>1, <2>1
<1> QED  BY <1>7, <1>8, <1>9, <1>10, <1>11 DEF Next

\* A step that takes up no task: what is controlled or reported for was before.
LEMMA KnownStays ==
    ASSUME Inductive, Known, OnlyCreates,
           queue' = queue \/ queue' = <<>>,
           ctl'.pc # "idle" => ctl.pc # "idle" /\ ctl'.task = ctl.task,
           \A e \in Emitters : ev'[e].pc # "idle" =>
               \/ ev[e].pc # "idle" /\ ev'[e].task = ev[e].task
               \/ ev'[e].task \in Tasks /\ status[ev'[e].task] # "ABSENT"
    PROVE  Known'
<1>1. ctl'.pc # "idle" => status'[ctl'.task] # "ABSENT"
  BY DEF Inductive, ControlOfTasks, Known, OnlyCreates
<1>2. \A i \in 1..Len(queue') : status'[queue'[i][1]] # "ABSENT"
  <2>1. CASE queue' = queue
    <3>1. \A i \in 1..Len(queue) : queue[i][1] \in Tasks
      BY DEF Inductive, TypeOK
    <3> QED  BY <2>1, <3>1 DEF Known, OnlyCreates
  <2>2. CASE queue' = <<>>
    BY <2>2
  <2> QED  BY <2>1, <2>2
<1>3. \A e \in Emitters : ev'[e].pc # "idle" => status'[ev'[e].task] # "ABSENT"
  BY DEF Inductive, EventsOfCampaigns, Known, OnlyCreates
<1> QED  BY <1>1, <1>2, <1>3 DEF Known

\* Every step keeps it: requests are for tasks that exist, and a campaign
\* that reports was submitted.
LEMMA NextKnown == Inductive /\ Known /\ [Next]_vars => Known'
<1> SUFFICES ASSUME Inductive, Known, [Next]_vars PROVE Known'
  OBVIOUS
<1>1. OnlyCreates
  BY TasksStay
<1>2. queue \in Seq(Tasks \X Actions) /\ ctl \in Workers /\ ev \in [Emitters -> Reports]
  BY DEF Inductive, TypeOK
<1>3. UNCHANGED <<queue, ctl, ev>> => Known'
  BY <1>1, KnownStays
<1>4. ASSUME NEW c \in Callers, ControlWrite(c) PROVE Known'
  <2>1. /\ call[c].task \in Tasks /\ status[call[c].task] # "ABSENT" /\ call[c].act \in Actions
        /\ queue' = Append(queue, <<call[c].task, call[c].act>>) /\ UNCHANGED <<ctl, ev>>
    BY <1>4 DEF Inductive, TypeOK, RequestsOfTasks, ControlWrite, Requests
  <2>2. /\ ctl'.pc # "idle" => status'[ctl'.task] # "ABSENT"
        /\ \A e \in Emitters : ev'[e].pc # "idle" => status'[ev'[e].task] # "ABSENT"
    BY <1>1, <2>1 DEF Inductive, ControlOfTasks, EventsOfCampaigns, Known, OnlyCreates
  <2>3. \A i \in 1..Len(queue') :
            \/ i \in 1..Len(queue) /\ queue'[i] = queue[i] /\ queue[i][1] \in Tasks
            \/ queue'[i] = <<call[c].task, call[c].act>>
    BY <1>2, <2>1
  <2>4. \A i \in 1..Len(queue') : status'[queue'[i][1]] # "ABSENT"
    BY <1>1, <2>1, <2>3 DEF Known, OnlyCreates
  <2> QED  BY <2>2, <2>4 DEF Known
<1>5. CASE CtlTake
  <2>1. /\ queue # <<>> /\ queue' = Tail(queue) /\ ctl'.task = queue[1][1] /\ UNCHANGED <<ev, status>>
    BY <1>2, <1>5 DEF CtlTake
  <2>2. /\ 1 \in 1..Len(queue)
        /\ \A i \in 1..Len(queue') : i + 1 \in 1..Len(queue) /\ queue'[i] = queue[i + 1]
    <3>1. /\ Len(queue) \in Nat \ {0} /\ Len(queue') = Len(queue) - 1
          /\ \A i \in 1..Len(queue') : queue'[i] = queue[i + 1]
      BY <1>2, <2>1
    <3> QED  BY <3>1
  <2> QED  BY <2>1, <2>2 DEF Known
<1>6. CASE CtlStep /\ ~CtlTake
  <2>1. UNCHANGED <<queue, ev>> /\ ctl.pc # "idle"
    BY <1>6 DEF CtlStep, CtlMark, CtlStop, CtlWait, CtlRecover, CtlLabel, CtlRestore,
                CtlFinRead, CtlFinWrite
  <2>2. ctl'.pc = "idle" \/ ctl'.task = ctl.task
    <3>1. CtlMark \/ CtlStop \/ CtlLabel \/ CtlRestore \/ CtlFinRead => ctl'.task = ctl.task
      BY <1>2 DEF CtlMark, CtlStop, CtlLabel, CtlRestore, CtlFinRead, Workers
    <3>2. CtlWait \/ CtlRecover => ctl'.task = ctl.task
      BY <1>2 DEF CtlWait, CtlRecover, Workers
    <3>3. CtlFinWrite => ctl'.pc = "idle"
      BY DEF CtlFinWrite, IdleCtl
    <3> QED  BY <1>6, <3>1, <3>2, <3>3 DEF CtlStep
  <2> QED  BY <1>1, <2>1, <2>2, KnownStays
<1>7. ASSUME NEW c \in Callers, CallStep(c) PROVE Known'
  <2>1. ControlWrite(c) \/ UNCHANGED <<queue, ctl, ev>>
    BY <1>7 DEF CallStep, CreateGate, CreateRuns, CreateBind, CreateSubmit, CreateReject,
                CreateStore, ControlStart
  <2> QED  BY <1>3, <1>4, <2>1
<1>8. ASSUME NEW t \in Tasks, CampaignResult(t) PROVE Known'
  <2>1. /\ UNCHANGED <<queue, ctl>> /\ ev'["run"].task = t
        /\ ev'["monitor"] = ev["monitor"] /\ status[t] # "ABSENT"
    BY <1>2, <1>8 DEF CampaignResult, Free, Inductive, RequestsOfTasks, Emitters
  <2> QED  BY <1>1, <2>1, KnownStays DEF Emitters
<1>9. ASSUME NEW e \in Emitters, NEW t \in Tasks, NEW k \in Kinds, EventRead(e, t, k)
      PROVE  Known'
  <2>1. /\ UNCHANGED <<queue, ctl>> /\ ev'[e].task = t /\ status[t] # "ABSENT"
        /\ \A d \in Emitters : d # e => ev'[d] = ev[d]
    BY <1>2, <1>9 DEF EventRead, Inductive, RequestsOfTasks
  <2> QED  BY <1>1, <2>1, KnownStays
<1>10. ASSUME NEW e \in Emitters, EventWrite(e) PROVE Known'
  <2>1. /\ UNCHANGED <<queue, ctl>> /\ ev'[e].pc = "idle"
        /\ \A d \in Emitters : d # e => ev'[d] = ev[d]
    BY <1>2, <1>10 DEF EventWrite, IdleEv
  <2> QED  BY <1>1, <2>1, KnownStays
<1>11. CASE CampaignDone
  <2>1. /\ UNCHANGED <<queue, ctl>> /\ ev'["run"].pc = "idle"
        /\ ev'["monitor"] = ev["monitor"]
    BY <1>2, <1>11 DEF CampaignDone, IdleEv, Emitters
  <2> QED  BY <1>1, <2>1, KnownStays DEF Emitters
<1>12. CASE Restart
  <2>1. /\ queue' = <<>> /\ ctl'.pc = "idle" /\ \A e \in Emitters : ev'[e].pc = "idle"
    BY <1>12 DEF Restart, IdleEv, IdleCtl
  <2> QED  BY <1>1, <2>1, KnownStays
<1>13. CASE \/ \E c \in Callers, k \in Keys : CreateBegin(c, k)
            \/ \E c \in Callers, a \in Actions, t \in Tasks : ControlBegin(c, a, t)
            \/ \E t \in Tasks : CampaignMutate(t) \/ CampaignRecover(t) \/ CampaignRaise(t)
                                \/ CampaignStart(t)
            \/ CliRun \/ UNCHANGED vars
  <2>1. UNCHANGED <<queue, ctl, ev>>
    BY <1>13 DEF CreateBegin, ControlBegin, CampaignMutate, CampaignRecover, CampaignRaise,
                 CampaignStart, CliRun, vars
  <2> QED  BY <1>3, <2>1
<1> QED
  BY <1>5, <1>6, <1>7, <1>8, <1>9, <1>10, <1>11, <1>12, <1>13 DEF Next, RunStep

\* The three invariants hold in every reachable state.
LEMMA AlwaysGated == Spec => [](Inductive /\ Known /\ Gated)
<1>1. Init => Known
  BY DEF Init, Known, IdleCtl, IdleEv
<1>2. Inductive /\ Known /\ Gated /\ [Next]_vars => (Inductive /\ Known /\ Gated)'
  BY NextInductive, NextKnown, NextGated
<1> QED  BY <1>1, <1>2, InitInductive, InitGated, PTL DEF Spec

\* No task is created over an unresolved recovery, except one whose request
\* came after create looked or was overwritten on disk: has_unresolved_recovery
\* together with the way control_actions are read and written back.
THEOREM CreationKeepsOut == Spec => CreateExcludesRecovery
<1> DEFINE Excluded == \A t \in Tasks :
          status[t] = "ABSENT" /\ status'[t] # "ABSENT" =>
              \/ \A u \in Tasks \ lost : ~Unresolved(u)
              \/ \E c \in Callers : call[c].pc = "store" /\ ~call[c].fresh
                                    /\ call'[c].task = t
<1>1. ASSUME Inductive, Known, Gated, [Next]_vars PROVE Excluded
  <2> SUFFICES ASSUME NEW t \in Tasks, status[t] = "ABSENT", status'[t] # "ABSENT"
               PROVE  \/ \A u \in Tasks \ lost : ~Unresolved(u)
                      \/ \E c \in Callers : call[c].pc = "store" /\ ~call[c].fresh
                                            /\ call'[c].task = t
    OBVIOUS
  <2>1. PICK c \in Callers : CreateStore(c, t)
    BY <1>1, TasksStay DEF OnlyCreates
  <2>2. call[c].pc = "store" /\ call'[c].task = t
    BY <1>1, <2>1 DEF CreateStore, Inductive, TypeOK, Requests
  <2>3. call[c].fresh => \A u \in Tasks \ lost : ~Unresolved(u)
    BY <1>1 DEF Gated, FreshIsClear
  <2> QED  BY <2>2, <2>3
<1>2. Inductive /\ Known /\ Gated /\ [Next]_vars => [Excluded]_vars
  BY <1>1
<1> QED  BY <1>2, AlwaysGated, PTL DEF Spec, CreateExcludesRecovery
----------------------------------------------------------------------------
(***************************************************************************)
(* Aborted tasks and the environment                                       *)
(***************************************************************************)

\* A task with a result is over, or about to be labelled by the thread that
\* wrote the result; a result that found no mutation was right for good.
ResultsArePast ==
    /\ dirty \subseteq mutated
    /\ \A t \in Tasks : result[t] # "none" =>
           /\ status[t] # "ABSENT" /\ fut[t] # "PENDING" /\ ~Submitting(t)
           /\ fut[t] = "RUNNING" => ev["run"].pc = "label" /\ ev["run"].task = t
    /\ \A t \in Tasks : result[t] = "untouched" => t \notin mutated

\* Once the stop is behind the worker and the campaign did not escape it, the
\* campaign will not run again, and a verified recovery stays one.
StoppedForGood ==
    ctl.pc \in {"recover", "label"} /\ ~ctl.escaped =>
        /\ fut[ctl.task] \in {"NONE", "DONE"} /\ ~Submitting(ctl.task)
        /\ ctl.pc = "label" /\ ctl.outcome = "SUCCEEDED" => ctl.task \notin dirty

Stopped == ResultsArePast /\ StoppedForGood

\* What a step may do to a campaign: it is submitted by its own create only,
\* starts once, and changes the environment and writes its result while free.
CampaignMoves ==
    /\ \A t \in Tasks : Submitting(t)' => Submitting(t) \/ status[t] = "ABSENT"
    /\ \A t \in Tasks :
          /\ fut'[t] = "PENDING" => fut[t] = "PENDING" \/ Submitting(t)
          /\ fut'[t] = "RUNNING" => fut[t] \in {"PENDING", "RUNNING"}
          /\ fut'[t] \in {"FAILED", "CANCELLED"} => fut[t] \notin {"NONE", "DONE"}
    /\ dirty \subseteq mutated => dirty' \subseteq mutated'
    /\ \A t \in Tasks : t \in dirty' => t \in dirty \/ Free(t)
    /\ \A t \in Tasks : t \in mutated' => t \in mutated \/ Free(t)
    /\ \A t \in Tasks :
          \/ result'[t] = result[t]
          \/ /\ Free(t) /\ result'[t] = Recorded(t) /\ UNCHANGED <<mutated, fut, status, call>>
             /\ ev'["run"].pc = "label" /\ ev'["run"].task = t
    /\ ev["run"].pc = "label" =>
          ev'["run"] = ev["run"] \/ fut'[ev["run"].task] # "RUNNING"

\* A step that touches neither campaigns nor the environment nor who submits.
LEMMA NoMoves ==
    ASSUME UNCHANGED <<fut, dirty, mutated, result>>,
           \A t \in Tasks : Submitting(t)' => Submitting(t) \/ status[t] = "ABSENT",
           ev["run"].pc = "label" => ev'["run"] = ev["run"]
    PROVE  CampaignMoves
BY DEF CampaignMoves

\* The requests.
LEMMA CallMovesCampaign ==
    ASSUME Inductive, NEW c \in Callers,
           \/ CallStep(c)
           \/ \E k \in Keys : CreateBegin(c, k)
           \/ \E a \in Actions, t \in Tasks : ControlBegin(c, a, t)
    PROVE  CampaignMoves
<1>1. call[c] \in Requests /\ call \in [Callers -> Requests] /\ fut \in [Tasks -> Futures]
  BY DEF Inductive, TypeOK
<1>2. UNCHANGED <<dirty, mutated, result, ev>>
  BY DEF CallStep, CreateGate, CreateRuns, CreateBind, CreateSubmit, CreateReject, CreateStore,
         ControlStart, ControlWrite, CreateBegin, ControlBegin
<1>3. ASSUME \A d \in Callers : d # c => call'[d].pc = call[d].pc /\ call'[d].task = call[d].task,
             \/ call'[c].pc \notin {"bind", "submit"}
             \/ call[c].pc \in {"bind", "submit"} /\ call'[c].task = call[c].task
             \/ call'[c].task \in Tasks /\ status[call'[c].task] = "ABSENT"
      PROVE  \A t \in Tasks : Submitting(t)' => Submitting(t) \/ status[t] = "ABSENT"
  BY <1>3 DEF Submitting
<1>4. IdleCall.pc = "idle"
  BY DEF IdleCall, Request
<1>5. CASE CreateSubmit(c)
  <2>1. \A t \in Tasks : Submitting(t)' => Submitting(t) \/ status[t] = "ABSENT"
    <3>1. \/ call' = [call EXCEPT ![c] = IdleCall]
          \/ call' = [call EXCEPT ![c].pc = "reject"]
      BY <1>5 DEF CreateSubmit, Return, Goto
    <3> QED  BY <1>1, <1>3, <1>4, <3>1 DEF Requests
  <2>2. \A t \in Tasks : fut'[t] = fut[t] \/ (fut'[t] = "PENDING" /\ Submitting(t))
    <3>1. Submitting(call[c].task)
      BY <1>5 DEF CreateSubmit, Submitting
    <3>2. fut' = fut \/ fut' = [fut EXCEPT ![call[c].task] = "PENDING"]
      BY <1>5 DEF CreateSubmit
    <3> QED  BY <1>1, <3>1, <3>2
  <2> QED  BY <1>2, <2>1, <2>2 DEF CampaignMoves
<1>6. CASE ~CreateSubmit(c)
  <2>1. UNCHANGED fut
    BY <1>6 DEF CallStep, CreateGate, CreateRuns, CreateBind, CreateReject, CreateStore,
                ControlStart, ControlWrite, CreateBegin, ControlBegin
  <2>2. \A t \in Tasks : Submitting(t)' => Submitting(t) \/ status[t] = "ABSENT"
    <3>1. CASE CreateGate(c) \/ CreateRuns(c) \/ CreateReject(c)
      <4>1. /\ \A d \in Callers : d # c => call'[d] = call[d]
            /\ call'[c].pc \in {"idle", "runs", "store"}
        <5>1. CASE call' = [call EXCEPT ![c] = IdleCall]
          BY <1>1, <1>4, <5>1
        <5>2. CASE Goto(c, "store")
          BY <1>1, <5>2 DEF Goto, Requests
        <5>3. CASE call' = [call EXCEPT ![c].pc = "runs", ![c].fresh = TRUE]
          BY <1>1, <5>3 DEF Requests
        <5> QED  BY <3>1, <5>1, <5>2, <5>3 DEF CreateGate, CreateRuns, CreateReject, Return
      <4> QED  BY <1>3, <4>1
    <3>2. CASE CreateBind(c)
      BY <1>1, <1>3, <3>2 DEF CreateBind, Goto, Requests
    <3>3. ASSUME NEW t \in Tasks, CreateStore(c, t)
          PROVE  \A u \in Tasks : Submitting(u)' => Submitting(u) \/ status[u] = "ABSENT"
      BY <1>1, <1>3, <3>3 DEF CreateStore, Requests
    <3>4. ASSUME NEW same \in BOOLEAN, ControlStart(c, same)
          PROVE  \A u \in Tasks : Submitting(u)' => Submitting(u) \/ status[u] = "ABSENT"
      BY <1>1, <1>3, <1>4, <3>4 DEF ControlStart, Return, Requests
    <3>5. CASE ControlWrite(c)
      <4>1. \A d \in Callers : d # c => call'[d].pc = call[d].pc /\ call'[d].task = call[d].task
        BY <1>1, <3>5 DEF ControlWrite, Requests
      <4>2. call'[c].pc = "idle"
        BY <1>4, <3>5 DEF ControlWrite
      <4> QED  BY <1>3, <4>1, <4>2
    <3>6. ASSUME NEW k \in Keys, CreateBegin(c, k)
          PROVE  \A u \in Tasks : Submitting(u)' => Submitting(u) \/ status[u] = "ABSENT"
      <4>1. UNCHANGED call \/ call' = [call EXCEPT ![c] = Request("gate", "abort", NoTask, k)]
        BY <3>6 DEF CreateBegin
      <4> QED  BY <1>1, <1>3, <4>1 DEF Submitting, Request
    <3>7. ASSUME NEW a \in Actions, NEW t \in Tasks, ControlBegin(c, a, t)
          PROVE  \A u \in Tasks : Submitting(u)' => Submitting(u) \/ status[u] = "ABSENT"
      <4>1. UNCHANGED call \/ call' = [call EXCEPT ![c] = Request("start", a, t, NoTask)]
        BY <3>7 DEF ControlBegin
      <4> QED  BY <1>1, <1>3, <4>1 DEF Submitting, Request
    <3> QED  BY <1>6, <3>1, <3>2, <3>3, <3>4, <3>5, <3>6, <3>7 DEF CallStep
  <2> QED  BY <1>2, <2>1, <2>2, NoMoves
<1> QED  BY <1>5, <1>6

\* The control worker.
LEMMA WorkerMovesCampaign ==
    ASSUME Inductive, CtlStep
    PROVE  CampaignMoves
<1>1. UNCHANGED <<call, ev, mutated, result>>
  BY DEF CtlStep, CtlTake, CtlMark, CtlStop, CtlWait, CtlRecover, CtlLabel, CtlRestore,
         CtlFinRead, CtlFinWrite
<1>2. \A t \in Tasks : Submitting(t)' => Submitting(t)
  BY <1>1 DEF Submitting
<1>3. dirty' = dirty \/ dirty' = {}
  BY DEF CtlStep, CtlTake, CtlMark, CtlStop, CtlWait, CtlRecover, CtlLabel, CtlRestore,
         CtlFinRead, CtlFinWrite
<1>4. \A t \in Tasks : fut'[t] = fut[t] \/ (fut[t] = "PENDING" /\ fut'[t] = "CANCELLED")
  <2>1. CASE CtlStop
    BY <2>1 DEF CtlStop, Inductive, TypeOK
  <2>2. CASE ~CtlStop
    BY <2>2 DEF CtlStep, CtlTake, CtlMark, CtlWait, CtlRecover, CtlLabel, CtlRestore,
                CtlFinRead, CtlFinWrite
  <2> QED  BY <2>1, <2>2
<1> QED  BY <1>1, <1>2, <1>3, <1>4 DEF CampaignMoves

\* The campaign itself, its reports, the CLI and restarts.
LEMMA CampaignMovesItself ==
    ASSUME Inductive,
           \/ \E t \in Tasks : \/ CampaignStart(t) \/ CampaignMutate(t) \/ CampaignRecover(t)
                               \/ CampaignResult(t) \/ CampaignRaise(t)
           \/ CampaignDone \/ CliRun \/ Restart
           \/ \E e \in Emitters, t \in Tasks, k \in Kinds : EventRead(e, t, k)
           \/ \E e \in Emitters : EventWrite(e)
    PROVE  CampaignMoves
<1>1. /\ fut \in [Tasks -> Futures] /\ ev \in [Emitters -> Reports]
      /\ result \in [Tasks -> Results]
  BY DEF Inductive, TypeOK
<1>2. UNCHANGED call => \A t \in Tasks : Submitting(t)' => Submitting(t)
  BY DEF Submitting
<1>3. ASSUME NEW t \in Tasks, CampaignStart(t) PROVE CampaignMoves
  <2>1. \A u \in Tasks : fut'[u] = IF u = t THEN "RUNNING" ELSE fut[u]
    BY <1>1, <1>3 DEF CampaignStart
  <2>2. UNCHANGED <<dirty, mutated, result, ev, call>> /\ fut[t] = "PENDING"
    BY <1>3 DEF CampaignStart
  <2> QED  BY <1>2, <2>1, <2>2 DEF CampaignMoves
<1>4. ASSUME NEW t \in Tasks, CampaignMutate(t) PROVE CampaignMoves
  <2>1. /\ Free(t) /\ UNCHANGED <<fut, result, ev, call>>
        /\ dirty' = dirty \cup {t} /\ mutated' = mutated \cup {t}
    BY <1>4 DEF CampaignMutate
  <2> QED  BY <1>2, <2>1 DEF CampaignMoves
<1>5. ASSUME NEW t \in Tasks, CampaignRecover(t) PROVE CampaignMoves
  <2>1. /\ UNCHANGED <<fut, result, ev, call, mutated>> /\ dirty' = dirty \ {t}
    BY <1>5 DEF CampaignRecover
  <2> QED  BY <1>2, <2>1 DEF CampaignMoves
<1>6. ASSUME NEW t \in Tasks, CampaignResult(t) PROVE CampaignMoves
  <2>1. /\ Free(t) /\ UNCHANGED <<dirty, mutated, fut, status, call>>
        /\ \A u \in Tasks : IF u = t THEN result'[u] = Recorded(t) ELSE result'[u] = result[u]
        /\ ev'["run"].pc = "label" /\ ev'["run"].task = t /\ ev["run"].pc = "idle"
    BY <1>1, <1>6 DEF CampaignResult, Free, Emitters
  <2> QED  BY <1>2, <2>1 DEF CampaignMoves
<1>7. ASSUME NEW t \in Tasks, CampaignRaise(t) PROVE CampaignMoves
  <2>1. /\ \A u \in Tasks : fut'[u] = IF u = t THEN "FAILED" ELSE fut[u]
        /\ UNCHANGED <<dirty, mutated, result, ev, call>> /\ fut[t] = "RUNNING"
    BY <1>1, <1>7 DEF CampaignRaise, Free
  <2> QED  BY <1>2, <2>1 DEF CampaignMoves
<1>8. CASE CampaignDone
  <2> DEFINE t == ev["run"].task
  <2>1. t \in Tasks /\ fut[t] = "RUNNING"
    BY <1>8 DEF CampaignDone, Inductive, EventsOfCampaigns, Emitters
  <2>2. /\ \A u \in Tasks : fut'[u] = IF u = t THEN "DONE" ELSE fut[u]
        /\ UNCHANGED <<dirty, mutated, result, call>>
    BY <1>1, <1>8 DEF CampaignDone
  <2> QED  BY <1>2, <2>1, <2>2 DEF CampaignMoves
<1>9. CASE CliRun
  BY <1>2, <1>9, NoMoves DEF CliRun
<1>10. CASE Restart
  <2>1. \A t \in Tasks : ~Submitting(t)'
    BY <1>10 DEF Restart, Submitting, IdleCall, Request
  <2>2. /\ \A u \in Tasks : fut'[u] = "NONE"
        /\ UNCHANGED <<dirty, mutated, result>>
    BY <1>10 DEF Restart
  <2>3. ev["run"].pc = "label" => ev["run"].task \in Tasks
    BY DEF Inductive, EventsOfCampaigns, Emitters
  <2> QED  BY <2>1, <2>2, <2>3 DEF CampaignMoves
<1>11. ASSUME NEW e \in Emitters, NEW t \in Tasks, NEW k \in Kinds, EventRead(e, t, k)
       PROVE  CampaignMoves
  <2>1. UNCHANGED <<fut, dirty, mutated, result, call>>
    BY <1>11 DEF EventRead
  <2>2. ev["run"].pc = "label" => ev'["run"] = ev["run"]
    BY <1>1, <1>11 DEF EventRead
  <2> QED  BY <1>2, <2>1, <2>2, NoMoves
<1>12. ASSUME NEW e \in Emitters, EventWrite(e) PROVE CampaignMoves
  <2>1. UNCHANGED <<fut, dirty, mutated, result, call>>
    BY <1>12 DEF EventWrite
  <2>2. ev["run"].pc = "label" => ev'["run"] = ev["run"]
    BY <1>1, <1>12 DEF EventWrite
  <2> QED  BY <1>2, <2>1, <2>2, NoMoves
<1> QED
  BY <1>3, <1>4, <1>5, <1>6, <1>7, <1>8, <1>9, <1>10, <1>11, <1>12

\* That is so for every step.
LEMMA StepMovesCampaign ==
    ASSUME Inductive, [Next]_vars
    PROVE  CampaignMoves
<1>1. CASE UNCHANGED vars
  BY <1>1, NoMoves DEF vars, Submitting
<1>2. CASE Next
  BY <1>2, CallMovesCampaign, WorkerMovesCampaign, CampaignMovesItself DEF Next, RunStep
<1> QED  BY <1>1, <1>2

\* Every step keeps what holds of results.
LEMMA NextResultsArePast ==
    ASSUME Inductive, Known, ResultsArePast, [Next]_vars
    PROVE  ResultsArePast'
<1>1. CampaignMoves /\ OnlyCreates /\ Inductive'
  BY StepMovesCampaign, TasksStay, NextInductive
<1>2. dirty' \subseteq mutated'
  BY <1>1 DEF CampaignMoves, ResultsArePast
<1>3. ASSUME NEW t \in Tasks, result'[t] = result[t], result[t] # "none"
      PROVE  /\ status'[t] # "ABSENT" /\ fut'[t] # "PENDING" /\ ~Submitting(t)'
             /\ fut'[t] = "RUNNING" => ev'["run"].pc = "label" /\ ev'["run"].task = t
             /\ result[t] = "untouched" => t \notin mutated'
  <2>1. /\ status[t] # "ABSENT" /\ fut[t] # "PENDING" /\ ~Submitting(t)
        /\ fut[t] = "RUNNING" => ev["run"].pc = "label" /\ ev["run"].task = t
        /\ result[t] = "untouched" => t \notin mutated
    BY <1>3 DEF ResultsArePast
  <2>2. status'[t] # "ABSENT" /\ fut'[t] # "PENDING" /\ ~Submitting(t)'
    BY <1>1, <2>1 DEF CampaignMoves, OnlyCreates
  <2>3. fut'[t] = "RUNNING" => ev'["run"].pc = "label" /\ ev'["run"].task = t
    BY <1>1, <2>1 DEF CampaignMoves
  <2>4. ~Free(t)
    BY <2>1 DEF Free
  <2>5. result[t] = "untouched" => t \notin mutated'
    BY <1>1, <2>1, <2>4 DEF CampaignMoves
  <2> QED  BY <2>2, <2>3, <2>5
<1>4. ASSUME NEW t \in Tasks, result'[t] # result[t]
      PROVE  /\ status'[t] # "ABSENT" /\ fut'[t] # "PENDING" /\ ~Submitting(t)'
             /\ fut'[t] = "RUNNING" => ev'["run"].pc = "label" /\ ev'["run"].task = t
             /\ result'[t] = "untouched" => t \notin mutated'
  <2>1. /\ Free(t) /\ result'[t] = Recorded(t) /\ UNCHANGED <<mutated, fut, status, call>>
        /\ ev'["run"].pc = "label" /\ ev'["run"].task = t
    BY <1>1, <1>4 DEF CampaignMoves
  <2>2. status'[t] # "ABSENT" /\ fut'[t] = "RUNNING" /\ ~Submitting(t)'
    BY <2>1 DEF Free, Submitting, Inductive, RequestsOfTasks
  <2>3. result'[t] = "untouched" => t \notin mutated'
    BY <2>1 DEF Recorded
  <2> QED  BY <2>1, <2>2, <2>3
<1> QED  BY <1>2, <1>3, <1>4 DEF ResultsArePast

\* While the worker stays where it is, a stopped campaign stays stopped.
LEMMA StoppedStays ==
    ASSUME Inductive, Known, StoppedForGood, CampaignMoves, Inductive', UNCHANGED ctl
    PROVE  StoppedForGood'
<1> SUFFICES ASSUME ctl.pc \in {"recover", "label"}, ~ctl.escaped
             PROVE  /\ fut'[ctl.task] \in {"NONE", "DONE"} /\ ~Submitting(ctl.task)'
                    /\ ctl.pc = "label" /\ ctl.outcome = "SUCCEEDED" => ctl.task \notin dirty'
  BY DEF StoppedForGood, Submitting
<1>1. /\ fut[ctl.task] \in {"NONE", "DONE"} /\ ~Submitting(ctl.task)
      /\ ctl.pc = "label" /\ ctl.outcome = "SUCCEEDED" => ctl.task \notin dirty
  BY DEF StoppedForGood
<1>2. ctl.task \in Tasks /\ status[ctl.task] # "ABSENT" /\ fut'[ctl.task] \in Futures
  BY DEF Inductive, ControlOfTasks, Known, TypeOK
<1>3. fut'[ctl.task] \in {"NONE", "DONE"} /\ ~Submitting(ctl.task)'
  BY <1>1, <1>2 DEF CampaignMoves, Futures
<1>4. ~Free(ctl.task)
  BY <1>1 DEF Free
<1>5. ctl.task \notin dirty => ctl.task \notin dirty'
  BY <1>2, <1>4 DEF CampaignMoves
<1> QED  BY <1>1, <1>3, <1>5

\* The worker's own steps: it goes on when the campaign is done or was never
\* submitted, and takes the environment for clean when it is.
LEMMA WorkerStops ==
    ASSUME Inductive, ResultsArePast, StoppedForGood, CtlStep
    PROVE  StoppedForGood'
<1>1. ctl \in Workers
  BY DEF Inductive, TypeOK
<1>2. ctl'.pc \notin {"recover", "label"} => StoppedForGood'
  BY DEF StoppedForGood
<1>3. CASE CtlStop
  <2>1. CASE fut[ctl.task] = "NONE"
    <3>1. UNCHANGED <<fut, call>>
      BY <1>3, <2>1 DEF CtlStop
    <3>2. ctl'.pc = "recover" /\ ctl'.task = ctl.task /\ ctl'.escaped = Submitting(ctl.task)
      BY <1>1, <1>3, <2>1 DEF CtlStop, Workers
    <3>3. ~ctl'.escaped => (~Submitting(ctl.task))'
      BY <3>1, <3>2 DEF Submitting
    <3> QED  BY <2>1, <3>1, <3>2, <3>3 DEF StoppedForGood
  <2>2. CASE fut[ctl.task] # "NONE"
    <3>1. ctl'.pc = "wait"
      BY <1>1, <1>3, <2>2 DEF CtlStop, Workers
    <3> QED  BY <1>2, <3>1
  <2> QED  BY <2>1, <2>2
<1>4. CASE CtlWait
  <2>1. UNCHANGED <<fut, call>> /\ ctl'.task = ctl.task
    BY <1>1, <1>4 DEF CtlWait, Workers
  <2>2. ctl'.pc = "fin" \/ ctl'.escaped \/ (ctl'.pc = "recover" /\ fut[ctl.task] = "DONE")
    BY <1>1, <1>4 DEF CtlWait, Workers
  <2>3. fut[ctl.task] = "DONE" => (~Submitting(ctl.task))'
    BY <2>1 DEF Submitting, Inductive, RequestsOfTasks
  <2> QED  BY <2>1, <2>2, <2>3 DEF StoppedForGood
<1>5. CASE CtlRecover
  <2>1. /\ UNCHANGED <<fut, call>> /\ ctl.pc = "recover"
    BY <1>5 DEF CtlRecover
  <2>2. ctl'.task = ctl.task /\ ctl'.escaped = ctl.escaped
    BY <1>1, <1>5 DEF CtlRecover, Workers
  <2>3. ctl'.pc = "fin" \/ ctl'.outcome = "PARTIAL" \/ ctl.task \notin dirty'
    <3>1. Untouched(ctl.task, ctl.act) \/ Verified(ctl.task, ctl.act) => ctl.task \notin dirty
      <4>1. ctl.task \in Tasks
        BY <2>1 DEF Inductive, ControlOfTasks
      <4> QED  BY <4>1 DEF Untouched, Verified, ResultsArePast
    <3>2. CASE /\ Untouched(ctl.task, ctl.act) \/ Verified(ctl.task, ctl.act)
               /\ UNCHANGED dirty
      BY <3>1, <3>2
    <3>3. CASE dirty' = {}
      BY <3>3
    <3>4. CASE ctl' = [ctl EXCEPT !.pc = "label", !.outcome = "PARTIAL"]
      BY <1>1, <3>4 DEF Workers
    <3>5. CASE ctl' = [ctl EXCEPT !.pc = "fin", !.outcome = "FAILED"]
      BY <1>1, <3>5 DEF Workers
    <3> QED  BY <1>5, <3>2, <3>3, <3>4, <3>5 DEF CtlRecover
  <2>4. ~ctl.escaped => fut[ctl.task] \in {"NONE", "DONE"} /\ ~Submitting(ctl.task)
    BY <2>1 DEF StoppedForGood
  <2>5. ~ctl.escaped => fut'[ctl'.task] \in {"NONE", "DONE"} /\ (~Submitting(ctl.task))'
    BY <2>1, <2>2, <2>4 DEF Submitting
  <2> QED  BY <2>2, <2>3, <2>5 DEF StoppedForGood
<1>6. CASE CtlTake \/ CtlMark \/ CtlLabel \/ CtlRestore \/ CtlFinRead \/ CtlFinWrite
  <2>1. ctl'.pc \notin {"recover", "label"}
    <3>1. CASE CtlTake \/ CtlFinWrite
      BY <3>1 DEF CtlTake, CtlFinWrite, IdleCtl
    <3>2. CASE CtlMark \/ CtlLabel \/ CtlRestore \/ CtlFinRead
      BY <1>1, <3>2 DEF CtlMark, CtlLabel, CtlRestore, CtlFinRead, Workers
    <3> QED  BY <1>6, <3>1, <3>2
  <2> QED  BY <1>2, <2>1
<1> QED  BY <1>3, <1>4, <1>5, <1>6 DEF CtlStep

\* Every step but the worker's and a restart leaves the worker where it is.
LEMMA WorkerAlone ==
    ASSUME [Next]_vars
    PROVE  CtlStep \/ Restart \/ UNCHANGED ctl
<1>1. ASSUME NEW c \in Callers, CallStep(c) PROVE UNCHANGED ctl
  BY <1>1 DEF CallStep, CreateGate, CreateRuns, CreateBind, CreateSubmit, CreateReject,
              CreateStore, ControlStart, ControlWrite
<1>2. CASE RunStep
  BY <1>2 DEF RunStep, CampaignDone, CampaignStart
<1>3. ASSUME NEW t \in Tasks,
             CampaignMutate(t) \/ CampaignRecover(t) \/ CampaignResult(t) \/ CampaignRaise(t)
      PROVE  UNCHANGED ctl
  BY <1>3 DEF CampaignMutate, CampaignRecover, CampaignResult, CampaignRaise
<1> QED
  BY <1>1, <1>2, <1>3 DEF Next, CreateBegin, ControlBegin, EventRead, EventWrite, CliRun, vars

\* Every step keeps it.
LEMMA NextStopped == Inductive /\ Known /\ Stopped /\ [Next]_vars => Stopped'
<1> SUFFICES ASSUME Inductive, Known, Stopped, [Next]_vars PROVE Stopped'
  OBVIOUS
<1>1. ResultsArePast'
  BY NextResultsArePast DEF Stopped
<1>2. CASE CtlStep
  BY <1>1, <1>2, WorkerStops DEF Stopped
<1>3. CASE Restart
  <2>1. ctl'.pc = "idle"
    BY <1>3 DEF Restart, IdleCtl
  <2> QED  BY <1>1, <2>1 DEF Stopped, StoppedForGood
<1>4. CASE UNCHANGED ctl
  BY <1>1, <1>4, StepMovesCampaign, NextInductive, StoppedStays DEF Stopped
<1> QED  BY <1>2, <1>3, <1>4, WorkerAlone

\* It holds in every reachable state.
LEMMA AlwaysStopped == Spec => [](Inductive /\ Known /\ Stopped)
<1>1. Init => Known
  BY DEF Init, Known, IdleCtl, IdleEv
<1>2. Init => Stopped
  BY DEF Init, Stopped, ResultsArePast, StoppedForGood, IdleCtl
<1>3. Inductive /\ Known /\ Stopped /\ [Next]_vars => (Inductive /\ Known /\ Stopped)'
  BY NextInductive, NextKnown, NextStopped
<1> QED  BY <1>1, <1>2, <1>3, InitInductive, PTL DEF Spec

\* The label ABORTED of the control worker means a clean environment unless the
\* campaign escaped the abort: _abort_environment_result may trust the result,
\* because a campaign that wrote one changes nothing any more.
THEOREM AbortsAreClean == Spec => AbortedIsClean
<1> DEFINE Clean ==
          ctl.pc = "label" /\ ctl'.pc = "fin" /\ status'[ctl.task] = "ABORTED" /\ ~ctl.escaped
          => ctl.task \notin dirty'
<1>1. ASSUME Inductive, Stopped, [Next]_vars PROVE Clean
  <2> SUFFICES ASSUME ctl.pc = "label", ctl'.pc = "fin", status'[ctl.task] = "ABORTED",
                      ~ctl.escaped
               PROVE  ctl.task \notin dirty'
    OBVIOUS
  <2>1. ~Restart /\ ~UNCHANGED ctl
    BY DEF Restart, IdleCtl
  <2>2. CtlStep
    BY <1>1, <2>1, WorkerAlone
  <2>3. CtlLabel
    BY <2>2 DEF CtlStep, CtlTake, CtlMark, CtlStop, CtlWait, CtlRecover, CtlRestore,
                CtlFinRead, CtlFinWrite
  <2>4. ctl.task \in Tasks /\ status \in [Tasks -> Statuses]
    BY <1>1 DEF Inductive, ControlOfTasks, TypeOK
  <2>5. ctl.outcome = "SUCCEEDED" /\ dirty' = dirty
    BY <2>3, <2>4 DEF CtlLabel, Label
  <2> QED  BY <1>1, <2>5 DEF Stopped, StoppedForGood
<1>2. Inductive /\ Known /\ Stopped /\ [Next]_vars => [Clean]_vars
  BY <1>1
<1> QED  BY <1>2, AlwaysStopped, PTL DEF Spec, AbortedIsClean
=============================================================================
