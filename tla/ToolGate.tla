------------------------------ MODULE ToolGate ------------------------------
(***************************************************************************)
(* The boundary that every tool call of an Agent passes in the cases that  *)
(* take a capability away (D7: an observation server, D8: the executor of  *)
(* a validated plan).                                                      *)
(*                                                                         *)
(* The MCP server asks the Controller before it runs a tool and reports    *)
(* the result afterwards (audit_bridge.py, runtime_audit.py); a thread of  *)
(* the Controller handles each message.  CapabilityLossRuntime decides,    *)
(* with the state that CapabilityLossOrchestrator keeps in a locked file,  *)
(* and the server itself reads the policy file once more before the tool   *)
(* runs (PolicyGate).                                                      *)
(*                                                                         *)
(* Several calls are under way at once.  What one thread read of the state *)
(* file may be old when it takes the lock: the steps below are split       *)
(* there.  A single operation under the lock is one step.                  *)
(***************************************************************************)
EXTENDS Naturals, Sequences

CONSTANTS
    Slots,        \* calls that can be under way at once
    Servers,      \* interchangeable servers: executors in D8, observation servers in D7
    Cases,        \* the cases to be run, of {"D7", "D8"}
    Plans,        \* execution plans that differ in some compared field
    MaxAsked,     \* bound: calls that the Agent makes
    MaxCalls,     \* ExplorationBudget.max_calls
    MaxLost       \* bound: messages lost and calls that fail

ASSUME ToolGateAssumption ==
    /\ Cases \subseteq {"D7", "D8"}
    /\ {MaxAsked, MaxCalls, MaxLost} \subseteq Nat
    /\ "none" \notin Plans \cup Servers /\ "triggered" \notin Plans

VARIABLES
    case,         \* the case of the trial
    call,         \* what each slot does
    asked,        \* calls made
    st,           \* CapabilityLossState: the trial's state file
    policy,       \* the policy file: is the gated tool of a server enabled
    invalid,      \* CapabilityLossRuntime.invalid_reason is set
    fault,        \* the inventory holds a fault that has run: the oracle's window
    ledger,       \* the platform ledger, as far as confirmations need it
    decision,     \* the plan in the user decision file
    trial,        \* "on", then "finished"
    did,          \* history: what was executed, and whether finish was overtaken
    lost

files == <<st, policy, ledger, decision>>
facts == <<case, asked, fault, trial, lost>>
vars == <<case, call, asked, st, policy, invalid, fault, ledger, decision, trial, did, lost>>
-----------------------------------------------------------------------------
Tools(c) == IF c = "D8" THEN {"validate", "create"} ELSE {"observe"}
\* "explore" is a call to any other controlled server, "confirm" goes to the channel
Elsewhere == {"explore", "confirm"}

NoCall == [pc |-> "idle", tool |-> "none", srv |-> "none", plan |-> "none",
           epoch |-> 0, since |-> FALSE, fresh |-> FALSE, ok |-> FALSE]
NoState == [exists |-> FALSE, active |-> FALSE, restored |-> FALSE, primary |-> "none",
            plan |-> "none", mark |-> 0, granted |-> 0, epoch |-> 0, explored |-> 0,
            elapsed |-> FALSE]
Baseline == [s \in Servers |-> "on"]

Init ==
    /\ case \in Cases
    /\ call = [c \in Slots |-> NoCall] /\ asked = 0
    /\ st = NoState /\ policy = Baseline /\ invalid = FALSE /\ fault = FALSE
    /\ ledger = <<>> /\ decision = "none"
    /\ trial = "on"
    /\ did = [observed |-> {}, created |-> {}, overtaken |-> FALSE]
    /\ lost = 0

At(c, pc) == call[c].pc = pc
Goto(c, pc) == call' = [call EXCEPT ![c].pc = pc]
Lose == lost < MaxLost /\ lost' = lost + 1
Try(ok) == IF ok THEN lost' = lost ELSE Lose
Observation(c) == call[c].tool = "observe"
Creation(c) == call[c].tool = "create"
-----------------------------------------------------------------------------
(***************************************************************************)
(* The Agent calls a tool; the server notes the time and asks the          *)
(* Controller: since says that the fault had begun by then.                *)
(***************************************************************************)
Ask(c, tool, srv, plan) ==
    /\ trial = "on" /\ At(c, "idle") /\ asked < MaxAsked
    /\ IF tool \in Elsewhere THEN srv = "none" ELSE tool \in Tools(case) /\ srv \in Servers
    /\ IF tool \in {"observe", "explore"} THEN plan = "none" ELSE plan \in Plans
    /\ call' = [call EXCEPT ![c] = [NoCall EXCEPT !.pc = "asked", !.tool = tool,
                                                  !.srv = srv, !.plan = plan,
                                                  !.since = fault]]
    /\ asked' = asked + 1
    /\ UNCHANGED <<case, files, invalid, fault, trial, did, lost>>

\* mutant: a confirmation from before the loss counts as well
GrantedEver(plan) == {i \in DOMAIN ledger : ledger[i] = plan /\ plan = st.plan}
\* the platform's confirmations after the loss, for the validated plan
Granted(plan) == {i \in DOMAIN ledger :
                    i > st.mark /\ ledger[i] = plan /\ plan = st.plan}
First(S) == CHOOSE i \in S : \A j \in S : i <= j

AlternativeCreate(c) == Creation(c) /\ st.exists /\ call[c].srv # st.primary

\* CapabilityLossRuntime._before_call up to the orchestrator; known is the precheck,
\* window whether the oracle's window was read: it is None too when the read of the
\* inventory failed (factory.py 233-241)
Look(c, known, window) ==
    /\ At(c, "asked") /\ (window => fault /\ ~st.exists /\ Observation(c))
    /\ LET k == call[c]
           arms == case = "D7" /\ Observation(c) /\ ~st.exists /\ window
           step == CASE k.tool = "confirm" -> "allowed"
                     [] invalid /\ k.tool # "confirm" -> "denied"
                     [] ~invalid /\ arms -> IF known THEN "arm" ELSE "denied"
                     [] ~invalid /\ ~arms /\ k.tool # "confirm" ->
                          IF ~st.exists THEN "allowed"
                          ELSE IF ~(case = "D8" /\ AlternativeCreate(c)) THEN "decide"
                          ELSE IF Granted(k.plan) = {} THEN "denied"
                          ELSE IF st.granted = First(Granted(k.plan)) THEN "decide"
                          ELSE "grant"
       IN /\ (~arms \/ invalid) => known
          /\ call' = [call EXCEPT ![c].pc = step, ![c].epoch = st.epoch]
          /\ invalid' = (invalid \/ ~known)
    /\ UNCHANGED <<files, facts, did>>

\* start: the state file is created once, an error answers the second
Arm(c) ==
    /\ At(c, "arm")
    /\ IF st.exists THEN Goto(c, "broken") /\ UNCHANGED st
       ELSE Goto(c, "decide") /\ st' = [st EXCEPT !.exists = TRUE, !.primary = call[c].srv]
    /\ UNCHANGED <<policy, ledger, decision, invalid, facts, did>>

\* grant_confirmation: a new epoch, presented with this call
Grant(c) ==
    /\ At(c, "grant")
    /\ st' = [st EXCEPT !.epoch = @ + 1, !.granted = First(Granted(call[c].plan))]
    /\ call' = [call EXCEPT ![c].pc = "decide", ![c].epoch = st.epoch + 1]
    /\ UNCHANGED <<policy, ledger, decision, invalid, facts, did>>

BudgetLeft == ~st.elapsed /\ st.explored < MaxCalls

\* before_tool_call, under the lock of the state file
Verdict(c) ==
    LET primary == call[c].srv = st.primary
    IN CASE st.restored -> "allow"
         [] ~st.restored /\ ~st.active ->
              IF case = "D7" /\ Observation(c) /\ primary THEN "trip" ELSE "allow"
         [] OTHER ->
              IF case = "D8" /\ Creation(c)
              THEN IF ~primary /\ call[c].epoch = st.epoch /\ st.epoch > 0
                   THEN "allow" ELSE "deny"
              ELSE IF primary THEN IF case = "D8" THEN "allow" ELSE "deny"
              ELSE IF BudgetLeft THEN "spend" ELSE "deny"

\* mutant: the loss begins with the call after this one
TripAfterwards(c) ==
    /\ st' = [st EXCEPT !.active = TRUE, !.mark = Len(ledger) + 1]
    /\ ledger' = Append(ledger, "triggered")
    /\ call' = [call EXCEPT ![c].pc = "allowed", ![c].fresh = TRUE]
    /\ UNCHANGED policy
\* the first observation of the running fault: disabled before it is dispatched
Trip(c) ==
    /\ policy' = [policy EXCEPT ![call[c].srv] = "off"]
    /\ st' = [st EXCEPT !.active = TRUE, !.mark = Len(ledger) + 1]
    /\ ledger' = Append(ledger, "triggered")
    /\ call' = [call EXCEPT ![c].pc = "denied", ![c].fresh = TRUE]

\* passed on; fresh: decided with the loss in force
Allow(c, cost) ==
    /\ call' = [call EXCEPT ![c].pc = "allowed", ![c].fresh = st.active]
    /\ st' = [st EXCEPT !.explored = @ + cost]
    /\ UNCHANGED <<policy, ledger>>

\* The runtime reads the oracle's window once more for the decision (runtime.py 266).
\* Without one the call is passed on; a window that begins after the call was made
\* makes the case invalid (orchestrator.py 92-94).
Decide(c, window) ==
    /\ At(c, "decide") /\ (window => fault /\ Verdict(c) = "trip")
    /\ \/ Verdict(c) = "trip" /\ window /\ call[c].since /\ Trip(c)
       \/ Verdict(c) = "allow" /\ Allow(c, 0)
       \/ Verdict(c) = "trip" /\ ~window /\ Allow(c, 0)
       \/ Verdict(c) = "spend" /\ Allow(c, 1)
       \/ /\ Verdict(c) = "deny" \/ (window /\ ~call[c].since)
          /\ Goto(c, "denied") /\ UNCHANGED <<st, policy, ledger>>
    /\ invalid' = (invalid \/ (window /\ ~call[c].since))
    /\ UNCHANGED <<decision, facts, did>>

\* the answer does not arrive: the tool is not run
AnswerLost(c) ==
    /\ At(c, "allowed") /\ Lose /\ Goto(c, "broken")
    /\ UNCHANGED <<case, asked, fault, trial, files, invalid, did>>
-----------------------------------------------------------------------------
(***************************************************************************)
(* The tool runs, unless the policy was changed since the answer.          *)
(***************************************************************************)
GateOpen(c) ==
    call[c].srv \in Servers => \/ policy[call[c].srv] = "on"
                               \/ case = "D8" /\ ~Creation(c)

Run(c, ok) ==
    /\ trial = "on" /\ At(c, "allowed") /\ call[c].tool # "confirm"
    /\ ok => GateOpen(c)
    /\ call' = [call EXCEPT ![c].pc = "report", ![c].ok = ok]
    /\ LET k == call[c]
       IN did' = [did EXCEPT
            !.observed = IF ok /\ Observation(c) /\ (k.fresh \/ st.active)
                         THEN @ \cup {k.srv} ELSE @,
            !.created = IF ok /\ Creation(c) /\ k.fresh
                        THEN @ \cup {<<k.srv, k.plan>>} ELSE @]
    /\ UNCHANGED <<files, invalid, facts>>

\* HarnessChannelService.confirm: the simulated user answers; an approval is
\* written to the decision file first, to the ledger afterwards
Answer(c, approved) ==
    /\ trial = "on" /\ At(c, "allowed") /\ call[c].tool = "confirm"
    /\ decision' = IF approved THEN call[c].plan ELSE decision
    /\ Goto(c, IF approved THEN "publish" ELSE "report")
    /\ UNCHANGED <<st, policy, ledger, invalid, facts, did>>

Publish(c) ==
    /\ trial = "on" /\ At(c, "publish")
    /\ ledger' = Append(ledger, call[c].plan)
    /\ call' = [call EXCEPT ![c].pc = "report", ![c].ok = TRUE]
    /\ UNCHANGED <<st, policy, decision, invalid, facts, did>>
-----------------------------------------------------------------------------
(***************************************************************************)
(* The result is reported; in case D8 a validated plan starts the loss.    *)
(***************************************************************************)
Mismatched(c) == call[c].tool = "confirm" /\ call[c].ok /\ decision # call[c].plan
Validated(c) == case = "D8" /\ call[c].tool = "validate" /\ call[c].ok

Report(c, known) ==
    /\ At(c, "report")
    /\ LET starts == Validated(c) /\ ~st.exists
       IN /\ ~starts => known
          /\ Goto(c, IF Mismatched(c) THEN "broken" ELSE IF starts /\ known THEN "start"
                     ELSE "returned")
          /\ invalid' = (invalid \/ ~known)
    /\ UNCHANGED <<files, facts, did>>

\* the report does not arrive: the tool ran, and the Agent gets an error
ReportLost(c) ==
    /\ At(c, "report") /\ Lose /\ Goto(c, "broken")
    /\ UNCHANGED <<case, asked, fault, trial, files, invalid, did>>

Start(c) ==
    /\ At(c, "start")
    /\ IF st.exists THEN Goto(c, "broken") /\ UNCHANGED st
       ELSE Goto(c, "trigger") /\ st' = [st EXCEPT !.exists = TRUE, !.primary = call[c].srv]
    /\ UNCHANGED <<policy, ledger, decision, invalid, facts, did>>

\* after_validate_plan: only creation on this executor is withdrawn
Trigger(c) ==
    /\ At(c, "trigger") /\ Goto(c, "returned")
    /\ policy' = [policy EXCEPT ![st.primary] = "off"]
    /\ st' = [st EXCEPT !.active = TRUE, !.plan = call[c].plan, !.mark = Len(ledger) + 1]
    /\ ledger' = Append(ledger, "triggered")
    /\ UNCHANGED <<decision, invalid, facts, did>>

\* the Agent has the result, a denial or an error
Return(c) ==
    /\ trial = "on" /\ call[c].pc \in {"returned", "denied", "broken"}
    /\ call' = [call EXCEPT ![c] = NoCall]
    /\ UNCHANGED <<files, invalid, facts, did>>
-----------------------------------------------------------------------------
(***************************************************************************)
(* The passing of time, and the end of the trial.                          *)
(***************************************************************************)
FaultRuns ==
    /\ trial = "on" /\ ~fault /\ fault' = TRUE
    /\ UNCHANGED <<case, call, asked, files, invalid, trial, did, lost>>
TimeExhausted ==
    /\ trial = "on" /\ st.active /\ ~st.elapsed
    /\ st' = [st EXCEPT !.elapsed = TRUE]
    /\ UNCHANGED <<call, policy, ledger, decision, invalid, facts, did>>
AtController == {"asked", "arm", "grant", "decide", "report", "start", "trigger"}

\* mutant: the restoration is noted before it is done
RestoresOnPaper(ok) ==
    /\ policy' = IF ok THEN Baseline ELSE policy
    /\ st' = [st EXCEPT !.restored = TRUE]
\* restore: the policy of before, once; an error is part of the report
Restores(ok) ==
    IF ok THEN policy' = Baseline /\ st' = [st EXCEPT !.restored = TRUE]
    ELSE UNCHANGED <<policy, st>>

\* finish, or abort_capability_loss, once the Agent's session and its servers are
\* gone: threads of the bridge may still be at work
Finish(ok) ==
    /\ trial = "on" /\ trial' = "finished" /\ Try(ok)
    /\ IF st.exists THEN Restores(ok) ELSE ok /\ UNCHANGED <<policy, st>>
    /\ LET left == {c \in Slots : call[c].pc \in AtController}
       IN /\ did' = [did EXCEPT !.overtaken = (left # {})]
          /\ call' = [c \in Slots |-> IF c \in left THEN call[c] ELSE NoCall]
    /\ UNCHANGED <<case, asked, ledger, decision, invalid, fault>>
-----------------------------------------------------------------------------
Next ==
    \/ FaultRuns \/ TimeExhausted
    \/ \E ok \in BOOLEAN : Finish(ok)
    \/ \E c \in Slots :
          \/ \E tool \in {"validate", "create", "observe"} \cup Elsewhere,
                srv \in Servers \cup {"none"}, plan \in Plans \cup {"none"} :
                Ask(c, tool, srv, plan)
          \/ \E known, window \in BOOLEAN : Look(c, known, window)
          \/ \E b \in BOOLEAN : Decide(c, b) \/ Run(c, b) \/ Answer(c, b) \/ Report(c, b)
          \/ Arm(c) \/ Grant(c) \/ AnswerLost(c)
          \/ Publish(c) \/ ReportLost(c) \/ Start(c) \/ Trigger(c) \/ Return(c)

Spec == Init /\ [][Next]_vars
-----------------------------------------------------------------------------
(***************************************************************************)
(* Properties.                                                             *)
(***************************************************************************)
Steps == {"idle", "asked", "arm", "grant", "decide", "allowed", "denied", "broken",
          "publish", "report", "start", "trigger", "returned"}

Calls == [pc : Steps, srv : Servers \cup {"none"},
          tool : {"none", "validate", "create", "observe"} \cup Elsewhere,
          plan : Plans \cup {"none"}, epoch : Nat, since : BOOLEAN, fresh : BOOLEAN,
          ok : BOOLEAN]
LossStates == [exists : BOOLEAN, active : BOOLEAN, restored : BOOLEAN, elapsed : BOOLEAN,
               primary : Servers \cup {"none"}, plan : Plans \cup {"none"},
               mark : Nat, granted : Nat, epoch : Nat, explored : 0..MaxCalls]

\* Type correctness of the calls, of CapabilityLossState and of the policy file.
TypeOK ==
    /\ case \in Cases /\ asked \in 0..MaxAsked /\ lost \in 0..MaxLost
    /\ call \in [Slots -> Calls] /\ st \in LossStates
    /\ policy \in [Servers -> {"on", "off"}]
    /\ invalid \in BOOLEAN /\ fault \in BOOLEAN
    /\ ledger \in Seq(Plans \cup {"triggered"}) /\ decision \in Plans \cup {"none"}
    /\ trial \in {"on", "finished"}
    /\ did \in [observed : SUBSET Servers, created : SUBSET (Servers \X Plans),
                overtaken : BOOLEAN]

\* Case D7: no observation is made on the server that the case takes away once the
\* loss has begun, in whichever thread, and not by the call that begins it
\* (orchestrator.py 82-86: "The first D7 observation after a trusted fault-running
\* fact is disabled before dispatch").  An observation whose own reading of the
\* oracle's window fails is passed on before that (runtime.py 266).
LostServerStaysDark == st.primary \notin did.observed

\* Case D8: a creation on the other executor that was decided after the loss has a
\* confirmation of the same plan that the platform recorded after the loss
\* (orchestrator.py grant_confirmation: "the mandatory post-disturbance Harness
\* approval"; runtime.py 308-318).
AlternativeCreateIsConfirmed ==
    \A x \in did.created :
        x[1] # st.primary => x[2] = st.plan /\ \E i \in DOMAIN ledger :
                                                   i > st.mark /\ ledger[i] = x[2]

\* A policy that was restored stays as it was before the loss, and a tool is
\* withdrawn exactly while the state file says so, unless a thread of the bridge
\* was still at work when the trial was finished (orchestrator.py restore).
PolicyFollowsState ==
    ~did.overtaken =>
        \A s \in Servers :
            policy[s] = "off" <=> st.active /\ ~st.restored /\ s = st.primary
=============================================================================
