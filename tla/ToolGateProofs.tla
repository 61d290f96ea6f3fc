--------------------------- MODULE ToolGateProofs ---------------------------
(***************************************************************************)
(* Proofs about the tool boundary, for any number of concurrent calls,     *)
(* servers, plans, lost messages and budgets: the types, and that what the *)
(* cases take away stays away although every thread decides on a state     *)
(* file that it read some steps before.                                    *)
(***************************************************************************)
EXTENDS ToolGate, WellFoundedInduction, TLAPS

\* What a call asks for, and what it has asked for where it is.
Shaped(c) ==
    /\ call[c].tool = "none" <=> call[c].pc = "idle"
    /\ call[c].pc = "asked" => ~call[c].fresh
    /\ call[c].tool = "observe" => case = "D7" /\ call[c].srv \in Servers
    /\ call[c].tool \in {"validate", "create"} =>
          case = "D8" /\ call[c].srv \in Servers /\ call[c].plan \in Plans
    /\ call[c].tool \in Elsewhere => call[c].srv = "none"
    /\ call[c].tool = "confirm" => call[c].plan \in Plans
    /\ call[c].pc = "publish" => call[c].tool = "confirm"
    /\ call[c].pc = "arm" => call[c].tool = "observe"
    /\ call[c].pc = "grant" => call[c].tool = "create"
    /\ call[c].pc \in {"start", "trigger"} => call[c].tool = "validate"
    /\ call[c].pc \in {"grant", "decide", "trigger"} => st.exists

\* The state file names a server once it exists, and a plan once the loss began.
StateFile ==
    /\ st.exists => st.primary \in Servers
    /\ ~st.exists => ~st.active /\ ~st.restored /\ did.observed = {} /\ did.created = {}
    /\ st.plan \in Plans => st.active

\* after_validate_plan is under way in one thread only, and never twice.
OneTrigger ==
    \A c \in Slots : At(c, "trigger") =>
        ~st.active /\ \A d \in Slots : At(d, "trigger") => d = c

\* Nothing is restored before the end, and an end that overtook nobody left nobody.
Ends ==
    /\ trial = "on" => ~st.restored /\ ~did.overtaken
    /\ trial = "finished" /\ ~did.overtaken => \A c \in Slots : At(c, "idle")

\* An observation that was allowed while the fault ran is one of another server.
Dark(c) ==
    trial = "on" /\ At(c, "allowed") /\ Observation(c) /\ call[c].fresh =>
        st.exists /\ call[c].srv # st.primary

\* A creation elsewhere that was let past the first check was confirmed.
Confirmed(c) ==
    /\ Creation(c) /\ call[c].fresh => st.active
    /\ call[c].pc = "grant" => Granted(call[c].plan) # {}
    /\ /\ Creation(c) /\ call[c].srv # st.primary
       /\ call[c].pc = "decide" \/ call[c].fresh
       => Granted(call[c].plan) # {}

Tracked == \A c \in Slots : Shaped(c) /\ Dark(c) /\ Confirmed(c)

Promised == 
    /\ LostServerStaysDark /\ AlternativeCreateIsConfirmed /\ PolicyFollowsState

Inductive == TypeOK /\ StateFile /\ OneTrigger /\ Ends /\ Tracked /\ Promised

USE ToolGateAssumption DEF files, facts

LEMMA Bounds == MaxAsked \in Nat /\ MaxCalls \in Nat /\ MaxLost \in Nat
OBVIOUS

LEMMA InitInductive == Init => Inductive
<1> SUFFICES ASSUME Init PROVE Inductive
  OBVIOUS
<1>1. \A c \in Slots : call[c] = NoCall
  BY DEF Init
<1>2. TypeOK
  <2>1. NoCall \in Calls
    BY DEF NoCall, Calls, Steps
  <2>2. NoState \in LossStates
    BY Bounds DEF NoState, LossStates
  <2>3. <<>> \in Seq(Plans \cup {"triggered"})
    OBVIOUS
  <2>4. call \in [Slots -> Calls] /\ policy \in [Servers -> {"on", "off"}]
    BY <2>1 DEF Init, Baseline
  <2>5. asked \in 0..MaxAsked /\ lost \in 0..MaxLost
    BY Bounds DEF Init
  <2> QED  BY <2>2, <2>3, <2>4, <2>5 DEF Init, TypeOK
<1>3. StateFile /\ OneTrigger /\ Ends /\ Tracked
  BY <1>1 DEF Init, StateFile, OneTrigger, Ends, Tracked, Shaped, Dark, Confirmed, At,
     Observation, Creation, NoCall, NoState, Elsewhere
<1>4. Promised
  BY DEF Init, Promised, LostServerStaysDark, AlternativeCreateIsConfirmed,
     PolicyFollowsState, NoState, Baseline
<1> QED  BY <1>2, <1>3, <1>4 DEF Inductive

\* A call moves on to another step.
LEMMA Moves ==
    ASSUME Inductive, NEW c \in Slots, NEW p \in Steps, Goto(c, p)
    PROVE  /\ call' \in [Slots -> Calls]
           /\ call'[c] = [call[c] EXCEPT !.pc = p]
           /\ \A d \in Slots : d # c => call'[d] = call[d]
<1>1. call \in [Slots -> Calls] /\ call[c] \in Calls
  BY DEF Inductive, TypeOK
<1>2. [call[c] EXCEPT !.pc = p] \in Calls
  BY <1>1 DEF Calls
<1> QED  BY <1>1, <1>2 DEF Goto

\* The calls that a step leaves alone keep what they rely on.
LEMMA OthersKept ==
    ASSUME Inductive, NEW d \in Slots, call'[d] = call[d], case' = case,
           trial' = "on" => trial = "on",
           st.exists => st'.exists /\ st'.primary = st.primary,
           st.active => st'.active,
           \A p \in Plans : Granted(p) # {} => Granted(p)' # {}
    PROVE  Shaped(d)' /\ Dark(d)' /\ Confirmed(d)'
<1>1. Shaped(d) /\ Dark(d) /\ Confirmed(d)
  BY DEF Inductive, Tracked
<1>2. Shaped(d)'
  BY <1>1 DEF Shaped
<1>3. Dark(d)'
  BY <1>1 DEF Dark, At, Observation
<1>4. Confirmed(d)'
  <2>1. Creation(d)' /\ call'[d].fresh => st'.active
    BY <1>1 DEF Confirmed, Creation
  <2>2. ASSUME call'[d].pc = "grant"
        PROVE  Granted(call[d].plan)' # {}
    BY <1>1, <2>2 DEF Shaped, Confirmed
  <2>3. ASSUME Creation(d)', call'[d].srv # st'.primary,
               call'[d].pc = "decide" \/ call'[d].fresh
        PROVE  Granted(call[d].plan)' # {}
    <3>1. st.exists
      BY <1>1, <2>3 DEF Shaped, Confirmed, Creation, Inductive, StateFile
    <3>2. Granted(call[d].plan) # {}
      BY <1>1, <2>3, <3>1 DEF Confirmed, Creation
    <3>3. call[d].plan \in Plans
      BY <1>1, <2>3 DEF Shaped, Creation
    <3> QED  BY <3>2, <3>3
  <2> QED  BY <2>1, <2>2, <2>3 DEF Confirmed, Creation
<1> QED  BY <1>2, <1>3, <1>4

\* A step of one call that leaves the files and the history alone.
LEMMA CallStep ==
    ASSUME Inductive, NEW c \in Slots, TypeOK',
           \A d \in Slots : d # c => call'[d] = call[d],
           UNCHANGED <<case, st, policy, ledger, trial, did>>,
           call[c].pc # "idle" \/ trial = "on", call'[c].pc # "trigger",
           Shaped(c)', Dark(c)', Confirmed(c)'
    PROVE  Inductive'
<1>1. StateFile' /\ OneTrigger' /\ Ends'
  <2>1. StateFile'
    BY DEF Inductive, StateFile
  <2>2. OneTrigger'
    BY DEF Inductive, OneTrigger, At
  <2>3. trial = "on" => ~st.restored /\ ~did.overtaken
    BY DEF Inductive, Ends
  <2>4. trial = "finished" /\ ~did.overtaken => FALSE
    BY DEF Inductive, Ends, At
  <2> QED  BY <2>1, <2>2, <2>3, <2>4 DEF Ends
<1>2. \A p : Granted(p)' = Granted(p)
  BY DEF Granted
<1>3. \A d \in Slots : Shaped(d)' /\ Dark(d)' /\ Confirmed(d)'
  <2> TAKE d \in Slots
  <2>1. CASE d = c
    BY <2>1
  <2>2. CASE d # c
    BY <2>2, <1>2, OthersKept
  <2> QED  BY <2>1, <2>2
<1>4. Promised'
  BY DEF Inductive, Promised, LostServerStaysDark, AlternativeCreateIsConfirmed,
     PolicyFollowsState
<1> QED  BY <1>1, <1>3, <1>4 DEF Inductive, Tracked

\* A call is replaced by another record.
LEMMA Replaced ==
    ASSUME Inductive, NEW c \in Slots, NEW k \in Calls, call' = [call EXCEPT ![c] = k]
    PROVE  /\ call' \in [Slots -> Calls] /\ call'[c] = k
           /\ \A d \in Slots : d # c => call'[d] = call[d]
BY DEF Inductive, TypeOK

LEMMA AskKeeps ==
    ASSUME Inductive, NEW c \in Slots,
           NEW tool \in {"validate", "create", "observe"} \cup Elsewhere,
           NEW srv \in Servers \cup {"none"}, NEW plan \in Plans \cup {"none"},
           Ask(c, tool, srv, plan)
    PROVE  Inductive'
<1> DEFINE k == [NoCall EXCEPT !.pc = "asked", !.tool = tool, !.srv = srv, !.plan = plan,
                               !.since = fault]
<1>1. k \in Calls /\ k.pc = "asked" /\ k.tool = tool /\ k.srv = srv /\ k.plan = plan
      /\ k.fresh = FALSE
  BY DEF NoCall, Calls, Steps, Inductive, TypeOK
<1>2. /\ call' \in [Slots -> Calls] /\ call'[c] = k
      /\ \A d \in Slots : d # c => call'[d] = call[d]
  <2>1. call' = [call EXCEPT ![c] = k]
    BY DEF Ask
  <2> QED  BY <1>1, <2>1, Replaced
<1> HIDE DEF k
<1>3. UNCHANGED <<case, st, policy, ledger, decision, invalid, fault, trial, did, lost>>
  BY DEF Ask
<1>4. trial = "on" /\ asked' \in 0..MaxAsked
  BY DEF Ask, Inductive, TypeOK
<1>5. TypeOK'
  BY <1>2, <1>3, <1>4 DEF Inductive, TypeOK
<1>6. Shaped(c)' /\ Dark(c)' /\ Confirmed(c)'
  BY <1>1, <1>2, <1>3 DEF Inductive, TypeOK, Ask, Shaped, Dark, Confirmed, At, Observation,
     Creation, Elsewhere, Tools
<1> QED  BY <1>1, <1>2, <1>3, <1>4, <1>5, <1>6, CallStep

\* What the precheck reads decides where the call goes, and nothing else changes.
LEMMA LookKeeps ==
    ASSUME Inductive, NEW c \in Slots, NEW known \in BOOLEAN, NEW window \in BOOLEAN,
           Look(c, known, window)
    PROVE  Inductive'
<1>1. PICK p \in {"allowed", "denied", "arm", "grant", "decide"} :
         /\ call' = [call EXCEPT ![c].pc = p, ![c].epoch = st.epoch]
         /\ p = "arm" => call[c].tool = "observe"
         /\ p = "grant" => call[c].tool = "create"
         /\ p \in {"grant", "decide"} => st.exists
         /\ p = "grant" => Granted(call[c].plan) # {}
         /\ p = "decide" /\ Creation(c) /\ call[c].srv # st.primary =>
               Granted(call[c].plan) # {}
  BY DEF Look, AlternativeCreate, Observation, Creation, Inductive, TypeOK, Tracked, Shaped, At
<1>2. call[c] \in Calls /\ call[c].pc = "asked" /\ Shaped(c)
  BY DEF Look, At, Inductive, TypeOK, Tracked
<1>3. UNCHANGED <<case, asked, st, policy, ledger, decision, fault, trial, did, lost>>
      /\ invalid' \in BOOLEAN
  BY DEF Look, Inductive, TypeOK
<1> DEFINE k == [call[c] EXCEPT !.pc = p, !.epoch = st.epoch]
<1>4. st.epoch \in Nat /\ Confirmed(c)
  BY DEF Inductive, TypeOK, LossStates, Tracked
<1>5. call' = [call EXCEPT ![c] = k]
  BY <1>1
<1>6. /\ k \in Calls /\ k.pc = p /\ k.tool = call[c].tool /\ k.srv = call[c].srv
      /\ k.plan = call[c].plan /\ k.fresh = call[c].fresh
  BY <1>2, <1>4 DEF Calls, Steps
<1> HIDE DEF k
<1>7. /\ call' \in [Slots -> Calls] /\ call'[c] = k
      /\ \A d \in Slots : d # c => call'[d] = call[d]
  BY <1>5, <1>6 DEF Inductive, TypeOK
<1>8. TypeOK'
  BY <1>3, <1>7 DEF Inductive, TypeOK
<1>9. Shaped(c)'
  BY <1>1, <1>2, <1>3, <1>6, <1>7 DEF Shaped
<1>10. Dark(c)'
  BY <1>1, <1>2, <1>3, <1>4, <1>6, <1>7 DEF Dark, At, Observation, Shaped
<1>11. Confirmed(c)'
  <2>1. Granted(call[c].plan)' = Granted(call[c].plan)
    BY <1>3, <1>6, <1>7 DEF Granted
  <2> QED  BY <1>1, <1>3, <1>4, <1>6, <1>7, <2>1 DEF Confirmed, Creation, Observation
<1> QED  BY <1>1, <1>2, <1>3, <1>6, <1>7, <1>8, <1>9, <1>10, <1>11, CallStep

\* A call that only moves on, to a step where nothing is asked of it.
LEMMA QuietMove ==
    ASSUME Inductive, NEW c \in Slots,
           NEW p \in {"denied", "broken", "report", "publish", "returned", "start"},
           Goto(c, p), call[c].pc # "idle",
           p = "publish" => call[c].tool = "confirm",
           p = "start" => call[c].tool = "validate",
           UNCHANGED <<case, asked, st, policy, ledger, fault, trial, did>>,
           lost' \in 0..MaxLost, invalid' \in BOOLEAN, decision' \in Plans \cup {"none"}
    PROVE  Inductive'
<1>1. p \in Steps
  BY DEF Steps
<1>2. /\ call' \in [Slots -> Calls] /\ call'[c] = [call[c] EXCEPT !.pc = p]
      /\ \A d \in Slots : d # c => call'[d] = call[d]
  BY <1>1, Moves
<1>3. call[c] \in Calls /\ Shaped(c) /\ Confirmed(c)
  BY DEF Inductive, TypeOK, Tracked
<1>4. /\ call'[c].pc = p /\ call'[c].tool = call[c].tool /\ call'[c].srv = call[c].srv
      /\ call'[c].plan = call[c].plan /\ call'[c].fresh = call[c].fresh
  BY <1>2, <1>3 DEF Calls
<1>5. TypeOK'
  BY <1>2 DEF Inductive, TypeOK
<1>6. Shaped(c)' /\ Dark(c)'
  BY <1>3, <1>4 DEF Shaped, Dark, At
<1>7. Confirmed(c)'
  <2>1. Granted(call[c].plan)' = Granted(call[c].plan)
    BY <1>4 DEF Granted
  <2> QED  BY <1>3, <1>4, <2>1 DEF Confirmed, Creation
<1> QED  BY <1>2, <1>4, <1>5, <1>6, <1>7, CallStep

LEMMA LostKeeps ==
    ASSUME Inductive, NEW c \in Slots, AnswerLost(c) \/ ReportLost(c)
    PROVE  Inductive'
<1>1. lost' \in 0..MaxLost
  BY Bounds DEF AnswerLost, ReportLost, Lose, Inductive, TypeOK
<1> QED  BY <1>1, QuietMove DEF AnswerLost, ReportLost, At, Inductive, TypeOK

LEMMA ReportKeeps ==
    ASSUME Inductive, NEW c \in Slots, NEW known \in BOOLEAN, Report(c, known)
    PROVE  Inductive'
<1>1. PICK p \in {"broken", "start", "returned"} :
         Goto(c, p) /\ (p = "start" => call[c].tool = "validate")
  BY DEF Report, Validated
<1>2. invalid' \in BOOLEAN
  BY DEF Report, Inductive, TypeOK
<1> QED  BY <1>1, <1>2, QuietMove DEF Report, At, Inductive, TypeOK

LEMMA AnswerKeeps ==
    ASSUME Inductive, NEW c \in Slots, NEW approved \in BOOLEAN, Answer(c, approved)
    PROVE  Inductive'
<1>1. PICK p \in {"publish", "report"} : Goto(c, p)
  BY DEF Answer
<1>2. call[c].tool = "confirm" /\ call[c].plan \in Plans
  BY DEF Answer, Inductive, Tracked, Shaped
<1>3. decision' \in Plans \cup {"none"}
  BY <1>2 DEF Answer, Inductive, TypeOK
<1> QED  BY <1>1, <1>2, <1>3, QuietMove DEF Answer, At, Inductive, TypeOK

\* A step of one call that changes the state file.
LEMMA FileStep ==
    ASSUME Inductive, NEW c \in Slots, TypeOK',
           \A d \in Slots : d # c => call'[d] = call[d],
           UNCHANGED <<case, trial, did>>, call[c].pc # "idle",
           st.exists => st'.exists /\ st'.primary = st.primary,
           st'.restored = st.restored, st.active => st'.active,
           \A p \in Plans : Granted(p) # {} => Granted(p)' # {},
           StateFile', OneTrigger', Shaped(c)', Dark(c)', Confirmed(c)', Promised'
    PROVE  Inductive'
<1>1. Ends'
  BY DEF Inductive, Ends, At
<1>2. \A d \in Slots : Shaped(d)' /\ Dark(d)' /\ Confirmed(d)'
  <2> TAKE d \in Slots
  <2>1. CASE d = c
    BY <2>1
  <2>2. CASE d # c
    BY <2>2, OthersKept
  <2> QED  BY <2>1, <2>2
<1> QED  BY <1>1, <1>2 DEF Inductive, Tracked

\* The state file is created once, by the thread that finds none.
LEMMA CreatesFile ==
    ASSUME Inductive, NEW c \in Slots, NEW p \in {"decide", "trigger"}, Goto(c, p),
           call[c].pc \in {"arm", "start"}, p = "trigger" => call[c].pc = "start",
           ~st.exists, st' = [st EXCEPT !.exists = TRUE, !.primary = call[c].srv],
           UNCHANGED <<policy, ledger, decision, invalid, facts, did>>
    PROVE  Inductive'
<1>1. p \in Steps
  BY DEF Steps
<1>2. /\ call' \in [Slots -> Calls] /\ call'[c] = [call[c] EXCEPT !.pc = p]
      /\ \A d \in Slots : d # c => call'[d] = call[d]
  BY <1>1, Moves
<1>3. call[c] \in Calls /\ Shaped(c) /\ Confirmed(c) /\ st \in LossStates
  BY DEF Inductive, TypeOK, Tracked
<1>4. /\ call'[c].pc = p /\ call'[c].tool = call[c].tool /\ call'[c].srv = call[c].srv
      /\ call'[c].plan = call[c].plan /\ call'[c].fresh = call[c].fresh
  BY <1>2, <1>3 DEF Calls
<1>5. /\ st' \in LossStates /\ st'.exists /\ st'.primary = call[c].srv
      /\ st'.active = st.active /\ st'.restored = st.restored /\ st'.plan = st.plan
      /\ st'.mark = st.mark
  BY <1>3 DEF LossStates, Calls
<1>6. ~st.active /\ ~st.restored /\ st.plan \notin Plans /\ did.observed = {} /\ did.created = {}
  BY DEF Inductive, StateFile
<1>7. call[c].srv \in Servers /\ call[c].tool \in {"observe", "validate"}
  BY <1>3 DEF Shaped
<1>8. TypeOK'
  BY <1>2, <1>5 DEF Inductive, TypeOK
<1>9. StateFile'
  BY <1>5, <1>6, <1>7 DEF StateFile
<1>10. OneTrigger'
  <2>1. \A d \in Slots : ~At(d, "trigger")
    BY DEF Inductive, Tracked, Shaped, At
  <2> QED  BY <1>2, <1>4, <1>5, <1>6, <2>1 DEF OneTrigger, At
<1>11. Shaped(c)' /\ Dark(c)' /\ Confirmed(c)'
  BY <1>3, <1>4, <1>5, <1>6, <1>7 DEF Shaped, Dark, Confirmed, At, Creation, Elsewhere
<1>12. Promised'
  BY <1>5, <1>6 DEF Inductive, Promised, LostServerStaysDark, AlternativeCreateIsConfirmed,
     PolicyFollowsState
<1>13. \A q \in Plans : Granted(q) = {}
  BY <1>6 DEF Granted
<1> QED  BY <1>2, <1>5, <1>6, <1>8, <1>9, <1>10, <1>11, <1>12, <1>13, FileStep

LEMMA ArmKeeps ==
    ASSUME Inductive, NEW c \in Slots, Arm(c) \/ Start(c)
    PROVE  Inductive'
<1>1. call[c].pc \in {"arm", "start"}
  BY DEF Arm, Start, At
<1>2. CASE st.exists
  BY <1>1, <1>2, QuietMove DEF Arm, Start, Inductive, TypeOK
<1>3. CASE ~st.exists
  BY <1>1, <1>3, CreatesFile DEF Arm, Start, At
<1> QED  BY <1>2, <1>3

\* A set of natural numbers that is not empty has a least element.
LEMMA Least ==
    ASSUME NEW S \in SUBSET Nat, S # {}
    PROVE  \E i \in S : \A j \in S : i <= j
<1> DEFINE R == {ss \in Nat \X Nat : ss[1] < ss[2]}
<1>1. IsWellFoundedOn(R, Nat)
  BY NatLessThanWellFounded DEF OpToRel
<1>2. \A y, x \in Nat : y < x => <<y, x>> \in R
  OBVIOUS
<1> HIDE DEF R
<1>3. PICK x \in S : \A y \in S : ~ (<<y, x>> \in R)
  BY <1>1, WFMin
<1>4. S \subseteq Nat
  OBVIOUS
<1>5. ASSUME NEW y \in S PROVE x <= y
  <2>1. x \in Nat /\ y \in Nat
    BY <1>4
  <2>2. ~(y < x)
    BY <1>2, <1>3, <2>1
  <2> QED  BY <2>1, <2>2
<1> QED  BY <1>3, <1>5

LEMMA GrantKeeps ==
    ASSUME Inductive, NEW c \in Slots, Grant(c)
    PROVE  Inductive'
<1> DEFINE n == First(Granted(call[c].plan))
           e == st.epoch + 1
           k == [call[c] EXCEPT !.pc = "decide", !.epoch = e]
<1>1. call[c] \in Calls /\ Shaped(c) /\ Confirmed(c) /\ st \in LossStates
  BY DEF Inductive, TypeOK, Tracked
<1>2. call[c].pc = "grant" /\ Granted(call[c].plan) # {} /\ st.exists
  BY <1>1 DEF Grant, At, Confirmed, Shaped
<1>3. n \in Nat
  <2>1. Granted(call[c].plan) \in SUBSET Nat
    BY DEF Granted, Inductive, TypeOK
  <2> QED  BY <1>2, <2>1, Least DEF First
<1>4. e \in Nat /\ st' = [st EXCEPT !.epoch = e, !.granted = n]
  BY <1>1 DEF Grant, LossStates
<1> HIDE DEF n, e
<1>5. /\ st' \in LossStates /\ st'.exists = st.exists /\ st'.primary = st.primary
      /\ st'.active = st.active /\ st'.restored = st.restored /\ st'.plan = st.plan
      /\ st'.mark = st.mark
  BY <1>1, <1>3, <1>4 DEF LossStates
<1>6. /\ k \in Calls /\ k.pc = "decide" /\ k.tool = call[c].tool /\ k.srv = call[c].srv
      /\ k.plan = call[c].plan /\ k.fresh = call[c].fresh
  BY <1>1, <1>4 DEF Calls, Steps
<1>7. call' = [call EXCEPT ![c] = k]
  BY DEF Grant, e
<1> HIDE DEF k
<1>8. /\ call' \in [Slots -> Calls] /\ call'[c] = k
      /\ \A d \in Slots : d # c => call'[d] = call[d]
  BY <1>6, <1>7 DEF Inductive, TypeOK
<1>9. UNCHANGED <<case, asked, policy, ledger, decision, invalid, fault, trial, lost, did>>
  BY DEF Grant
<1>10. TypeOK'
  BY <1>5, <1>8, <1>9 DEF Inductive, TypeOK
<1>11. \A q : Granted(q)' = Granted(q)
  BY <1>5, <1>9 DEF Granted
<1>12. StateFile' /\ OneTrigger'
  BY <1>5, <1>6, <1>8, <1>9 DEF Inductive, StateFile, OneTrigger, At
<1>13. Shaped(c)' /\ Dark(c)'
  BY <1>1, <1>2, <1>5, <1>6, <1>8, <1>9 DEF Shaped, Dark, At
<1>14. Confirmed(c)'
  <2>1. Granted(call[c].plan)' = Granted(call[c].plan)
    BY <1>5, <1>6, <1>8, <1>9 DEF Granted
  <2> QED  BY <1>1, <1>2, <1>5, <1>6, <1>8, <2>1 DEF Confirmed, Creation
<1>15. Promised'
  BY <1>5, <1>9 DEF Inductive, Promised, LostServerStaysDark, AlternativeCreateIsConfirmed,
     PolicyFollowsState
<1> QED  BY <1>2, <1>5, <1>8, <1>9, <1>10, <1>11, <1>12, <1>13, <1>14, <1>15, FileStep

\* The first observation of the running fault starts the loss in case D7, a
\* validated plan in case D8: in both, one server is withdrawn and the ledger marked.
LEMMA LossBegins ==
    ASSUME Inductive, NEW c \in Slots, NEW p \in {"denied", "returned"}, NEW f \in BOOLEAN,
           call' = [call EXCEPT ![c].pc = p, ![c].fresh = f],
           Creation(c) => f = call[c].fresh,
           NEW plan \in Plans \cup {"none"},
           call[c].pc # "idle", st.exists, ~st.active, ~st.restored \/ did.overtaken,
           \A d \in Slots : At(d, "trigger") => d = c,
           policy' = [policy EXCEPT ![st.primary] = "off"],
           st' = [st EXCEPT !.active = TRUE, !.plan = plan, !.mark = Len(ledger) + 1],
           ledger' = Append(ledger, "triggered"),
           UNCHANGED <<decision, invalid, facts, did>>
    PROVE  Inductive'
<1> DEFINE k == [call[c] EXCEPT !.pc = p, !.fresh = f]
<1>1. k \in Calls
  <2>1. call[c] \in Calls
    BY DEF Inductive, TypeOK
  <2>2. p \in Steps
    BY DEF Steps
  <2> QED  BY <2>1, <2>2 DEF Calls
<1>2. /\ call' \in [Slots -> Calls] /\ call'[c] = k
      /\ \A d \in Slots : d # c => call'[d] = call[d]
  <2>1. call' = [call EXCEPT ![c] = k]
    OBVIOUS
  <2> HIDE DEF k
  <2> QED  BY <1>1, <2>1, Replaced
<1>3. /\ call[c] \in Calls /\ Shaped(c) /\ Confirmed(c) /\ st \in LossStates
      /\ ledger \in Seq(Plans \cup {"triggered"})
  BY DEF Inductive, TypeOK, Tracked
<1>4. /\ call'[c].pc = p /\ call'[c].tool = call[c].tool /\ call'[c].srv = call[c].srv
      /\ call'[c].plan = call[c].plan /\ call'[c].fresh = f
  BY <1>2, <1>3 DEF Calls
<1>5. /\ st' \in LossStates /\ st'.exists /\ st'.primary = st.primary
      /\ st'.active /\ st'.restored = st.restored /\ st'.plan = plan
  <2> DEFINE m == Len(ledger) + 1
  <2>1. m \in Nat /\ st' = [st EXCEPT !.active = TRUE, !.plan = plan, !.mark = m]
    BY <1>3
  <2> HIDE DEF m
  <2> QED  BY <1>3, <2>1 DEF LossStates
<1>6. st.plan \notin Plans /\ st.primary \in Servers
  BY DEF Inductive, StateFile
<1>7. /\ policy' \in [Servers -> {"on", "off"}] /\ policy'[st.primary] = "off"
      /\ \A s \in Servers : s # st.primary => policy'[s] = policy[s]
  BY <1>6 DEF Inductive, TypeOK
<1>8. TypeOK'
  BY <1>2, <1>3, <1>5, <1>7 DEF Inductive, TypeOK
<1>9. StateFile' /\ OneTrigger'
  <2>1. StateFile'
    BY <1>5, <1>6 DEF StateFile
  <2>2. \A d \in Slots : ~At(d, "trigger")'
    BY <1>2, <1>4 DEF At
  <2> QED  BY <2>1, <2>2 DEF OneTrigger
<1>10. \A q \in Plans : Granted(q) = {}
  BY <1>6 DEF Granted
<1>11. Shaped(c)' /\ Dark(c)'
  BY <1>3, <1>4, <1>5 DEF Shaped, Dark, At
<1>12. ~(Creation(c) /\ call[c].fresh)
  BY <1>3 DEF Confirmed
<1>13. Confirmed(c)'
  BY <1>4, <1>5, <1>12 DEF Confirmed, Creation
<1>14. Promised'
  <2>1. \A x \in did.created : x[1] = st.primary
    BY <1>6 DEF Inductive, TypeOK, Promised, AlternativeCreateIsConfirmed
  <2>2. LostServerStaysDark' /\ AlternativeCreateIsConfirmed'
    BY <1>5, <2>1 DEF Inductive, Promised, LostServerStaysDark, AlternativeCreateIsConfirmed
  <2>3. PolicyFollowsState'
    BY <1>5, <1>6, <1>7 DEF Inductive, Promised, PolicyFollowsState
  <2> QED  BY <2>2, <2>3 DEF Promised
<1> QED  BY <1>2, <1>5, <1>8, <1>9, <1>10, <1>11, <1>13, <1>14, FileStep

LEMMA TriggerKeeps ==
    ASSUME Inductive, NEW c \in Slots, Trigger(c)
    PROVE  Inductive'
<1>1. call[c].pc = "trigger" /\ st.exists /\ call[c].plan \in Plans
  BY DEF Trigger, At, Inductive, Tracked, Shaped
<1>2. ~st.active /\ \A d \in Slots : At(d, "trigger") => d = c
  BY DEF Trigger, Inductive, OneTrigger
<1>3. ~st.restored \/ did.overtaken
  BY <1>1 DEF Inductive, Ends, TypeOK, At
<1>4. /\ call[c].fresh \in BOOLEAN
      /\ call' = [call EXCEPT ![c].pc = "returned", ![c].fresh = call[c].fresh]
  BY DEF Trigger, Goto, Inductive, TypeOK, Calls
<1> QED  BY <1>1, <1>2, <1>3, <1>4, LossBegins DEF Trigger

\* before_tool_call lets an observation of the lost server pass in no case, and a
\* creation elsewhere only if it was confirmed.
LEMMA AllowKeeps ==
    ASSUME Inductive, NEW c \in Slots, At(c, "decide"), NEW cost \in {0, 1},
           cost = 1 => Verdict(c) = "spend",
           st.active => Verdict(c) \in {"allow", "spend"},
           Allow(c, cost), UNCHANGED <<decision, invalid, facts, did>>
    PROVE  Inductive'
<1>1. /\ call[c] \in Calls /\ Shaped(c) /\ Confirmed(c) /\ st \in LossStates
      /\ call[c].pc = "decide" /\ st.exists
  BY DEF Inductive, TypeOK, Tracked, Shaped, At
<1> DEFINE f == st.active
           k == [call[c] EXCEPT !.pc = "allowed", !.fresh = f]
           n == st.explored + cost
<1>2. n \in 0..MaxCalls
  <2>1. cost = 1 => BudgetLeft
    BY DEF Verdict
  <2>2. st.explored \in 0..MaxCalls
    BY <1>1 DEF LossStates
  <2> QED  BY <2>1, <2>2, Bounds DEF BudgetLeft
<1>3. st' = [st EXCEPT !.explored = n] /\ UNCHANGED <<policy, ledger>>
  BY DEF Allow
<1> HIDE DEF n
<1>4. /\ st' \in LossStates /\ st'.exists = st.exists /\ st'.primary = st.primary
      /\ st'.active = st.active /\ st'.restored = st.restored /\ st'.plan = st.plan
      /\ st'.mark = st.mark
  BY <1>1, <1>2, <1>3 DEF LossStates
<1>5. f \in BOOLEAN /\ (f => st.active)
  BY <1>1 DEF LossStates
<1>6. call' = [call EXCEPT ![c] = k]
  BY DEF Allow
<1> HIDE DEF f
<1>7. /\ k \in Calls /\ k.pc = "allowed" /\ k.tool = call[c].tool /\ k.srv = call[c].srv
      /\ k.plan = call[c].plan /\ k.fresh = f
  BY <1>1, <1>5 DEF Calls, Steps
<1> HIDE DEF k
<1>8. /\ call' \in [Slots -> Calls] /\ call'[c] = k
      /\ \A d \in Slots : d # c => call'[d] = call[d]
  BY <1>6, <1>7, Replaced
<1>9. TypeOK'
  BY <1>3, <1>4, <1>8 DEF Inductive, TypeOK
<1>10. \A q : Granted(q)' = Granted(q)
  BY <1>3, <1>4 DEF Granted
<1>11. StateFile' /\ OneTrigger'
  BY <1>3, <1>4, <1>7, <1>8 DEF Inductive, StateFile, OneTrigger, At
<1>12. Shaped(c)'
  BY <1>1, <1>4, <1>7, <1>8 DEF Shaped
<1>13. Dark(c)'
  <2>1. trial = "on" => ~st.restored
    BY DEF Inductive, Ends
  <2>2. Observation(c) => case = "D7" /\ ~Creation(c)
    BY <1>1 DEF Shaped, Observation, Creation
  <2>3. trial = "on" /\ Observation(c) /\ st.active => call[c].srv # st.primary
    BY <2>1, <2>2 DEF Verdict
  <2> QED  BY <1>1, <1>4, <1>5, <1>7, <1>8, <2>3 DEF Dark, Observation
<1>14. Confirmed(c)'
  <2>1. Granted(call[c].plan)' = Granted(call[c].plan)
    BY <1>3, <1>4, <1>7, <1>8 DEF Granted
  <2>2. Creation(c) /\ f => st.active
    BY <1>1, <1>5 DEF Confirmed
  <2>3. Creation(c) /\ call[c].srv # st.primary => Granted(call[c].plan) # {}
    BY <1>1 DEF Confirmed
  <2> QED  BY <1>4, <1>7, <1>8, <2>1, <2>2, <2>3 DEF Confirmed, Creation
<1>15. Promised'
  BY <1>3, <1>4 DEF Inductive, Promised, LostServerStaysDark, AlternativeCreateIsConfirmed,
     PolicyFollowsState
<1> QED  BY <1>1, <1>3, <1>4, <1>8, <1>9, <1>10, <1>11, <1>12, <1>13, <1>14, <1>15, FileStep

LEMMA DecideKeeps ==
    ASSUME Inductive, NEW c \in Slots, NEW window \in BOOLEAN, Decide(c, window)
    PROVE  Inductive'
<1>1. call[c].pc = "decide" /\ At(c, "decide") /\ st.exists /\ Shaped(c)
  BY DEF Decide, At, Inductive, Tracked, Shaped
<1>2. UNCHANGED <<decision, facts, did>> /\ invalid' \in BOOLEAN
      /\ (window => Verdict(c) = "trip")
      /\ (((window /\ call[c].since) \/ ~window) => invalid' = invalid)
  BY DEF Decide, Inductive, TypeOK
<1>3. CASE Verdict(c) = "trip" /\ window /\ call[c].since /\ Trip(c)
  <2>1. ~st.restored /\ ~st.active /\ call[c].srv = st.primary /\ Observation(c)
    BY <1>3 DEF Verdict
  <2>2. \A d \in Slots : ~At(d, "trigger")
    BY <1>1, <2>1 DEF Inductive, Tracked, Shaped, Observation, At
  <2>3. st.plan \in Plans \cup {"none"} /\ st' = [st EXCEPT !.active = TRUE, !.plan = st.plan,
                                                          !.mark = Len(ledger) + 1]
    BY <1>3 DEF Trip, Inductive, TypeOK, LossStates
  <2>4. call' = [call EXCEPT ![c].pc = "denied", ![c].fresh = TRUE] /\ ~Creation(c)
        /\ policy' = [policy EXCEPT ![st.primary] = "off"]
        /\ ledger' = Append(ledger, "triggered")
    BY <1>3, <2>1 DEF Trip, Observation, Creation
  <2> QED  BY <1>1, <1>2, <1>3, <2>1, <2>2, <2>3, <2>4, LossBegins
<1>4. CASE Verdict(c) = "allow" /\ Allow(c, 0)
  BY <1>1, <1>2, <1>4, AllowKeeps
<1>5. CASE Verdict(c) = "trip" /\ ~window /\ Allow(c, 0)
  <2>1. ~st.active
    BY <1>5 DEF Verdict
  <2> QED  BY <1>1, <1>2, <1>5, <2>1, AllowKeeps
<1>6. CASE Verdict(c) = "spend" /\ Allow(c, 1)
  BY <1>1, <1>2, <1>6, AllowKeeps
<1>7. CASE Goto(c, "denied") /\ UNCHANGED <<st, policy, ledger>>
  BY <1>1, <1>2, <1>7, QuietMove DEF Inductive, TypeOK
<1> QED  BY <1>3, <1>4, <1>5, <1>6, <1>7 DEF Decide

\* A confirmation is appended to the ledger and confirms only its own plan.
LEMMA PublishKeeps ==
    ASSUME Inductive, NEW c \in Slots, Publish(c)
    PROVE  Inductive'
<1> DEFINE k == [call[c] EXCEPT !.pc = "report", !.ok = TRUE]
<1>1. /\ call[c] \in Calls /\ Shaped(c) /\ call[c].pc = "publish"
      /\ ledger \in Seq(Plans \cup {"triggered"})
  BY DEF Publish, At, Inductive, TypeOK, Tracked
<1>2. call[c].tool = "confirm" /\ call[c].plan \in Plans
  BY <1>1 DEF Shaped
<1>3. /\ k \in Calls /\ k.pc = "report" /\ k.tool = call[c].tool /\ k.srv = call[c].srv
      /\ k.plan = call[c].plan
  BY <1>1 DEF Calls, Steps
<1>4. call' = [call EXCEPT ![c] = k]
  BY DEF Publish
<1> HIDE DEF k
<1>5. /\ call' \in [Slots -> Calls] /\ call'[c] = k
      /\ \A d \in Slots : d # c => call'[d] = call[d]
  BY <1>3, <1>4 DEF Inductive, TypeOK
<1>6. UNCHANGED <<case, asked, st, policy, decision, invalid, fault, trial, lost, did>>
  BY DEF Publish
<1>7. /\ ledger' \in Seq(Plans \cup {"triggered"})
      /\ \A i \in DOMAIN ledger : i \in DOMAIN ledger' /\ ledger'[i] = ledger[i]
  BY <1>1, <1>2 DEF Publish
<1>8. TypeOK'
  BY <1>5, <1>6, <1>7 DEF Inductive, TypeOK
<1>9. \A q : Granted(q) # {} => Granted(q)' # {}
  BY <1>6, <1>7 DEF Granted
<1>10. StateFile' /\ OneTrigger'
  BY <1>3, <1>5, <1>6 DEF Inductive, StateFile, OneTrigger, At
<1>11. Shaped(c)' /\ Dark(c)' /\ Confirmed(c)'
  BY <1>1, <1>2, <1>3, <1>5, <1>6 DEF Shaped, Dark, Confirmed, At, Creation
<1>12. Promised'
  BY <1>6, <1>7 DEF Inductive, Promised, LostServerStaysDark, AlternativeCreateIsConfirmed,
     PolicyFollowsState
<1> QED  BY <1>1, <1>5, <1>6, <1>8, <1>9, <1>10, <1>11, <1>12, FileStep

LEMMA ReturnKeeps ==
    ASSUME Inductive, NEW c \in Slots, Return(c)
    PROVE  Inductive'
<1>1. NoCall \in Calls
  BY DEF NoCall, Calls, Steps
<1>2. /\ call' \in [Slots -> Calls] /\ call'[c] = NoCall
      /\ \A d \in Slots : d # c => call'[d] = call[d]
  BY <1>1 DEF Return, Inductive, TypeOK
<1>3. UNCHANGED <<case, asked, st, policy, ledger, decision, invalid, fault, trial, lost, did>>
  BY DEF Return
<1>4. TypeOK'
  BY <1>2, <1>3 DEF Inductive, TypeOK
<1>5. Shaped(c)' /\ Dark(c)' /\ Confirmed(c)' /\ call'[c].pc # "trigger"
  BY <1>2 DEF Shaped, Dark, Confirmed, At, Creation, Elsewhere, NoCall
<1>6. trial = "on"
  BY DEF Return
<1> QED  BY <1>2, <1>3, <1>4, <1>5, <1>6, CallStep

\* A tool runs: what the history records of it was decided by a check that held.
LEMMA RunKeeps ==
    ASSUME Inductive, NEW c \in Slots, NEW ok \in BOOLEAN, Run(c, ok)
    PROVE  Inductive'
<1> DEFINE k == [call[c] EXCEPT !.pc = "report", !.ok = ok]
<1>1. /\ call[c] \in Calls /\ Shaped(c) /\ Dark(c) /\ Confirmed(c)
      /\ call[c].pc = "allowed" /\ trial = "on"
  BY DEF Run, At, Inductive, TypeOK, Tracked
<1>2. /\ ok => GateOpen(c)
      /\ did' = [did EXCEPT
            !.observed = IF ok /\ Observation(c) /\ (call[c].fresh \/ st.active)
                         THEN @ \cup {call[c].srv} ELSE @,
            !.created = IF ok /\ Creation(c) /\ call[c].fresh
                        THEN @ \cup {<<call[c].srv, call[c].plan>>} ELSE @]
  BY DEF Run
<1>3. call' = [call EXCEPT ![c] = k]
  BY DEF Run
<1>4. /\ k \in Calls /\ k.pc = "report" /\ k.tool = call[c].tool /\ k.srv = call[c].srv
      /\ k.plan = call[c].plan /\ k.fresh = call[c].fresh
  BY <1>1, <1>2 DEF Calls, Steps
<1> HIDE DEF k
<1>5. /\ call' \in [Slots -> Calls] /\ call'[c] = k
      /\ \A d \in Slots : d # c => call'[d] = call[d]
  BY <1>3, <1>4 DEF Inductive, TypeOK
<1>6. UNCHANGED <<case, asked, st, policy, ledger, decision, invalid, fault, trial, lost>>
  BY DEF Run
<1>7. Observation(c) /\ ok /\ (call[c].fresh \/ st.active) =>
         st.exists /\ call[c].srv # st.primary
  <2>1. Observation(c) /\ call[c].fresh => st.exists /\ call[c].srv # st.primary
    BY <1>1 DEF Dark, At
  <2>2. ASSUME Observation(c), ok, st.active
        PROVE  st.exists /\ call[c].srv # st.primary
    <3>1. ~st.restored /\ ~did.overtaken /\ st.exists
      BY <1>1, <2>2 DEF Inductive, Ends, StateFile
    <3>2. call[c].srv \in Servers /\ case # "D8"
      BY <1>1, <2>2 DEF Shaped, Observation
    <3>3. policy[call[c].srv] # "off"
      BY <1>2, <2>2, <3>2 DEF GateOpen
    <3> QED  BY <2>2, <3>1, <3>2, <3>3 DEF Inductive, Promised, PolicyFollowsState
  <2> QED  BY <2>1, <2>2
<1>8. PICK S \in SUBSET Servers, T \in SUBSET (Servers \X Plans) :
         /\ did' = [did EXCEPT !.observed = S, !.created = T]
         /\ \A s \in S : \/ s \in did.observed
                         \/ st.exists /\ s # st.primary
         /\ \A x \in T : \/ x \in did.created
                         \/ Creation(c) /\ call[c].fresh /\ x = <<call[c].srv, call[c].plan>>
  <2> DEFINE S == IF ok /\ Observation(c) /\ (call[c].fresh \/ st.active)
                  THEN did.observed \cup {call[c].srv} ELSE did.observed
             T == IF ok /\ Creation(c) /\ call[c].fresh
                  THEN did.created \cup {<<call[c].srv, call[c].plan>>} ELSE did.created
  <2>1. did' = [did EXCEPT !.observed = S, !.created = T]
    BY <1>2
  <2>2. S \in SUBSET Servers
    BY <1>1 DEF Shaped, Observation, Inductive, TypeOK
  <2>3. T \in SUBSET (Servers \X Plans)
    BY <1>1 DEF Shaped, Creation, Inductive, TypeOK
  <2>4. /\ \A s \in S : \/ s \in did.observed
                        \/ st.exists /\ s # st.primary
        /\ \A x \in T : \/ x \in did.created
                        \/ Creation(c) /\ call[c].fresh /\ x = <<call[c].srv, call[c].plan>>
    BY <1>7
  <2> HIDE DEF S, T
  <2> QED  BY <2>1, <2>2, <2>3, <2>4
<1>9. /\ did' \in [observed : SUBSET Servers, created : SUBSET (Servers \X Plans),
                   overtaken : BOOLEAN]
      /\ did'.observed = S /\ did'.created = T /\ did'.overtaken = did.overtaken
  BY <1>8 DEF Inductive, TypeOK
<1>10. TypeOK'
  BY <1>5, <1>6, <1>9 DEF Inductive, TypeOK
<1>12. /\ Creation(c) /\ call[c].fresh => st.exists
       /\ Creation(c) /\ call[c].fresh /\ call[c].srv # st.primary =>
             Granted(call[c].plan) # {}
  BY <1>1 DEF Confirmed, Inductive, StateFile
<1>13. StateFile'
  BY <1>6, <1>8, <1>9, <1>12 DEF Inductive, StateFile
<1>14. OneTrigger' /\ Ends'
  BY <1>1, <1>4, <1>5, <1>6, <1>9 DEF Inductive, OneTrigger, Ends, At
<1>15. \A q : Granted(q)' = Granted(q)
  BY <1>6 DEF Granted
<1>16. Shaped(c)' /\ Dark(c)'
  BY <1>1, <1>4, <1>5, <1>6 DEF Shaped, Dark, At
<1>17. Confirmed(c)'
  <2>1. Granted(call[c].plan)' = Granted(call[c].plan)
    BY <1>4, <1>5, <1>6 DEF Granted
  <2> QED  BY <1>1, <1>4, <1>5, <1>6, <2>1 DEF Confirmed, Creation
<1>18. \A d \in Slots : Shaped(d)' /\ Dark(d)' /\ Confirmed(d)'
  <2> TAKE d \in Slots
  <2>1. CASE d = c
    BY <2>1, <1>16, <1>17
  <2>2. CASE d # c
    BY <2>2, <1>5, <1>6, <1>15, OthersKept
  <2> QED  BY <2>1, <2>2
<1>19. LostServerStaysDark'
  BY <1>6, <1>8, <1>9 DEF Inductive, Promised, LostServerStaysDark
<1>20. AlternativeCreateIsConfirmed'
  BY <1>6, <1>8, <1>9, <1>12 DEF Inductive, Promised, AlternativeCreateIsConfirmed, Granted
<1>21. PolicyFollowsState'
  BY <1>6, <1>9 DEF Inductive, Promised, PolicyFollowsState
<1> QED  BY <1>10, <1>13, <1>14, <1>18, <1>19, <1>20, <1>21
         DEF Inductive, Tracked, Promised

\* The fault and time leave the calls and the files alone.
LEMMA OutsideKeeps ==
    ASSUME Inductive, FaultRuns \/ TimeExhausted
    PROVE  Inductive'
<1>1. UNCHANGED <<case, call, asked, policy, ledger, decision, invalid, trial, did, lost>>
  BY DEF FaultRuns, TimeExhausted
<1>2. /\ st' \in LossStates /\ st'.exists = st.exists /\ st'.primary = st.primary
      /\ st'.active = st.active /\ st'.restored = st.restored /\ st'.plan = st.plan
      /\ st'.mark = st.mark
  <2>1. st' = st \/ st' = [st EXCEPT !.elapsed = TRUE]
    BY DEF FaultRuns, TimeExhausted
  <2>2. st \in LossStates
    BY DEF Inductive, TypeOK
  <2>3. CASE st' = st
    BY <2>2, <2>3
  <2>4. CASE st' = [st EXCEPT !.elapsed = TRUE]
    BY <2>2, <2>4 DEF LossStates
  <2> QED  BY <2>1, <2>3, <2>4
<1>4. fault' \in BOOLEAN
  BY DEF FaultRuns, TimeExhausted, Inductive, TypeOK
<1>5. TypeOK'
  BY <1>1, <1>2, <1>4 DEF Inductive, TypeOK
<1>6. StateFile' /\ OneTrigger' /\ Ends'
  BY <1>1, <1>2 DEF Inductive, StateFile, OneTrigger, Ends, At
<1>7. \A q : Granted(q)' = Granted(q)
  BY <1>1, <1>2 DEF Granted
<1>8. \A d \in Slots : Shaped(d)' /\ Dark(d)' /\ Confirmed(d)'
  BY <1>1, <1>2, <1>7, OthersKept
<1>9. Promised'
  BY <1>1, <1>2 DEF Inductive, Promised, LostServerStaysDark,
     AlternativeCreateIsConfirmed, PolicyFollowsState
<1> QED  BY <1>5, <1>6, <1>8, <1>9 DEF Inductive, Tracked

\* The end restores the policy; whoever is still at work has been overtaken.
LEMMA FinishKeeps ==
    ASSUME Inductive, NEW ok \in BOOLEAN, Finish(ok)
    PROVE  Inductive'
<1> DEFINE left == {c \in Slots : call[c].pc \in AtController}
<1>1. /\ UNCHANGED <<case, asked, ledger, decision, invalid, fault>>
      /\ trial = "on" /\ trial' = "finished"
      /\ call' = [c \in Slots |-> IF c \in left THEN call[c] ELSE NoCall]
      /\ did' = [did EXCEPT !.overtaken = (left # {})]
  BY DEF Finish
<1>2. lost' \in 0..MaxLost
  BY Bounds DEF Finish, Try, Lose, Inductive, TypeOK
<1>3. /\ did' \in [observed : SUBSET Servers, created : SUBSET (Servers \X Plans),
                   overtaken : BOOLEAN]
      /\ did'.observed = did.observed /\ did'.created = did.created
      /\ did'.overtaken <=> left # {}
  BY <1>1 DEF Inductive, TypeOK
<1>4. NoCall \in Calls
  BY DEF NoCall, Calls, Steps
<1>5. call' \in [Slots -> Calls] /\ \A c \in Slots : call'[c] = call[c] \/ call'[c] = NoCall
  BY <1>1, <1>4 DEF Inductive, TypeOK
<1>6. /\ st' \in LossStates /\ st'.exists = st.exists /\ st'.primary = st.primary
      /\ st'.active = st.active /\ st'.plan = st.plan /\ st'.mark = st.mark
      /\ st'.restored => st.exists
      /\ policy' \in [Servers -> {"on", "off"}]
      /\ \/ policy' = Baseline /\ st'.restored
         \/ policy' = policy /\ st'.restored = st.restored
  <2>1. \/ /\ st.exists /\ policy' = Baseline
           /\ st' = [st EXCEPT !.restored = TRUE]
        \/ policy' = policy /\ st' = st
    BY DEF Finish, Restores
  <2>2. st \in LossStates /\ policy \in [Servers -> {"on", "off"}]
        /\ (st.restored => st.exists)
    BY DEF Inductive, TypeOK, StateFile
  <2>3. CASE policy' = policy /\ st' = st
    BY <2>2, <2>3
  <2>4. CASE st.exists /\ policy' = Baseline /\ st' = [st EXCEPT !.restored = TRUE]
    BY <2>2, <2>4 DEF LossStates, Baseline
  <2> QED  BY <2>1, <2>3, <2>4
<1>7. TypeOK'
  BY <1>1, <1>2, <1>3, <1>5, <1>6 DEF Inductive, TypeOK
<1>8. StateFile'
  BY <1>3, <1>6 DEF Inductive, StateFile
<1>9. OneTrigger'
  BY <1>5, <1>6 DEF Inductive, OneTrigger, At, NoCall
<1>10. Ends'
  BY <1>1, <1>3 DEF Ends, At, NoCall
<1>11. \A q : Granted(q)' = Granted(q)
  BY <1>1, <1>6 DEF Granted
<1>12. \A d \in Slots : Shaped(d)' /\ Dark(d)' /\ Confirmed(d)'
  <2> TAKE d \in Slots
  <2>1. CASE call'[d] = call[d]
    BY <2>1, <1>1, <1>6, <1>11, OthersKept
  <2>2. CASE call'[d] = NoCall
    BY <2>2 DEF Shaped, Dark, Confirmed, At, Creation, Elsewhere, NoCall
  <2> QED  BY <1>5, <2>1, <2>2
<1>13. LostServerStaysDark' /\ AlternativeCreateIsConfirmed'
  BY <1>1, <1>3, <1>6 DEF Inductive, Promised, LostServerStaysDark,
     AlternativeCreateIsConfirmed
<1>14. PolicyFollowsState'
  <2>1. ~did.overtaken
    BY <1>1 DEF Inductive, Ends
  <2> QED  BY <1>6, <2>1 DEF Inductive, Promised, PolicyFollowsState, Baseline
<1> QED  BY <1>7, <1>8, <1>9, <1>10, <1>12, <1>13, <1>14 DEF Inductive, Tracked, Promised
----------------------------------------------------------------------------
LEMMA NextKeeps ==
    ASSUME Inductive, [Next]_vars
    PROVE  Inductive'
<1>1. CASE UNCHANGED vars
  <2>1. UNCHANGED <<case, call, asked, st, policy, invalid, fault, ledger, decision, trial,
                    did, lost>>
    BY <1>1 DEF vars
  <2>2. TypeOK' /\ StateFile' /\ OneTrigger' /\ Ends'
    BY <2>1 DEF Inductive, TypeOK, StateFile, OneTrigger, Ends, At
  <2>3. \A q : Granted(q)' = Granted(q)
    BY <2>1 DEF Granted
  <2>4. Tracked'
    BY <2>1, <2>3, OthersKept DEF Tracked
  <2>5. Promised'
    BY <2>1 DEF Inductive, Promised, LostServerStaysDark, AlternativeCreateIsConfirmed,
       PolicyFollowsState
  <2> QED  BY <2>2, <2>4, <2>5 DEF Inductive
<1> QED
  BY <1>1, OutsideKeeps, FinishKeeps, AskKeeps, LookKeeps, RunKeeps, AnswerKeeps, ReportKeeps,
     ArmKeeps, GrantKeeps, DecideKeeps, LostKeeps, PublishKeeps, TriggerKeeps, ReturnKeeps
  DEF Next

\* The inductive invariant holds in every state.
LEMMA InductiveHolds == Spec => []Inductive
BY InitInductive, NextKeeps, PTL DEF Spec

\* The calls, the state file, and the policy keep their types, and the
\* exploration budget its bound, in any number of threads.
THEOREM TypeCorrect == Spec => []TypeOK
<1>1. Inductive => TypeOK
  BY DEF Inductive
<1> QED  BY <1>1, InductiveHolds, PTL

\* Case D7: whichever of any number of concurrent observations comes first, none that
\* was asked for while the fault ran is made on the server that is taken away.
THEOREM LostServerIsDark == Spec => []LostServerStaysDark
<1>1. Inductive => LostServerStaysDark
  BY DEF Inductive, Promised
<1> QED  BY <1>1, InductiveHolds, PTL

\* Case D8: every creation elsewhere that was decided after the loss has a
\* confirmation of its plan after the loss, however old the state was that its
\* thread had read.
THEOREM CreationsAreConfirmed == Spec => []AlternativeCreateIsConfirmed
<1>1. Inductive => AlternativeCreateIsConfirmed
  BY DEF Inductive, Promised
<1> QED  BY <1>1, InductiveHolds, PTL

\* The policy file says what the state file says, until a trial ends over threads
\* that are still at work.
THEOREM PolicyIsFollowed == Spec => []PolicyFollowsState
<1>1. Inductive => PolicyFollowsState
  BY DEF Inductive, Promised
<1> QED  BY <1>1, InductiveHolds, PTL
=============================================================================
