-------------------------- MODULE RunControlProofs --------------------------
(***************************************************************************)
(* Proofs about the run control plane, for any number of runs, workers and *)
(* levels and for every value of the bounds: the types, and what the store *)
(* guarantees whichever workers, stale ones included, call it in which     *)
(* order.                                                                  *)
(***************************************************************************)
EXTENDS RunControl, TLAPS

\* A worker at work has a run, and one that asks for a cleanup knows which
\* terminal status it asks for.
WorkersBusy ==
    \A w \in Workers :
        /\ wk[w].pc \notin Away => wk[w].run \in Runs
        /\ wk[w].pc \in {"request", "ask"} => wk[w].want \in Terminals

\* A heartbeat that beats has a run.
BeatsBusy == \A w \in Executors : hb[w].pc # "off" => hb[w].run \in Runs

\* The types in the groups that the steps change together.
RowsTyped == run \in [Runs -> Rows] /\ mlease \in Runs \cup {0}
WorkersTyped == wk \in [Workers -> WorkerStates] /\ WorkersBusy
BeatsTyped == hb \in [Executors -> Beats] /\ BeatsBusy
JournalTyped ==
    /\ art \in [Runs -> [Artifacts -> Values]]
    /\ prog \in [Runs -> Checkpoints]
RestTyped ==
    /\ wlease \in [Runs -> Workers \cup {NoWorker}]
    /\ fault \subseteq Runs /\ load \subseteq Runs
    /\ taken \subseteq Runs /\ frail \subseteq Runs
    /\ crashes \in Nat /\ lapses \in Nat /\ aborts \in Nat
Typed == RowsTyped /\ WorkersTyped /\ BeatsTyped /\ JournalTyped /\ RestTyped

USE RunAssumption, ProgressionAssumption DEF world, history, bounds, Away
----------------------------------------------------------------------------
(***************************************************************************)
(* Progression: the checkpoint keeps its type, and the level stays one of  *)
(* the Episode's.                                                          *)
(***************************************************************************)

\* A new checkpoint.
LEMMA NewStateTyped == NewState \in Checkpoints
BY DEF NewState, Checkpoints, ProgressStates, Verdicts

\* start_trial counts the attempt on the level it opens.
LEMMA StartTrialTyped ==
    ASSUME NEW p \in Checkpoints
    PROVE  StartTrial(p) \in Checkpoints
<1>1. p.level \in 1..Levels /\ p.total + 1 \in Nat
  BY DEF Checkpoints
<1>2. p.attempts[p.level] + 1 \in Nat
  BY <1>1 DEF Checkpoints
<1>3. [p.attempts EXCEPT ![p.level] = p.attempts[p.level] + 1] \in [1..Levels -> Nat]
  BY <1>1, <1>2 DEF Checkpoints
<1> QED  BY <1>1, <1>3 DEF StartTrial, Checkpoints, ProgressStates

\* A level below the last has a next one.
LEMMA NextLevelTyped ==
    ASSUME NEW q \in Checkpoints, HasNext(q)
    PROVE  NextLevel(q) \in Checkpoints
<1>1. q.level \in 1..Levels /\ q.level < Levels
  BY DEF HasNext, Checkpoints
<1>2. q.level + 1 \in 1..Levels
  BY <1>1
<1> QED  BY <1>2 DEF NextLevel, Checkpoints

\* record_result moves to a next level only if there is one.
LEMMA RecordResultTyped ==
    ASSUME NEW p \in Checkpoints, NEW v \in Verdicts
    PROVE  RecordResult(p, v) \in Checkpoints
<1> DEFINE q == [p EXCEPT !.open = FALSE, !.verdict[p.level] = v]
<1>1. [p.verdict EXCEPT ![p.level] = v] \in [1..Levels -> Verdicts \cup {"PENDING"}]
  BY DEF Checkpoints
<1>2. q \in Checkpoints
  BY <1>1 DEF Checkpoints
<1>3. RecordResult(p, v) =
          CASE v = "PASS" ->
                  IF HasNext(q) THEN NextLevel(q)
                  ELSE Finished(q, IF ContinueAfterFailure /\ SomeLevelFailed(q)
                                   THEN "FAIL" ELSE "PASS")
            [] v = "SKIP" -> Finished(q, "SKIP")
            [] OTHER ->
                  IF ~LevelExhausted(q) /\ ~TotalExhausted(q) THEN q
                  ELSE IF ContinueAfterFailure /\ HasNext(q) THEN NextLevel(q)
                  ELSE Finished(q, "FAIL")
  BY DEF RecordResult
<1> HIDE DEF q
<1>4. \A s \in ProgressStates : Finished(q, s) \in Checkpoints
  BY <1>2 DEF Finished, Checkpoints
<1> QED  BY <1>2, <1>3, <1>4, NextLevelTyped DEF Verdicts, ProgressStates
----------------------------------------------------------------------------
(***************************************************************************)
(* The workers                                                             *)
(***************************************************************************)

\* A worker that turns to something new.
LEMMA WorkerTurns ==
    ASSUME WorkersTyped, NEW w \in Workers, NEW pc \in Pcs, NEW r \in Runs \cup {0},
           NEW want \in Terminals \cup {"none"}, NEW except \in BOOLEAN,
           wk' = [wk EXCEPT ![w] = Worker(pc, r, want, except)],
           pc \notin Away => r \in Runs,
           pc \in {"request", "ask"} => want \in Terminals
    PROVE  WorkersTyped'
<1> DEFINE new == Worker(pc, r, want, except)
<1>1. /\ new \in WorkerStates
      /\ new.pc = pc /\ new.run = r /\ new.want = want
  BY DEF Worker, WorkerStates, Phases, DiscoveryPhases, ExecutionPhases
<1> HIDE DEF new
<1>2. wk' = [wk EXCEPT ![w] = new]
  BY DEF new
<1> QED  BY <1>1, <1>2 DEF WorkersTyped, WorkersBusy

\* A worker that goes on with its run.
LEMMA WorkerGoesOn ==
    ASSUME WorkersTyped, NEW w \in Workers, NEW new \in WorkerStates,
           wk[w].pc \notin Away,
           wk' = [wk EXCEPT ![w] = new],
           new.run = wk[w].run,
           new.pc \in {"request", "ask"} => new.want \in Terminals
    PROVE  WorkersTyped'
BY DEF WorkersTyped, WorkersBusy

\* The ways a workflow moves its worker.
LEMMA MovesTyped ==
    ASSUME WorkersTyped, NEW w \in Workers, wk[w].pc \notin Away,
           \/ Fail(w)
           \/ \E s \in Terminals : End(w, s)
           \/ \E pc \in {"cleanup", "release", "raise"} : Turn(w, pc)
           \/ \E p \in Phases : Proceed(w, p)
           \/ \E pc \in Pcs \ {"request", "ask"} : Goto(w, pc)
           \/ UNCHANGED wk
    PROVE  WorkersTyped'
<1>1. wk[w] \in WorkerStates /\ wk[w].run \in Runs
  BY DEF WorkersTyped, WorkersBusy
<1>2. CASE Fail(w)
  BY <1>1, <1>2, WorkerTurns DEF Fail, Pcs, Terminals
<1>3. CASE \E s \in Terminals : End(w, s)
  BY <1>1, <1>3, WorkerTurns DEF End, Pcs
<1>4. CASE \E pc \in {"cleanup", "release", "raise"} : Turn(w, pc)
  BY <1>1, <1>4, WorkerTurns DEF Turn, Pcs
<1>5. CASE \E p \in Phases : Proceed(w, p)
  <2>1. PICK p \in Phases : Proceed(w, p)
    BY <1>5
  <2> DEFINE new == [wk[w] EXCEPT !.pc = "stage", !.phase = p]
  <2>2. new \in WorkerStates /\ new.run = wk[w].run /\ new.pc = "stage"
    BY <1>1 DEF WorkerStates, Pcs
  <2>3. wk' = [wk EXCEPT ![w] = new]
    BY <1>1, <2>1 DEF Proceed, WorkersTyped
  <2> HIDE DEF new
  <2> QED  BY <2>2, <2>3, WorkerGoesOn
<1>6. CASE \E pc \in Pcs \ {"request", "ask"} : Goto(w, pc)
  <2>1. PICK pc \in Pcs \ {"request", "ask"} : Goto(w, pc)
    BY <1>6
  <2> DEFINE new == [wk[w] EXCEPT !.pc = pc]
  <2>2. new \in WorkerStates /\ new.run = wk[w].run /\ new.pc = pc
    BY <1>1 DEF WorkerStates
  <2>3. wk' = [wk EXCEPT ![w] = new]
    BY <2>1 DEF Goto
  <2> HIDE DEF new
  <2> QED  BY <2>2, <2>3, WorkerGoesOn
<1>7. CASE UNCHANGED wk
  BY <1>7 DEF WorkersTyped, WorkersBusy
<1> QED  BY <1>2, <1>3, <1>4, <1>5, <1>6, <1>7

\* What a step of a worker makes of the workers.
LEMMA WorkerStepTyped ==
    ASSUME WorkersTyped, RowsTyped, NEW w \in Workers, WorkerStep(w)
    PROVE  WorkersTyped'
<1>1. wk[w] \in WorkerStates
  BY DEF WorkersTyped
<1>2. wk[w].pc \notin Away => wk[w].run \in Runs /\ run[wk[w].run] \in Rows
  BY DEF WorkersTyped, WorkersBusy, RowsTyped
<1>3. CASE Request(w)
  <2>1. CASE Goto(w, "ask")
    <3> DEFINE new == [wk[w] EXCEPT !.pc = "ask"]
    <3>1. /\ new \in WorkerStates /\ new.run = wk[w].run
          /\ new.want = wk[w].want
      BY <1>1 DEF WorkerStates, Pcs
    <3>2. wk' = [wk EXCEPT ![w] = new] /\ wk[w].pc = "request"
      BY <1>3, <2>1 DEF Goto, Request
    <3>3. wk[w].want \in Terminals
      BY <3>2 DEF WorkersTyped, WorkersBusy
    <3> HIDE DEF new
    <3> QED  BY <3>1, <3>2, <3>3, WorkerGoesOn
  <2> QED  BY <1>3, <2>1, MovesTyped DEF Request
<1>4. CASE Ask(w)
  BY <1>4, MovesTyped DEF Ask
<1>5. CASE Release(w)
  BY <1>5, WorkerTurns DEF Release, IdleWorker, ExitedWorker, Pcs
<1>6. CASE DStep(w)
  <2>1. CASE DBegin(w)
    BY <1>2, <2>1, MovesTyped DEF DBegin, Rows
  <2>2. CASE DStage(w)
    BY <2>2, MovesTyped DEF DStage, Advance, Phases, DiscoveryPhases, Terminals, Pcs
  <2>3. CASE DLeave(w)
    BY <2>3, MovesTyped DEF DLeave
  <2>4. CASE DFinish(w)
    BY <2>4, MovesTyped DEF DFinish
  <2>5. CASE \E a \in {"snapshot", "bundle"} : DWork(w, a)
    BY <2>5, MovesTyped DEF DWork
  <2> QED  BY <1>6, <2>1, <2>2, <2>3, <2>4, <2>5 DEF DStep
<1>7. CASE XStep(w)
  <2>1. CASE XBegin(w)
    BY <1>2, <2>1, MovesTyped DEF XBegin, Rows
  <2>2. CASE XLease(w)
    BY <2>2, MovesTyped DEF XLease, Pcs
  <2>3. CASE XBaseline(w) \/ XExecute(w)
    BY <2>3, MovesTyped DEF XBaseline, XExecute, Advance, Phases, ExecutionPhases, Terminals, Pcs
  <2>4. CASE XTrial(w)
    BY <2>4, MovesTyped DEF XTrial, Phases, ExecutionPhases, Pcs
  <2>5. CASE XPrepare(w) \/ XAgent(w) \/ XFinalize(w)
    BY <2>5, MovesTyped DEF XPrepare, XAgent, XFinalize, Pcs
  <2>6. CASE XJudge(w)
    BY <2>6, MovesTyped DEF XJudge, Pcs
  <2>7. CASE XRecover(w) \/ XEvaluate(w) \/ XScore(w)
    BY <2>7, MovesTyped DEF XRecover, XEvaluate, XScore, Advance, Phases, ExecutionPhases, Terminals
  <2>8. CASE XCleanup(w) \/ XFinish(w)
    BY <2>8, MovesTyped DEF XCleanup, XFinish, Pcs
  <2> QED  BY <1>7, <2>1, <2>2, <2>3, <2>4, <2>5, <2>6, <2>7, <2>8 DEF XStep
<1> QED  BY <1>3, <1>4, <1>5, <1>6, <1>7 DEF WorkerStep
----------------------------------------------------------------------------
(***************************************************************************)
(* The store: whatever a worker, a heartbeat or the operator does, the     *)
(* table of runs and the mutation lease change by one call of RunStore.    *)
(***************************************************************************)
StoreCreate == \E r \in Runs : \E kind \in Kinds[r] :
    run[r].phase = "NONE" /\ run' = [run EXCEPT ![r] = Row("CREATED", kind)] /\ UNCHANGED mlease
StoreTransition == \E r \in Runs, p \in Phases :
    MayAdvance(r, p) /\ Transition(r, p) /\ UNCHANGED mlease
StoreRequest == \E r \in Runs, s \in Terminals, byOperator \in BOOLEAN :
    /\ byOperator => s = "ABORTED"
    /\ RequestCleanup(r, s, byOperator) /\ UNCHANGED mlease
StoreFinish == \E r \in Runs, verified \in BOOLEAN :
    (\E w \in Workers : AtWork(w, r)) /\ FinishCleanup(r, verified)
StoreLease == \E r \in Runs : Open(r) /\ mlease' = r /\ UNCHANGED run
StoreStep ==
    \/ StoreCreate \/ StoreTransition \/ StoreRequest \/ StoreFinish \/ StoreLease
    \/ UNCHANGED <<run, mlease>>

\* advance is a transition or nothing.
LEMMA AdvanceIsStoreStep ==
    ASSUME NEW w \in Workers, NEW r \in Runs, NEW p \in Phases, Advance(w, r, p),
           UNCHANGED mlease
    PROVE  StoreStep
BY DEF Advance, StoreStep, StoreTransition

\* A step of a worker calls the store at most once.
LEMMA WorkerCallsStore ==
    ASSUME Typed, NEW w \in Workers, WorkerStep(w)
    PROVE  StoreStep
<1>1. /\ wk[w].pc \notin Away => wk[w].run \in Runs
      /\ wk[w].pc = "ask" => wk[w].want \in Terminals
  BY DEF Typed, WorkersTyped, WorkersBusy
<1>2. CASE Request(w) \/ Release(w)
  BY <1>2 DEF Request, Release, StoreStep
<1>3. CASE Ask(w)
  <2>1. RequestCleanup(wk[w].run, wk[w].want, FALSE) /\ UNCHANGED mlease /\ wk[w].pc = "ask"
    BY <1>3 DEF Ask
  <2>2. StoreRequest
    BY <1>1, <2>1 DEF StoreRequest
  <2> QED  BY <2>2 DEF StoreStep
<1>4. CASE DStep(w)
  <2>1. CASE DBegin(w)
    BY <2>1 DEF DBegin, StoreStep
  <2>2. CASE DStage(w)
    BY <1>1, <2>2, AdvanceIsStoreStep DEF DStage, StoreStep, Phases, DiscoveryPhases
  <2>3. CASE DLeave(w)
    BY <1>1, <2>3 DEF DLeave, StoreStep, StoreTransition, Phases, ExecutionPhases
  <2>4. CASE DFinish(w)
    BY <1>1, <2>4 DEF DFinish, StoreStep, StoreFinish, AtWork
  <2>5. CASE \E a \in {"snapshot", "bundle"} : DWork(w, a)
    BY <2>5 DEF DWork, StoreStep
  <2> QED  BY <1>4, <2>1, <2>2, <2>3, <2>4, <2>5 DEF DStep
<1>5. CASE XStep(w)
  <2>1. CASE XBegin(w) \/ XTrial(w) \/ XPrepare(w) \/ XAgent(w) \/ XFinalize(w)
             \/ XJudge(w) \/ XScore(w) \/ XCleanup(w)
    BY <2>1 DEF XBegin, XTrial, XPrepare, XAgent, XFinalize, XJudge, XScore, XCleanup, StoreStep
  <2>2. CASE XLease(w)
    BY <1>1, <2>2 DEF XLease, MutationFree, StoreStep, StoreLease
  <2>3. CASE XBaseline(w)
    BY <1>1, <2>3, AdvanceIsStoreStep DEF XBaseline, StoreStep, Phases, ExecutionPhases
  <2>4. CASE XExecute(w)
    BY <1>1, <2>4, AdvanceIsStoreStep DEF XExecute, StoreStep, Phases, ExecutionPhases
  <2>5. CASE XRecover(w)
    BY <1>1, <2>5, AdvanceIsStoreStep DEF XRecover, StoreStep, Phases, ExecutionPhases
  <2>6. CASE XEvaluate(w)
    BY <1>1, <2>6, AdvanceIsStoreStep DEF XEvaluate, StoreStep, Phases, ExecutionPhases
  <2>7. CASE XFinish(w)
    <3>1. \E v \in BOOLEAN : FinishCleanup(wk[w].run, v)
      BY <2>7 DEF XFinish
    <3> QED  BY <1>1, <2>7, <3>1 DEF XFinish, StoreStep, StoreFinish, AtWork
  <2> QED  BY <1>5, <2>1, <2>2, <2>3, <2>4, <2>5, <2>6, <2>7 DEF XStep
<1> QED  BY <1>2, <1>3, <1>4, <1>5 DEF WorkerStep

\* So does every other step.
LEMMA NextCallsStore ==
    ASSUME Typed, [Next]_vars
    PROVE  StoreStep
<1>1. ASSUME NEW w \in Workers, ClaimStep(w) \/ Crash(w) \/ Start(w)
      PROVE  StoreStep
  BY <1>1 DEF ClaimStep, DClaim, XClaim, Crash, Start, StoreStep
<1>2. ASSUME NEW w \in Executors, Beat(w) \/ BeatDies(w)
      PROVE  StoreStep
  BY <1>2 DEF Beat, BeatDies, StoreStep
<1>3. ASSUME NEW w \in Executors, BeatLease(w)
      PROVE  StoreStep
  <2>1. hb[w].run \in Runs
    BY <1>3 DEF BeatLease, Typed, BeatsTyped, BeatsBusy
  <2> QED  BY <1>3, <2>1 DEF BeatLease, MutationFree, StoreStep, StoreLease
<1>4. ASSUME NEW r \in Runs, Approve(r) \/ Watchdog(r)
      PROVE  StoreStep
  BY <1>4 DEF Approve, Watchdog, StoreStep, StoreTransition, Phases, ExecutionPhases
<1>5. ASSUME NEW r \in Runs, Abort(r)
      PROVE  StoreStep
  BY <1>5 DEF Abort, StoreStep, StoreRequest, Terminals
<1>6. ASSUME NEW r \in Runs, NEW kind \in Kinds[r], Create(r, kind)
      PROVE  StoreStep
  BY <1>6 DEF Create, StoreStep, StoreCreate
<1>7. CASE UNCHANGED vars
  BY <1>7 DEF vars, StoreStep
<1> QED  BY <1>1, <1>2, <1>3, <1>4, <1>5, <1>6, <1>7, WorkerCallsStore DEF Next

\* Every call keeps the types of the table and of the lease.
LEMMA StoreTyped ==
    ASSUME RowsTyped, StoreStep
    PROVE  RowsTyped'
<1>0. \A r \in Runs : run[r] \in Rows
  BY DEF RowsTyped
<1>1. CASE StoreCreate
  <2>1. PICK r \in Runs : \E kind \in Kinds[r] :
            run' = [run EXCEPT ![r] = Row("CREATED", kind)] /\ UNCHANGED mlease
    BY <1>1 DEF StoreCreate
  <2>2. PICK kind \in Kinds[r] : run' = [run EXCEPT ![r] = Row("CREATED", kind)]
    BY <2>1
  <2>3. kind \in {"dry", "manual", "auto"}
    OBVIOUS
  <2>4. Row("CREATED", kind) \in Rows
    BY <2>3 DEF Row, Rows, Phases, DiscoveryPhases
  <2> QED  BY <2>1, <2>2, <2>4 DEF RowsTyped
<1>2. CASE StoreTransition
  <2>1. PICK r \in Runs, p \in Phases : Transition(r, p) /\ UNCHANGED mlease
    BY <1>2 DEF StoreTransition
  <2>2. run[r] \in Rows
    BY <1>0
  <2>3. [run[r] EXCEPT !.phase = p] \in Rows
    BY <2>2 DEF Rows
  <2> QED  BY <2>1, <2>3 DEF RowsTyped, Transition
<1>3. CASE StoreRequest
  <2>1. PICK r \in Runs, s \in Terminals, b \in BOOLEAN :
            RequestCleanup(r, s, b) /\ UNCHANGED mlease
    BY <1>3 DEF StoreRequest
  <2> DEFINE new == [run[r] EXCEPT !.phase = "CLEANING_UP", !.desired = s,
                                   !.abort = run[r].abort \/ b]
  <2>2. run[r] \in Rows /\ (run[r].abort \/ b) \in BOOLEAN /\ "CLEANING_UP" \in Phases
    BY <1>0 DEF Phases
  <2>3. new \in Rows
    BY <2>2 DEF Rows
  <2>4. run' = run \/ run' = [run EXCEPT ![r] = new]
    BY <2>1 DEF RequestCleanup
  <2> HIDE DEF new
  <2> QED  BY <2>1, <2>3, <2>4 DEF RowsTyped
<1>4. CASE StoreFinish
  <2>1. PICK r \in Runs, v \in BOOLEAN : FinishCleanup(r, v)
    BY <1>4 DEF StoreFinish
  <2> DEFINE s == IF v THEN run[r].desired ELSE "RESET_FAILED"
  <2>2. run[r] \in Rows /\ s \in Terminals \cup {"none"}
    BY <1>0 DEF Rows, Terminals
  <2> HIDE DEF s
  <2>3. [run[r] EXCEPT !.term = s] \in Rows
    BY <2>2 DEF Rows
  <2>4. run' = run \/ run' = [run EXCEPT ![r] = [run[r] EXCEPT !.term = s]]
    BY <2>1 DEF FinishCleanup, s
  <2>5. mlease' \in {mlease, 0}
    BY <2>1 DEF FinishCleanup
  <2> QED  BY <2>3, <2>4, <2>5 DEF RowsTyped
<1>5. CASE StoreLease \/ UNCHANGED <<run, mlease>>
  BY <1>5 DEF StoreLease, RowsTyped
<1> QED  BY <1>1, <1>2, <1>3, <1>4, <1>5 DEF StoreStep
----------------------------------------------------------------------------
(***************************************************************************)
(* The journal and the rest                                                *)
(***************************************************************************)

\* A worker writes at most one artifact in a step.
LEMMA WorkerWritesOne ==
    ASSUME Typed, NEW w \in Workers, WorkerStep(w), wk[w].run \in Runs
    PROVE  \/ UNCHANGED art
           \/ \E a \in Artifacts, v \in Values : art' = [art EXCEPT ![wk[w].run][a] = v]
<1> DEFINE r == wk[w].run
<1> USE DEF Artifacts, Values
<1>1. CASE Request(w) \/ Ask(w) \/ Release(w)
  BY <1>1 DEF Request, Ask, Release
<1>2. CASE DStep(w)
  <2>1. CASE DBegin(w) \/ DLeave(w) \/ DFinish(w)
    BY <2>1 DEF DBegin, DLeave, DFinish
  <2>2. CASE DStage(w)
    BY <2>2 DEF DStage
  <2>3. CASE \E a \in {"snapshot", "bundle"} : DWork(w, a)
    BY <2>3 DEF DWork
  <2> QED  BY <1>2, <2>1, <2>2, <2>3 DEF DStep
<1>3. CASE XStep(w)
  <2>1. CASE XBegin(w) \/ XLease(w) \/ XExecute(w) \/ XPrepare(w) \/ XAgent(w)
             \/ XFinalize(w) \/ XJudge(w) \/ XScore(w) \/ XFinish(w)
    BY <2>1 DEF XBegin, XLease, XExecute, XPrepare, XAgent, XFinalize, XJudge, XScore, XFinish
  <2>2. CASE XBaseline(w)
    BY <2>2 DEF XBaseline
  <2>3. CASE XTrial(w)
    BY <2>3 DEF XTrial
  <2>4. CASE XRecover(w)
    BY <2>4 DEF XRecover
  <2>5. CASE XEvaluate(w)
    <3>0. art[r] \in [Artifacts -> Values] /\ "execution" \in Artifacts
      BY DEF Typed, JournalTyped
    <3>1. art[r]["execution"] \in Values
      BY <3>0
    <3> QED  BY <2>5, <3>1 DEF XEvaluate
  <2>6. CASE XCleanup(w)
    BY <2>6 DEF XCleanup
  <2> QED  BY <1>3, <2>1, <2>2, <2>3, <2>4, <2>5, <2>6 DEF XStep
<1> QED  BY <1>1, <1>2, <1>3 DEF WorkerStep

\* Artifacts and checkpoints keep their types.
LEMMA JournalKept ==
    ASSUME Typed, [Next]_vars
    PROVE  JournalTyped'
<1>1. ASSUME NEW w \in Workers, WorkerStep(w) PROVE JournalTyped'
  <2>1. wk[w].run \in Runs /\ wk[w] \in WorkerStates
    <3>1. wk[w].pc \notin Away
      BY <1>1 DEF WorkerStep, DStep, XStep, Request, Ask, Release, DBegin, DWork, DStage,
                  DLeave, DFinish, XBegin, XLease, XBaseline, XExecute, XTrial, XPrepare,
                  XAgent, XFinalize, XJudge, XRecover, XEvaluate, XScore, XCleanup, XFinish
    <3> QED  BY <3>1 DEF Typed, WorkersTyped, WorkersBusy
  <2> DEFINE r == wk[w].run
  <2>2. art' \in [Runs -> [Artifacts -> Values]]
    <3>1. art \in [Runs -> [Artifacts -> Values]]
      BY DEF Typed, JournalTyped
    <3>2. CASE \E a \in Artifacts, v \in Values : art' = [art EXCEPT ![wk[w].run][a] = v]
      <4>1. PICK a \in Artifacts, v \in Values : art' = [art EXCEPT ![wk[w].run][a] = v]
        BY <3>2
      <4>2. [art[wk[w].run] EXCEPT ![a] = v] \in [Artifacts -> Values]
        BY <2>1, <3>1
      <4>3. art' = [art EXCEPT ![wk[w].run] = [art[wk[w].run] EXCEPT ![a] = v]]
        BY <4>1
      <4> QED  BY <3>1, <4>2, <4>3
    <3> QED  BY <1>1, <2>1, <3>1, <3>2, WorkerWritesOne
  <2>3. prog[r] \in Checkpoints
    BY <2>1 DEF Typed, JournalTyped
  <2>4. CASE XTrial(w)
    <3>1. StartTrial(prog[r]) \in Checkpoints 
      BY <2>1, <2>3, StartTrialTyped
    <3> QED  BY <2>1, <2>2, <2>4, <3>1 DEF XTrial, Typed, JournalTyped
  <2>5. CASE XJudge(w)
    <3>1. \A v \in Verdicts : RecordResult(prog[r], v) \in Checkpoints
      BY <2>3, RecordResultTyped
    <3>2. prog' \in [Runs -> Checkpoints]
      BY <2>1, <2>5, <3>1 DEF XJudge, Typed, JournalTyped, Verdicts
    <3> QED  BY <2>2, <2>5, <3>2 DEF XJudge, Typed, JournalTyped
  <2>6. CASE ~XTrial(w) /\ ~XJudge(w)
    <3>1. UNCHANGED <<prog>>
      BY <1>1, <2>6 DEF WorkerStep, DStep, XStep, Request, Ask, Release, DBegin, DWork, DStage,
                  DLeave, DFinish, XBegin, XLease, XBaseline, XExecute, XPrepare,
                  XAgent, XFinalize, XRecover, XEvaluate, XScore, XCleanup, XFinish
    <3> QED  BY <2>2, <3>1 DEF Typed, JournalTyped
  <2> QED  BY <2>4, <2>5, <2>6
<1>2. ASSUME ~\E w \in Workers : WorkerStep(w) PROVE UNCHANGED <<art, prog>>
  BY <1>2 DEF Next, vars, ClaimStep, DClaim, XClaim, Crash, Start, Beat, BeatLease, BeatDies,
              Approve, Abort, Watchdog, Create
<1> QED  BY <1>1, <1>2 DEF Typed, JournalTyped

\* Worker leases, faults, workloads, histories and counters keep their types.
LEMMA RestKept ==
    ASSUME Typed, [Next]_vars
    PROVE  RestTyped'
<1>1. ASSUME NEW w \in Workers, WorkerStep(w) PROVE RestTyped'
  <2>1. wk[w].pc \notin Away => wk[w].run \in Runs
    BY DEF Typed, WorkersTyped, WorkersBusy
  <2>2. CASE Release(w)
    BY <2>2 DEF Release, Typed, RestTyped
  <2>3. CASE ~Release(w)
    <3>1. UNCHANGED <<wlease, taken, frail, crashes, lapses, aborts>>
      BY <1>1, <2>3 DEF WorkerStep, DStep, XStep, Request, Ask, DBegin, DWork, DStage,
                  DLeave, DFinish, XBegin, XLease, XBaseline, XExecute, XTrial, XPrepare,
                  XAgent, XFinalize, XJudge, XRecover, XEvaluate, XScore, XCleanup, XFinish
    <3>2. /\ fault' = fault \/ (wk[w].pc \notin Away /\ fault' \in {fault \cup {wk[w].run}, fault \ {wk[w].run}})
          /\ load' = load \/ (wk[w].pc \notin Away /\ load' \in {load \cup {wk[w].run}, load \ {wk[w].run}})
      BY <1>1, <2>3 DEF WorkerStep, DStep, XStep, Request, Ask, DBegin, DWork, DStage,
                  DLeave, DFinish, XBegin, XLease, XBaseline, XExecute, XTrial, XPrepare,
                  XAgent, XFinalize, XJudge, XRecover, XEvaluate, XScore, XCleanup, XFinish
    <3> QED  BY <2>1, <3>1, <3>2 DEF Typed, RestTyped
  <2> QED  BY <2>2, <2>3
<1>2. ASSUME NEW w \in Workers, NEW r \in Runs, DClaim(w, r) \/ XClaim(w, r)
      PROVE  RestTyped'
  <2>1. lapses \in Nat /\ lapses + 1 \in Nat
    BY DEF Typed, RestTyped
  <2>2. /\ wlease' = [wlease EXCEPT ![r] = w]
        /\ taken' \in {taken, taken \cup {r}} /\ frail' \in {frail, frail \cup {r}}
        /\ lapses' \in {lapses, lapses + 1}
        /\ UNCHANGED <<fault, load, crashes, aborts>>
    BY <1>2 DEF DClaim, XClaim, Claim
  <2>3. wlease' \in [Runs -> Workers \cup {NoWorker}]
    BY <2>2 DEF Typed, RestTyped
  <2>4. taken' \subseteq Runs /\ frail' \subseteq Runs
    BY <2>2 DEF Typed, RestTyped
  <2> QED  BY <2>1, <2>2, <2>3, <2>4 DEF Typed, RestTyped
<1>3. ASSUME NEW w \in Workers, Crash(w) \/ Start(w) PROVE RestTyped'
  BY <1>3 DEF Crash, Start, Typed, RestTyped
<1>4. ASSUME NEW w \in Executors, Beat(w) \/ BeatLease(w) PROVE RestTyped'
  BY <1>4 DEF Beat, BeatLease, Typed, RestTyped
<1>5. ASSUME NEW w \in Executors, BeatDies(w) PROVE RestTyped'
  <2>1. hb[w].run \in Runs
    BY <1>5 DEF BeatDies, Typed, BeatsTyped, BeatsBusy
  <2>2. frail' \subseteq Runs
    BY <1>5, <2>1 DEF BeatDies, Typed, RestTyped
  <2>3. lapses' \in Nat
    BY <1>5 DEF BeatDies, Typed, RestTyped
  <2> QED  BY <1>5, <2>2, <2>3 DEF BeatDies, Typed, RestTyped
<1>6. ASSUME NEW r \in Runs, Approve(r) \/ Abort(r) \/ Watchdog(r) PROVE RestTyped'
  <2>1. CASE Approve(r)
    BY <2>1 DEF Approve, Typed, RestTyped
  <2>2. CASE Abort(r)
    <3>1. aborts' \in Nat
      BY <2>2 DEF Abort, Typed, RestTyped
    <3> QED  BY <2>2, <3>1 DEF Abort, Typed, RestTyped
  <2>3. CASE Watchdog(r)
    BY <2>3 DEF Watchdog, Typed, RestTyped
  <2> QED  BY <1>6, <2>1, <2>2, <2>3
<1>7. ASSUME NEW r \in Runs, NEW kind \in Kinds[r], Create(r, kind) PROVE RestTyped'
  BY <1>7 DEF Create, Typed, RestTyped
<1>8. CASE UNCHANGED vars
  BY <1>8 DEF vars, Typed, RestTyped
<1> QED  BY <1>1, <1>2, <1>3, <1>4, <1>5, <1>6, <1>7, <1>8 DEF Next, ClaimStep

\* Heartbeats keep their type and their run.
LEMMA BeatsKept ==
    ASSUME Typed, [Next]_vars
    PROVE  BeatsTyped'
<1>0. NoBeat \in Beats /\ NoBeat.pc = "off"
  BY DEF NoBeat, Beats
<1>1. ASSUME NEW w \in Workers, WorkerStep(w) PROVE BeatsTyped'
  <2>1. CASE Release(w)
    BY <1>0, <2>1 DEF Release, Typed, BeatsTyped, BeatsBusy
  <2>2. CASE ~Release(w)
    <3>1. UNCHANGED hb
      BY <1>1, <2>2 DEF WorkerStep, DStep, XStep, Request, Ask, DBegin, DWork, DStage,
                  DLeave, DFinish, XBegin, XLease, XBaseline, XExecute, XTrial, XPrepare,
                  XAgent, XFinalize, XJudge, XRecover, XEvaluate, XScore, XCleanup, XFinish
    <3> QED  BY <3>1 DEF Typed, BeatsTyped, BeatsBusy
  <2> QED  BY <2>1, <2>2
<1>2. ASSUME NEW w \in Workers, NEW r \in Runs, DClaim(w, r) \/ XClaim(w, r)
      PROVE  BeatsTyped'
  <2>1. CASE DClaim(w, r)
    BY <2>1 DEF DClaim, Typed, BeatsTyped, BeatsBusy
  <2>2. CASE XClaim(w, r)
    <3> DEFINE new == [pc |-> "on", run |-> r]
    <3>1. new \in Beats /\ new.run \in Runs
      BY DEF Beats
    <3>2. hb' = [hb EXCEPT ![w] = new] /\ w \in Executors
      BY <2>2 DEF XClaim
    <3> HIDE DEF new
    <3> QED  BY <3>1, <3>2 DEF Typed, BeatsTyped, BeatsBusy
  <2> QED  BY <1>2, <2>1, <2>2
<1>3. ASSUME NEW w \in Workers, Crash(w) \/ Start(w) PROVE BeatsTyped'
  BY <1>0, <1>3 DEF Crash, Start, Typed, BeatsTyped, BeatsBusy
<1>4. ASSUME NEW w \in Executors, Beat(w) \/ BeatLease(w) \/ BeatDies(w) PROVE BeatsTyped'
  <2>1. hb[w] \in Beats /\ hb[w].run \in Runs
    BY <1>4 DEF Beat, BeatLease, BeatDies, Typed, BeatsTyped, BeatsBusy
  <2>2. \A pc \in {"on", "read"} : /\ [hb[w] EXCEPT !.pc = pc] \in Beats
                                   /\ [hb[w] EXCEPT !.pc = pc].run \in Runs
    BY <2>1 DEF Beats
  <2>3. \/ UNCHANGED hb \/ hb' = [hb EXCEPT ![w] = NoBeat]
        \/ \E pc \in {"on", "read"} : hb' = [hb EXCEPT ![w] = [hb[w] EXCEPT !.pc = pc]]
    BY <1>4 DEF Beat, BeatLease, BeatDies
  <2> QED  BY <1>0, <2>2, <2>3 DEF Typed, BeatsTyped, BeatsBusy
<1>5. ASSUME NEW r \in Runs, Approve(r) \/ Abort(r) \/ Watchdog(r) PROVE BeatsTyped'
  BY <1>5 DEF Approve, Abort, Watchdog, Typed, BeatsTyped, BeatsBusy
<1>6. ASSUME NEW r \in Runs, NEW kind \in Kinds[r], Create(r, kind) PROVE BeatsTyped'
  BY <1>6 DEF Create, Typed, BeatsTyped, BeatsBusy
<1>7. CASE UNCHANGED vars
  BY <1>7 DEF vars, Typed, BeatsTyped, BeatsBusy
<1> QED  BY <1>1, <1>2, <1>3, <1>4, <1>5, <1>6, <1>7 DEF Next, ClaimStep

\* Workers keep theirs.
LEMMA WorkersKept ==
    ASSUME Typed, [Next]_vars
    PROVE  WorkersTyped'
<1>1. ASSUME NEW w \in Workers, WorkerStep(w) PROVE WorkersTyped'
  BY <1>1, WorkerStepTyped DEF Typed
<1>2. ASSUME NEW w \in Workers, NEW r \in Runs, DClaim(w, r) \/ XClaim(w, r)
      PROVE  WorkersTyped'
  <2>1. wk' = [wk EXCEPT ![w] = Worker("begin", r, "none", FALSE)]
    BY <1>2 DEF DClaim, XClaim, Claim
  <2> QED  BY <2>1, WorkerTurns DEF Typed, Pcs
<1>3. ASSUME NEW w \in Workers, Crash(w) \/ Start(w) PROVE WorkersTyped'
  BY <1>3, WorkerTurns DEF Crash, Start, ExitedWorker, IdleWorker, Typed, Pcs
<1>4. ASSUME ~\E w \in Workers : WorkerStep(w) \/ ClaimStep(w) \/ Crash(w) \/ Start(w)
      PROVE  UNCHANGED wk
  BY <1>4 DEF Next, vars, Beat, BeatLease, BeatDies, Approve, Abort, Watchdog, Create
<1> QED  BY <1>1, <1>2, <1>3, <1>4 DEF Typed, WorkersTyped, WorkersBusy, ClaimStep
----------------------------------------------------------------------------
(***************************************************************************)
(* Theorems                                                                *)
(***************************************************************************)

\* The types hold at the start and every step keeps them.
LEMMA AlwaysTyped == Spec => []Typed
<1>1. Init => Typed
  <2> SUFFICES ASSUME Init PROVE Typed
    OBVIOUS
  <2>1. NoRun \in Rows /\ IdleWorker \in WorkerStates /\ NoBeat \in Beats
    BY DEF NoRun, Row, Rows, IdleWorker, Worker, WorkerStates, NoBeat, Beats, Phases, Pcs
  <2>2. RowsTyped /\ BeatsTyped
    BY <2>1 DEF Init, RowsTyped, BeatsTyped, BeatsBusy, NoBeat
  <2>3. WorkersTyped
    BY <2>1 DEF Init, WorkersTyped, WorkersBusy, IdleWorker, Worker
  <2>4. JournalTyped /\ RestTyped
    BY NewStateTyped DEF Init, JournalTyped, RestTyped, Values
  <2> QED  BY <2>2, <2>3, <2>4 DEF Typed
<1>2. Typed /\ [Next]_vars => Typed'
  BY NextCallsStore, StoreTyped, WorkersKept, BeatsKept, JournalKept, RestKept DEF Typed
<1> QED  BY <1>1, <1>2, PTL DEF Spec

\* The rows, leases, artifacts, checkpoints, workers and heartbeats keep their
\* types; in particular a checkpoint never names a level the Episode lacks.
THEOREM TypeCorrect == Spec => []TypeOK
<1>1. Typed => TypeOK
  BY DEF Typed, RowsTyped, WorkersTyped, BeatsTyped, JournalTyped, RestTyped, TypeOK
<1> QED  BY <1>1, AlwaysTyped, PTL

\* acquire_mutation_lease and finish_cleanup together: the mutation lease
\* never belongs to a run that has ended, whichever heartbeat or stale worker
\* is about to acquire it when the run ends.
THEOREM LeaseNeedsLiveRun == Spec => []LeaseOfLiveRun
<1>1. Init => LeaseOfLiveRun
  BY DEF Init, LeaseOfLiveRun
<1>2. Typed /\ LeaseOfLiveRun /\ [Next]_vars => LeaseOfLiveRun'
  <2> SUFFICES ASSUME Typed, LeaseOfLiveRun, StoreStep PROVE LeaseOfLiveRun'
    BY NextCallsStore
  <2> USE DEF Typed, RowsTyped, LeaseOfLiveRun, Open
  <2>0. \A r \in Runs : run[r] \in Rows
    OBVIOUS
  <2>1. CASE StoreCreate
    BY <2>0, <2>1 DEF StoreCreate, Row, Rows
  <2>2. CASE StoreTransition
    <3>1. PICK r \in Runs, p \in Phases : MayAdvance(r, p) /\ Transition(r, p) /\ UNCHANGED mlease
      BY <2>2 DEF StoreTransition
    <3>2. p # "NONE"
      BY <3>1 DEF MayAdvance, Allowed
    <3>3. run'[r].phase = p /\ run'[r].term = run[r].term
      BY <2>0, <3>1 DEF Transition, Rows
    <3>4. \A q \in Runs \ {r} : run'[q] = run[q]
      BY <3>1 DEF Transition
    <3> QED  BY <3>1, <3>2, <3>3, <3>4
  <2>3. CASE StoreRequest
    <3>1. PICK r \in Runs, s \in Terminals, b \in BOOLEAN : RequestCleanup(r, s, b) /\ UNCHANGED mlease
      BY <2>3 DEF StoreRequest
    <3>2. run' = run \/ (run'[r].phase = "CLEANING_UP" /\ run'[r].term = run[r].term)
      BY <2>0, <3>1 DEF RequestCleanup, Rows
    <3>3. \A q \in Runs \ {r} : run'[q] = run[q]
      BY <3>1 DEF RequestCleanup
    <3> QED  BY <3>1, <3>2, <3>3
  <2>4. CASE StoreFinish
    <3>1. PICK r \in Runs, v \in BOOLEAN : FinishCleanup(r, v)
      BY <2>4 DEF StoreFinish
    <3>2. \A q \in Runs \ {r} : run'[q] = run[q]
      BY <3>1 DEF FinishCleanup
    <3>3. UNCHANGED <<run, mlease>> \/ (mlease' # r /\ mlease' \in {mlease, 0})
      BY <3>1 DEF FinishCleanup
    <3> QED  BY <3>2, <3>3
  <2>5. CASE StoreLease \/ UNCHANGED <<run, mlease>>
    BY <2>5 DEF StoreLease
  <2> QED  BY <2>1, <2>2, <2>3, <2>4, <2>5 DEF StoreStep
<1> QED  BY <1>1, <1>2, AlwaysTyped, PTL DEF Spec

\* What an accepted abort has fixed: the run is being cleaned up, or was, and
\* nothing moves it or asks for another end.
AbortPending ==
    \A r \in Runs : run[r].abort =>
        /\ run[r].phase = "CLEANING_UP" /\ run[r].desired = "ABORTED"
        /\ run[r].term \in {"none", "ABORTED", "RESET_FAILED"}

\* request_abort wins over every worker that is about to advance the run or to
\* ask for another terminal status.
THEOREM AbortDecides == Spec => []AbortIsKept
<1>1. Init => AbortPending
  BY DEF Init, AbortPending, NoRun, Row
<1>2. Typed /\ AbortPending /\ [Next]_vars => AbortPending'
  <2> SUFFICES ASSUME Typed, AbortPending, StoreStep PROVE AbortPending'
    BY NextCallsStore
  <2> USE DEF Typed, RowsTyped, AbortPending
  <2>0. \A r \in Runs : run[r] \in Rows
    OBVIOUS
  <2>1. CASE StoreCreate
    <3>1. PICK r \in Runs : \E kind \in Kinds[r] : run' = [run EXCEPT ![r] = Row("CREATED", kind)]
      BY <2>1 DEF StoreCreate
    <3>2. PICK kind \in Kinds[r] : run' = [run EXCEPT ![r] = Row("CREATED", kind)]
      BY <3>1
    <3>3. ~run'[r].abort
      BY <3>2 DEF Row
    <3>4. \A q \in Runs \ {r} : run'[q] = run[q]
      BY <3>2
    <3> QED  BY <3>3, <3>4
  <2>2. CASE StoreTransition
    <3>1. PICK r \in Runs, p \in Phases : MayAdvance(r, p) /\ Transition(r, p)
      BY <2>2 DEF StoreTransition
    <3>2. run[r].phase # "CLEANING_UP"
      BY <3>1 DEF MayAdvance, Allowed
    <3>3. run'[r].abort = run[r].abort
      BY <2>0, <3>1 DEF Transition, Rows
    <3> QED  BY <3>1, <3>2, <3>3 DEF Transition
  <2>3. CASE StoreRequest
    <3>1. PICK r \in Runs, s \in Terminals, b \in BOOLEAN :
              (b => s = "ABORTED") /\ RequestCleanup(r, s, b)
      BY <2>3 DEF StoreRequest
    <3>2. \A q \in Runs \ {r} : run'[q] = run[q]
      BY <3>1 DEF RequestCleanup
    <3>3. CASE run[r].term # "none" \/ CleanupConflict(r, s)
      BY <3>1, <3>3 DEF RequestCleanup
    <3>4. CASE run[r].term = "none" /\ ~CleanupConflict(r, s)
      <4>1. /\ run'[r].phase = "CLEANING_UP" /\ run'[r].desired = s
            /\ run'[r].term = "none" /\ run'[r].abort = (run[r].abort \/ b)
        BY <2>0, <3>1, <3>4 DEF RequestCleanup, Rows
      <4>2. run[r].abort => s = "ABORTED"
        BY <3>4 DEF CleanupConflict, Open
      <4> QED  BY <3>1, <3>2, <4>1, <4>2
    <3> QED  BY <3>3, <3>4
  <2>4. CASE StoreFinish
    <3>1. PICK r \in Runs, v \in BOOLEAN : FinishCleanup(r, v)
      BY <2>4 DEF StoreFinish
    <3>2. \A q \in Runs \ {r} : run'[q] = run[q]
      BY <3>1 DEF FinishCleanup
    <3>3. UNCHANGED run
          \/ /\ run'[r].phase = run[r].phase /\ run'[r].desired = run[r].desired
             /\ run'[r].abort = run[r].abort
             /\ run'[r].term \in {run[r].desired, "RESET_FAILED"}
      BY <2>0, <3>1 DEF FinishCleanup, Rows
    <3> QED  BY <3>2, <3>3
  <2>5. CASE StoreLease \/ UNCHANGED <<run, mlease>>
    BY <2>5 DEF StoreLease
  <2> QED  BY <2>1, <2>2, <2>3, <2>4, <2>5 DEF StoreStep
<1>3. AbortPending => AbortIsKept
  BY DEF AbortPending, AbortIsKept
<1> QED  BY <1>1, <1>2, <1>3, AlwaysTyped, PTL DEF Spec

\* A run is worked on, and ends, only after it was created.
WorkedRunsExist ==
    \A w \in Workers : wk[w].pc \notin Away => run[wk[w].run].phase # "NONE"
EndedRunsExist == \A r \in Runs : run[r].term # "none" => run[r].phase # "NONE"

\* A worker at work keeps its run, or has just claimed an open one.
LEMMA WorkerKeepsRun ==
    ASSUME Typed, [Next]_vars, NEW w \in Workers, wk'[w].pc \notin Away
    PROVE  \/ wk[w].pc \notin Away /\ wk'[w].run = wk[w].run
           \/ Open(wk'[w].run) /\ UNCHANGED run
<1>0. wk \in [Workers -> WorkerStates]
  BY DEF Typed, WorkersTyped
<1>1. ASSUME NEW v \in Workers, WorkerStep(v)
      PROVE  wk[w].pc \notin Away /\ wk'[w].run = wk[w].run
  <2>1. wk[v].pc \notin Away
    BY <1>1 DEF WorkerStep, DStep, XStep, Request, Ask, Release, DBegin, DWork, DStage,
                DLeave, DFinish, XBegin, XLease, XBaseline, XExecute, XTrial, XPrepare,
                XAgent, XFinalize, XJudge, XRecover, XEvaluate, XScore, XCleanup, XFinish
  <2> DEFINE Kept == wk'[v].run = wk[v].run /\ \A u \in Workers \ {v} : wk'[u] = wk[u]
  <2>2. Fail(v) => Kept
    BY <1>0 DEF Fail, Worker
  <2>3. \A t : End(v, t) => Kept
    BY <1>0 DEF End, Worker
  <2>4. \A pc : Turn(v, pc) => Kept
    BY <1>0 DEF Turn, Worker
  <2>5. \A p : Proceed(v, p) => Kept
    BY <1>0 DEF Proceed, WorkerStates
  <2>6. \A pc : Goto(v, pc) => Kept
    BY <1>0 DEF Goto, WorkerStates
  <2>7. UNCHANGED wk => Kept
    OBVIOUS
  <2> HIDE DEF Kept
  <2>9. CASE Release(v)
    BY <1>0, <2>1, <2>9 DEF Release, IdleWorker, ExitedWorker, Worker
  <2>10. CASE Request(v) \/ Ask(v)
    BY <2>2, <2>4, <2>6, <2>10 DEF Request, Ask, Kept
  <2>11. CASE DStep(v)
    <3>1. CASE DStage(v)
      BY <2>1, <2>2, <2>3, <2>5, <2>6, <3>1 DEF DStage, Advance, Kept
    <3>2. CASE DBegin(v) \/ DLeave(v) \/ DFinish(v) \/ \E a \in {"snapshot", "bundle"} : DWork(v, a)
      <4>1. Kept
        BY <2>2, <2>4, <2>5, <2>7, <3>2 DEF DBegin, DLeave, DFinish, DWork
      <4> QED  BY <2>1, <4>1 DEF Kept
    <3> QED  BY <2>11, <3>1, <3>2 DEF DStep
  <2>12. CASE XStep(v)
    <3>1. CASE XBegin(v) \/ XLease(v) \/ XBaseline(v) \/ XExecute(v)
      BY <2>2, <2>3, <2>4, <2>5, <2>6, <2>7, <3>1
         DEF XBegin, XLease, XBaseline, XExecute, Advance, Kept
    <3>2. CASE XTrial(v) \/ XPrepare(v) \/ XAgent(v) \/ XFinalize(v) \/ XJudge(v)
      BY <2>1, <2>2, <2>5, <2>6, <3>2
         DEF XTrial, XPrepare, XAgent, XFinalize, XJudge, Kept
    <3>3. CASE XRecover(v) \/ XEvaluate(v) \/ XScore(v) \/ XCleanup(v) \/ XFinish(v)
      <4>1. Kept
        BY <2>2, <2>3, <2>4, <2>5, <2>6, <2>7, <3>3
           DEF XRecover, XEvaluate, XScore, XCleanup, XFinish, Advance
      <4> QED  BY <2>1, <4>1 DEF Kept
    <3> QED  BY <2>12, <3>1, <3>2, <3>3 DEF XStep
  <2> QED  BY <1>1, <2>9, <2>10, <2>11, <2>12 DEF WorkerStep
<1>2. ASSUME NEW v \in Workers, NEW r \in Runs, DClaim(v, r) \/ XClaim(v, r)
      PROVE  \/ wk[w].pc \notin Away /\ wk'[w].run = wk[w].run
             \/ Open(wk'[w].run) /\ UNCHANGED run
  <2>1. /\ Open(r) /\ UNCHANGED run
        /\ wk' = [wk EXCEPT ![v] = Worker("begin", r, "none", FALSE)]
    BY <1>2 DEF DClaim, XClaim, Claim, Claimable
  <2> QED  BY <1>0, <2>1 DEF Worker
<1>3. ASSUME NEW v \in Workers, Crash(v) \/ Start(v)
      PROVE  wk[w].pc \notin Away /\ wk'[w].run = wk[w].run
  BY <1>0, <1>3 DEF Crash, Start, IdleWorker, ExitedWorker, Worker
<1>4. ASSUME ~\E v \in Workers : WorkerStep(v) \/ ClaimStep(v) \/ Crash(v) \/ Start(v)
      PROVE  UNCHANGED wk
  BY <1>4 DEF Next, vars, Beat, BeatLease, BeatDies, Approve, Abort, Watchdog, Create
<1> QED  BY <1>1, <1>2, <1>3, <1>4 DEF ClaimStep

\* What the store does to the existence and to the end of a run.
LEMMA StoreKeepsEnds ==
    ASSUME Typed, WorkedRunsExist, EndedRunsExist, StoreStep, NEW r \in Runs
    PROVE  /\ run[r].phase # "NONE" => run'[r].phase # "NONE"
           /\ run[r].term # "none" => run'[r].term = run[r].term
           /\ run'[r].term # "none" => run'[r].phase # "NONE"
<1>0. run \in [Runs -> Rows] /\ run[r] \in Rows
  BY DEF Typed, RowsTyped
<1>1. CASE StoreCreate
  <2>1. PICK q \in Runs : \E kind \in Kinds[q] :
            run[q].phase = "NONE" /\ run' = [run EXCEPT ![q] = Row("CREATED", kind)]
    BY <1>1 DEF StoreCreate
  <2>2. run[q].term = "none"
    BY <2>1 DEF EndedRunsExist
  <2> QED  BY <1>0, <2>1, <2>2 DEF Row, EndedRunsExist
<1>2. CASE StoreTransition
  <2>1. PICK q \in Runs, p \in Phases : MayAdvance(q, p) /\ Transition(q, p)
    BY <1>2 DEF StoreTransition
  <2>2. p # "NONE" /\ run[q].term = "none" /\ run[q] \in Rows
    BY <1>0, <2>1 DEF MayAdvance, Allowed, Open
  <2> QED  BY <1>0, <2>1, <2>2 DEF Transition, Rows, EndedRunsExist
<1>3. CASE StoreRequest
  <2>1. PICK q \in Runs, t \in Terminals, b \in BOOLEAN : RequestCleanup(q, t, b)
    BY <1>3 DEF StoreRequest
  <2>2. run' = run \/ (run'[q].phase = "CLEANING_UP" /\ run'[q].term = run[q].term)
    BY <1>0, <2>1 DEF RequestCleanup, Rows
  <2>3. \A u \in Runs \ {q} : run'[u] = run[u]
    BY <1>0, <2>1 DEF RequestCleanup
  <2> QED  BY <1>0, <2>2, <2>3 DEF EndedRunsExist
<1>4. CASE StoreFinish
  <2>1. PICK q \in Runs, v \in BOOLEAN : (\E w \in Workers : AtWork(w, q)) /\ FinishCleanup(q, v)
    BY <1>4 DEF StoreFinish
  <2>2. run[q].phase # "NONE"
    BY <2>1 DEF AtWork, WorkedRunsExist
  <2>3. run' = run \/ (run[q].term = "none" /\ run'[q].phase = run[q].phase)
    BY <1>0, <2>1 DEF FinishCleanup, Rows
  <2>4. \A u \in Runs \ {q} : run'[u] = run[u]
    BY <1>0, <2>1 DEF FinishCleanup
  <2> QED  BY <1>0, <2>2, <2>3, <2>4 DEF EndedRunsExist
<1>5. CASE StoreLease \/ UNCHANGED <<run, mlease>>
  BY <1>5 DEF StoreLease, EndedRunsExist
<1> QED  BY <1>1, <1>2, <1>3, <1>4, <1>5 DEF StoreStep

\* No call of the store, by whichever worker, changes the status a run ended
\* with (transition, request_cleanup, finish_cleanup).
THEOREM EndsAreFinal == Spec => EndIsFinal
<1> DEFINE Exist == WorkedRunsExist /\ EndedRunsExist
<1>1. Init => Exist
  BY DEF Init, WorkedRunsExist, EndedRunsExist, IdleWorker, Worker, NoRun, Row
<1>2. Typed /\ Exist /\ [Next]_vars => Exist'
  <2> SUFFICES ASSUME Typed, Exist, [Next]_vars PROVE Exist'
    OBVIOUS
  <2>1. StoreStep
    BY NextCallsStore
  <2>2. EndedRunsExist'
    BY <2>1, StoreKeepsEnds DEF EndedRunsExist
  <2>3. ASSUME NEW w \in Workers, wk'[w].pc \notin Away
        PROVE  run'[wk'[w].run].phase # "NONE"
    <3>1. CASE wk[w].pc \notin Away /\ wk'[w].run = wk[w].run
      <4>1. wk[w].run \in Runs /\ run[wk[w].run].phase # "NONE"
        BY <3>1 DEF Typed, WorkersTyped, WorkersBusy, WorkedRunsExist
      <4> QED  BY <2>1, <3>1, <4>1, StoreKeepsEnds
    <3>2. CASE Open(wk'[w].run) /\ UNCHANGED run
      BY <3>2 DEF Open
    <3> QED  BY <2>3, <3>1, <3>2, WorkerKeepsRun
  <2> QED  BY <2>2, <2>3 DEF WorkedRunsExist
<1>3. Typed /\ Exist /\ [Next]_vars
          => [\A r \in Runs : run[r].term # "none" => run'[r].term = run[r].term]_vars
  BY NextCallsStore, StoreKeepsEnds
<1> QED  BY <1>1, <1>2, <1>3, AlwaysTyped, PTL DEF Spec, EndIsFinal
============================================================================
