-------------------------- MODULE RunWorkersProofs --------------------------
(***************************************************************************)
(* Proofs about the workers of the run control plane, stale ones included: *)
(* who may mutate the cluster, what a closed run leaves in it and what     *)
(* COMPLETED stands for, for any number of runs, workers and levels and    *)
(* every value of the bounds.                                              *)
(***************************************************************************)
EXTENDS RunControlProofs

USE RunAssumption, ProgressionAssumption DEF world, history, bounds, Away

\* Phases before the first trial, and those after the baseline.
Early == DiscoveryPhases \cup {"NONE", "AWAITING_APPROVAL", "BASELINING"}
Late == {"EXECUTING", "RECOVERING", "EVALUATING", "SCORING"}

\* Where a worker is: inside a trial, with the trials, or still short of a request.
TrialPcs == {"prepare", "agent", "finalize", "judge", "judgeFailed"}
Active == {"begin", "stage", "leave", "baseline", "trial"} \cup TrialPcs
InTrials(w) == wk[w].pc \in TrialPcs \cup {"trial"}
Executing(w) == InTrials(w) \/ (wk[w].pc = "stage" /\ wk[w].phase = "EXECUTING")

\* What the checkpoints of a run say once it has come so far; none of it is undone.
Started(r) == run[r].kind # "dry" /\ art[r]["locked"] = "good"
Based(r) == Started(r) /\ art[r]["baseline"] = "good"
Recovered(r) == Based(r) /\ art[r]["recovery"] = "good"
Reached(r, p) ==
    /\ p \in {"AWAITING_APPROVAL"} \cup ExecutionPhases => Started(r)
    /\ p \in Late => Based(r)
    /\ p \in {"EVALUATING", "SCORING"} => Recovered(r)
Passed(r) == Recovered(r) /\ art[r]["execution"] = "good" /\ art[r]["evaluation"] = "good"
Earned(r) == run[r].kind = "dry" \/ Passed(r)

(***************************************************************************)
(* The inductive invariant: of a run,                                      *)
(***************************************************************************)
\* its row, its cleanup and its fault;
RowOK(r) ==
    /\ run[r].term # "none" \/ art[r]["cleanup"] # "none" => run[r].phase = "CLEANING_UP"
    /\ r \notin taken /\ art[r]["cleanup"] = "good" => r \notin fault
    /\ r \notin taken /\ run[r].term \notin {"none", "RESET_FAILED"} => r \notin fault
    /\ r \in fault => run[r].kind # "dry"
\* what it has not done before its first trial;
FreshOK(r) ==
    run[r].phase \in Early => art[r]["execution"] = "none" /\ r \notin fault
\* its checkpoint of the progression;
TicketOK(r) ==
    /\ prog[r].status # "ACTIVE" => ~prog[r].open
    /\ \A l \in 1..Levels : l < prog[r].level => prog[r].verdict[l] \in {"PASS", "FAIL"}
    /\ prog[r].status = "PASS" /\ ContinueAfterFailure =>
           \A l \in 1..Levels : prog[r].verdict[l] = "PASS"
\* and what it has earned.
JournalOK(r) ==
    /\ art[r]["baseline"] # "thin" /\ art[r]["recovery"] # "thin"
    /\ art[r]["execution"] # "none" =>
           /\ prog[r].status # "ACTIVE"
           /\ art[r]["execution"] = IF prog[r].status = "PASS" THEN "good" ELSE "bad"
    /\ art[r]["evaluation"] # "none" => art[r]["evaluation"] = art[r]["execution"]
    /\ Reached(r, run[r].phase)
    /\ "COMPLETED" \in {run[r].desired, run[r].term} => run[r].phase # "NONE" /\ Earned(r)
RunOK(r) == RowOK(r) /\ FreshOK(r) /\ TicketOK(r) /\ JournalOK(r)

(***************************************************************************)
(* Of a worker w at work on r,                                             *)
(***************************************************************************)
\* its leases;
LeaseOK(w, r) ==
    /\ run[r].phase # "NONE"
    /\ r \notin taken => wlease[r] = w
    /\ w \in Executors /\ wk[w].pc \in Active /\ r \notin taken \cup frail =>
           /\ hb[w].pc # "off" /\ hb[w].run = r
           /\ hb[w].pc = "read" => mlease = r
           /\ wk[w].pc = "begin" => run[r].phase # "EXECUTING"
           /\ Executing(w) \/ wk[w].pc = "baseline" => mlease = r
\* its trials;
TrialsOK(w, r) ==
    w \in Executors =>
        /\ Executing(w) => run[r].phase \notin Early
        /\ InTrials(w) /\ r \notin taken \cup frail => art[r]["execution"] = "none"
        /\ wk[w].pc \in TrialPcs => prog[r].open /\ prog[r].status = "ACTIVE"
\* the state of the run it may rely on;
CleanOK(w, r) ==
    /\ wk[w].pc \in {"cleanup", "finish"} => run[r].phase = "CLEANING_UP"
    /\ w \in Discoverers /\ r \notin taken => r \notin fault
    /\ w \in Executors /\ wk[w].pc \in Active /\ r \notin taken =>
           run[r].term = "none" /\ (wk[w].pc # "begin" => art[r]["cleanup"] = "none")
\* and what the run has earned when the worker is where it is.
EarnOK(w, r) ==
    /\ wk[w].pc \in {"request", "ask"} /\ wk[w].want = "COMPLETED" => Earned(r)
    /\ wk[w].pc = "leave" => Started(r)
    /\ w \in Executors =>
           /\ wk[w].pc = "begin" => run[r].phase \in ExecutionPhases \cup {"CLEANING_UP"}
           /\ wk[w].pc = "baseline" => Started(r)
           /\ wk[w].pc = "stage" => wk[w].phase \in ExecutionPhases /\ Reached(r, wk[w].phase)
           /\ InTrials(w) => Based(r)
WorkerOK(w, r) == LeaseOK(w, r) /\ TrialsOK(w, r) /\ CleanOK(w, r) /\ EarnOK(w, r)

RunsOK == \A r \in Runs : RunOK(r)
WorkersOK ==
    \A w \in Workers, r \in Runs : wk[w].pc \notin Away /\ wk[w].run = r => WorkerOK(w, r)
\* One trial of a run is open at a time, whoever works on it.
OneTicket ==
    \A w, v \in Executors :
        wk[w].pc \in TrialPcs /\ wk[v].pc \in TrialPcs /\ wk[w].run = wk[v].run => w = v
IInv == Typed /\ LeaseOfLiveRun /\ RunsOK /\ WorkersOK /\ OneTicket
----------------------------------------------------------------------------
(***************************************************************************)
(* What a step of one worker on its run leaves alone.                      *)
(***************************************************************************)
\* The ways a workflow moves its worker, field by field.
LEMMA MoveEffects ==
    ASSUME Typed, NEW w \in Workers
    PROVE  /\ Fail(w) => /\ wk'[w].pc = "request" /\ wk'[w].run = wk[w].run
                         /\ wk'[w].want = "FAILED"
                         /\ \A v \in Workers \ {w} : wk'[v] = wk[v]
           /\ \A s : End(w, s) => /\ wk'[w].pc = "request" /\ wk'[w].run = wk[w].run
                                  /\ wk'[w].want = s
                                  /\ \A v \in Workers \ {w} : wk'[v] = wk[v]
           /\ \A pc : Turn(w, pc) => /\ wk'[w].pc = pc /\ wk'[w].run = wk[w].run
                                     /\ \A v \in Workers \ {w} : wk'[v] = wk[v]
           /\ \A p : Proceed(w, p) => /\ wk'[w].pc = "stage" /\ wk'[w].run = wk[w].run
                                      /\ wk'[w].phase = p
                                      /\ \A v \in Workers \ {w} : wk'[v] = wk[v]
           /\ \A pc : Goto(w, pc) => /\ wk'[w].pc = pc /\ wk'[w].run = wk[w].run
                                     /\ wk'[w].phase = wk[w].phase /\ wk'[w].want = wk[w].want
                                    
                                     /\ \A v \in Workers \ {w} : wk'[v] = wk[v]
<1>1. wk \in [Workers -> WorkerStates]
  BY DEF Typed, WorkersTyped
<1>2. Fail(w) => /\ wk'[w].pc = "request" /\ wk'[w].run = wk[w].run
                 /\ wk'[w].want = "FAILED"
                 /\ \A v \in Workers \ {w} : wk'[v] = wk[v]
  BY <1>1 DEF Fail, Worker
<1>3. \A s : End(w, s) => /\ wk'[w].pc = "request" /\ wk'[w].run = wk[w].run
                          /\ wk'[w].want = s
                          /\ \A v \in Workers \ {w} : wk'[v] = wk[v]
  BY <1>1 DEF End, Worker
<1>4. \A pc : Turn(w, pc) => /\ wk'[w].pc = pc /\ wk'[w].run = wk[w].run
                             /\ \A v \in Workers \ {w} : wk'[v] = wk[v]
  BY <1>1 DEF Turn, Worker
<1>5. \A p : Proceed(w, p) => /\ wk'[w].pc = "stage" /\ wk'[w].run = wk[w].run
                              /\ wk'[w].phase = p
                              /\ \A v \in Workers \ {w} : wk'[v] = wk[v]
  BY <1>1 DEF Proceed, WorkerStates
<1>6. \A pc : Goto(w, pc) => /\ wk'[w].pc = pc /\ wk'[w].run = wk[w].run
                             /\ wk'[w].phase = wk[w].phase /\ wk'[w].want = wk[w].want
                            
                             /\ \A v \in Workers \ {w} : wk'[v] = wk[v]
  BY <1>1 DEF Goto, WorkerStates
<1> QED  BY <1>2, <1>3, <1>4, <1>5, <1>6

\* A step of worker w on run r: no other run, worker or heartbeat is touched, and the
\* mutation lease is taken only when it is free, or given up with the run.
OtherRunsKept(r) ==
    \A q \in Runs \ {r} :
        /\ run'[q] = run[q] /\ art'[q] = art[q] /\ prog'[q] = prog[q]
        /\ q \in fault' <=> q \in fault
OtherWorkersKept(w) ==
    /\ \A v \in Workers \ {w} : wk'[v] = wk[v]
    /\ \A v \in Executors \ {w} : hb'[v] = hb[v]
    /\ \A q \in Runs : wlease'[q] = wlease[q] \/ wlease[q] = w
LeaseMoves(r) ==
    \/ mlease' = mlease
    \/ mlease' = r /\ (mlease \in {0, r} \/ ~Beating(mlease))
    \/ mlease = r /\ mlease' = 0
Framed(w, r) ==
    OtherRunsKept(r) /\ OtherWorkersKept(w) /\ LeaseMoves(r) /\ UNCHANGED <<taken, frail>>

\* A worker that takes a step has a run.
LEMMA StepHasRun ==
    ASSUME Typed, NEW w \in Workers, WorkerStep(w)
    PROVE  wk[w].pc \notin Away /\ wk[w].run \in Runs /\ wk[w] \in WorkerStates
<1>1. wk[w].pc \notin Away
  BY DEF WorkerStep, DStep, XStep, Request, Ask, Release, DBegin, DWork, DStage,
         DLeave, DFinish, XBegin, XLease, XBaseline, XExecute, XTrial, XPrepare,
         XAgent, XFinalize, XJudge, XRecover, XEvaluate, XScore, XCleanup, XFinish
<1> QED  BY <1>1 DEF Typed, WorkersTyped, WorkersBusy

\* The types of what a worker's step reads, spelled out.
LEMMA Facts ==
    ASSUME Typed
    PROVE  /\ run \in [Runs -> Rows] /\ wk \in [Workers -> WorkerStates]
           /\ art \in [Runs -> [Artifacts -> Values]] /\ prog \in [Runs -> Checkpoints]
           /\ hb \in [Executors -> Beats]
           /\ wlease \in [Runs -> Workers \cup {NoWorker}]
BY DEF Typed, RowsTyped, WorkersTyped, JournalTyped, BeatsTyped, RestTyped

\* Every step of a worker is framed by its run.
LEMMA StepFramed ==
    ASSUME Typed, NEW w \in Workers, WorkerStep(w), NEW r \in Runs, wk[w].run = r
    PROVE  Framed(w, r)
<1> USE Facts
<1>1. \A p : Transition(r, p) => \A q \in Runs \ {r} : run'[q] = run[q]
  BY DEF Transition
<1>2. \A s, b : RequestCleanup(r, s, b) => \A q \in Runs \ {r} : run'[q] = run[q]
  BY DEF RequestCleanup
<1>3. \A v : FinishCleanup(r, v) => /\ \A q \in Runs \ {r} : run'[q] = run[q]
                                    /\ mlease' = mlease \/ (mlease = r /\ mlease' = 0)
  BY DEF FinishCleanup
<1>4. \A a, v : art' = [art EXCEPT ![r][a] = v] => \A q \in Runs \ {r} : art'[q] = art[q]
  OBVIOUS
<1>5. \A p : Advance(w, r, p) => \A q \in Runs \ {r} : run'[q] = run[q]
  BY <1>1 DEF Advance
<1>6. OtherRunsKept(r)
  <2>1. CASE Request(w) \/ Release(w)
    BY <2>1 DEF Request, Release, OtherRunsKept
  <2>2. CASE Ask(w)
    BY <1>2, <2>2 DEF Ask, OtherRunsKept
  <2>3. CASE DStep(w)
    <3>1. CASE DBegin(w)
      BY <3>1 DEF DBegin, OtherRunsKept
    <3>2. CASE DStage(w)
      <4>1. \A q \in Runs \ {r} : run'[q] = run[q]
        BY <1>5, <3>2 DEF DStage
      <4>2. \A q \in Runs \ {r} : art'[q] = art[q]
        BY <1>4, <3>2 DEF DStage
      <4> QED  BY <3>2, <4>1, <4>2 DEF DStage, OtherRunsKept
    <3>3. CASE DLeave(w)
      BY <1>1, <3>3 DEF DLeave, OtherRunsKept
    <3>4. CASE DFinish(w)
      BY <1>3, <3>4 DEF DFinish, OtherRunsKept
    <3>5. CASE \E a \in {"snapshot", "bundle"} : DWork(w, a)
      BY <1>4, <3>5 DEF DWork, OtherRunsKept
    <3> QED  BY <2>3, <3>1, <3>2, <3>3, <3>4, <3>5 DEF DStep
  <2>4. CASE XStep(w)
    <3>1. CASE XBegin(w) \/ XLease(w) \/ XPrepare(w) \/ XScore(w)
      BY <3>1 DEF XBegin, XLease, XPrepare, XScore, OtherRunsKept
    <3>2. CASE XBaseline(w)
      <4>1. \A q \in Runs \ {r} : run'[q] = run[q]
        BY <1>5, <3>2 DEF XBaseline
      <4>2. \A q \in Runs \ {r} : art'[q] = art[q]
        BY <1>4, <3>2 DEF XBaseline
      <4> QED  BY <3>2, <4>1, <4>2 DEF XBaseline, OtherRunsKept
    <3>3. CASE XExecute(w)
      BY <1>5, <3>3 DEF XExecute, OtherRunsKept
    <3>4. CASE XTrial(w)
      BY <3>4 DEF XTrial, OtherRunsKept
    <3>5. CASE XAgent(w) \/ XFinalize(w)
      BY <3>5 DEF XAgent, XFinalize, OtherRunsKept
    <3>6. CASE XJudge(w)
      BY <3>6 DEF XJudge, OtherRunsKept
    <3>7. CASE XRecover(w)
      <4>1. \A q \in Runs \ {r} : run'[q] = run[q]
        BY <1>5, <3>7 DEF XRecover
      <4>2. \A q \in Runs \ {r} : art'[q] = art[q]
        BY <1>4, <3>7 DEF XRecover
      <4> QED  BY <3>7, <4>1, <4>2 DEF XRecover, OtherRunsKept
    <3>8. CASE XEvaluate(w)
      <4>1. \A q \in Runs \ {r} : run'[q] = run[q]
        BY <1>5, <3>8 DEF XEvaluate
      <4>2. \A q \in Runs \ {r} : art'[q] = art[q]
        BY <1>4, <3>8 DEF XEvaluate
      <4> QED  BY <3>8, <4>1, <4>2 DEF XEvaluate, OtherRunsKept
    <3>9. CASE XCleanup(w)
      BY <1>4, <3>9 DEF XCleanup, OtherRunsKept
    <3>10. CASE XFinish(w)
      BY <1>3, <3>10 DEF XFinish, OtherRunsKept
    <3> QED  BY <2>4, <3>1, <3>2, <3>3, <3>4, <3>5, <3>6, <3>7, <3>8, <3>9, <3>10 DEF XStep
  <2> QED  BY <2>1, <2>2, <2>3, <2>4 DEF WorkerStep
<1>7. \A v \in Workers \ {w} : wk'[v] = wk[v]
  <2>1. CASE Release(w)
    BY <2>1 DEF Release
  <2>2. CASE XTrial(w)
    BY <2>2, MoveEffects DEF XTrial
  <2>3. CASE DStep(w)
    <3>1. CASE DStage(w)
      BY <3>1, MoveEffects DEF DStage, Advance
    <3>2. CASE ~DStage(w)
      BY <2>3, <3>2, MoveEffects DEF DStep, DBegin, DLeave, DFinish, DWork
    <3> QED  BY <3>1, <3>2
  <2>4. CASE XBegin(w) \/ XLease(w) \/ XBaseline(w) \/ XExecute(w) \/ XPrepare(w)
    BY <2>4, MoveEffects DEF XBegin, XLease, XBaseline, XExecute, XPrepare, Advance
  <2>5. CASE XAgent(w) \/ XFinalize(w) \/ XJudge(w)
    BY <2>5, MoveEffects DEF XAgent, XFinalize, XJudge
  <2>6. CASE XRecover(w) \/ XEvaluate(w) \/ XScore(w) \/ XCleanup(w) \/ XFinish(w)
    BY <2>6, MoveEffects DEF XRecover, XEvaluate, XScore, XCleanup, XFinish, Advance
  <2>7. CASE Request(w) \/ Ask(w)
    BY <2>7, MoveEffects DEF Request, Ask
  <2> QED  BY <2>1, <2>2, <2>3, <2>4, <2>5, <2>6, <2>7 DEF WorkerStep, XStep
<1>8. /\ \A v \in Executors \ {w} : hb'[v] = hb[v]
      /\ \A q \in Runs : wlease'[q] = wlease[q] \/ wlease[q] = w
  <2>1. CASE Release(w)
    BY <2>1 DEF Release
  <2>2. CASE ~Release(w)
    BY <2>2 DEF WorkerStep, DStep, XStep, Request, Ask, DBegin, DWork, DStage,
       DLeave, DFinish, XBegin, XLease, XBaseline, XExecute, XTrial, XPrepare,
       XAgent, XFinalize, XJudge, XRecover, XEvaluate, XScore, XCleanup, XFinish
  <2> QED  BY <2>1, <2>2
<1>9. LeaseMoves(r) /\ UNCHANGED <<taken, frail>>
  <2>1. CASE XLease(w)
    BY <2>1 DEF XLease, MutationFree, LeaseMoves
  <2>2. CASE DFinish(w) \/ XFinish(w)
    BY <1>3, <2>2 DEF DFinish, XFinish, LeaseMoves
  <2>3. CASE ~XLease(w) /\ ~DFinish(w) /\ ~XFinish(w)
    BY <2>3 DEF LeaseMoves, WorkerStep, DStep, XStep, Request, Ask, Release, DBegin, DWork,
       DStage, DLeave, XBegin, XBaseline, XExecute, XTrial, XPrepare,
       XAgent, XFinalize, XJudge, XRecover, XEvaluate, XScore, XCleanup
  <2> QED  BY <2>1, <2>2, <2>3
<1> QED  BY <1>6, <1>7, <1>8, <1>9 DEF Framed, OtherWorkersKept

\* What a run never loses.
Later(r) ==
    /\ run[r].phase # "NONE" => run'[r].phase # "NONE" /\ run'[r].kind = run[r].kind
    /\ run[r].phase \notin Early => run'[r].phase \notin Early
    /\ run[r].phase \in ExecutionPhases \cup {"CLEANING_UP"}
           => run'[r].phase \in ExecutionPhases \cup {"CLEANING_UP"}
    /\ run[r].phase = "CLEANING_UP" => run'[r].phase = "CLEANING_UP"
    /\ \A a \in {"locked", "baseline", "recovery", "execution", "evaluation"} :
           art[r][a] = "good" => art'[r][a] = "good"

\* Whatever a run has earned stays earned.
LEMMA EarnedForGood ==
    ASSUME NEW r \in Runs, Later(r), run[r].phase # "NONE"
    PROVE  /\ Started(r) => Started(r)'
           /\ Based(r) => Based(r)'
           /\ Recovered(r) => Recovered(r)'
           /\ Earned(r) => Earned(r)'
           /\ \A p : Reached(r, p) => Reached(r, p)'
<1>1. /\ run'[r].kind = run[r].kind
      /\ \A a \in {"locked", "baseline", "recovery", "execution", "evaluation"} :
             art[r][a] = "good" => art'[r][a] = "good"
  BY DEF Later
<1>2. Started(r) => Started(r)'
  BY <1>1 DEF Started
<1>3. Based(r) => Based(r)'
  BY <1>1, <1>2 DEF Based
<1>4. Recovered(r) => Recovered(r)'
  BY <1>1, <1>3 DEF Recovered
<1>5. Earned(r) => Earned(r)'
  BY <1>1, <1>4 DEF Earned, Passed
<1> QED  BY <1>2, <1>3, <1>4, <1>5 DEF Reached

\* Two workers on a run: it was taken from one of them.
LEMMA TwoMeansTaken ==
    ASSUME WorkersOK, NEW w \in Workers, NEW v \in Workers, w # v, NEW r \in Runs,
           wk[w].pc \notin Away, wk[v].pc \notin Away, wk[w].run = r, wk[v].run = r
    PROVE  r \in taken
BY DEF WorkersOK, WorkerOK, LeaseOK

\* Another run's worker loses nothing by a step on r.
LEMMA OtherRunsWorker ==
    ASSUME IInv, NEW w \in Workers, NEW r \in Runs, Framed(w, r),
           NEW v \in Workers \ {w}, NEW q \in Runs \ {r}, wk[v].run = q, WorkerOK(v, q)
    PROVE  WorkerOK(v, q)'
<1>1. /\ run'[q] = run[q] /\ art'[q] = art[q] /\ prog'[q] = prog[q]
      /\ q \in fault' <=> q \in fault
      /\ wk'[v] = wk[v] /\ (v \in Executors => hb'[v] = hb[v])
      /\ UNCHANGED <<taken, frail>> /\ (wlease'[q] = wlease[q] \/ wlease[q] = w)
      /\ LeaseMoves(r)
  BY DEF Framed, OtherRunsKept, OtherWorkersKept
<1>2. LeaseOK(v, q)'
  <2>1. ASSUME v \in Executors, wk[v].pc \in Active, q \notin taken \cup frail, mlease = q
        PROVE  mlease' = q
    <3>1. Beating(q)
      BY <2>1 DEF WorkerOK, LeaseOK, Beating
    <3> QED  BY <1>1, <2>1, <3>1 DEF LeaseMoves
  <2> QED  BY <1>1, <2>1 DEF WorkerOK, LeaseOK, Executing, InTrials
<1>3. TrialsOK(v, q)'
  BY <1>1 DEF WorkerOK, TrialsOK, Executing, InTrials
<1>4. CleanOK(v, q)'
  BY <1>1 DEF WorkerOK, CleanOK
<1>5. EarnOK(v, q)'
  BY <1>1 DEF WorkerOK, EarnOK, InTrials, Reached, Recovered, Based, Started, Earned, Passed
<1> QED  BY <1>2, <1>3, <1>4, <1>5 DEF WorkerOK

\* A step on r of someone else than its worker v: what v may rely on is what the run never
\* loses, since the run is taken.
LEMMA SameRunsWorker ==
    ASSUME IInv, NEW w \in Workers, NEW r \in Runs, Framed(w, r), Later(r), r \in taken,
           NEW v \in Workers \ {w}, wk[v].run = r, WorkerOK(v, r),
           v \in Executors /\ wk[v].pc \in TrialPcs => prog'[r] = prog[r]
    PROVE  WorkerOK(v, r)'
<1>1. wk'[v] = wk[v] /\ r \in taken'
  BY DEF Framed, OtherWorkersKept
<1>2. run[r].phase # "NONE"
  BY DEF WorkerOK, LeaseOK
<1>3. LeaseOK(v, r)'
  BY <1>1, <1>2 DEF Later, LeaseOK
<1>4. TrialsOK(v, r)'
  BY <1>1 DEF Later, WorkerOK, TrialsOK, Executing, InTrials
<1>5. CleanOK(v, r)'
  BY <1>1 DEF Later, WorkerOK, CleanOK
<1>6. EarnOK(v, r)'
  BY <1>1, <1>2, EarnedForGood DEF Later, WorkerOK, EarnOK, InTrials
<1> QED  BY <1>3, <1>4, <1>5, <1>6 DEF WorkerOK

\* The parts of a step put together.
LEMMA Composes ==
    ASSUME IInv, NEW w \in Workers, NEW r \in Runs, wk[w].pc \notin Away, wk[w].run = r,
           Framed(w, r), Later(r), RunOK(r)',
           wk'[w].pc \notin Away => wk'[w].run = r /\ WorkerOK(w, r)',
           \A v \in Executors \ {w} : wk[v].pc \in TrialPcs /\ wk[v].run = r =>
               prog'[r] = prog[r] /\ (w \in Executors => wk'[w].pc \notin TrialPcs)
    PROVE  RunsOK' /\ WorkersOK' /\ OneTicket'
<1>1. ASSUME NEW q \in Runs \ {r} PROVE RunOK(q)'
  <2>1. /\ run'[q] = run[q] /\ art'[q] = art[q] /\ prog'[q] = prog[q]
        /\ q \in fault' <=> q \in fault
        /\ UNCHANGED <<taken, frail>>
    BY DEF Framed, OtherRunsKept
  <2>2. RunOK(q)
    BY DEF IInv, RunsOK
  <2>3. RowOK(q)' /\ FreshOK(q)' /\ TicketOK(q)'
    BY <2>1, <2>2 DEF RunOK, RowOK, FreshOK, TicketOK
  <2>4. JournalOK(q)'
    BY <2>1, <2>2 DEF RunOK, JournalOK, Reached, Recovered, Based, Started, Earned, Passed
  <2> QED  BY <2>3, <2>4 DEF RunOK
<1>2. ASSUME NEW v \in Workers, NEW q \in Runs, wk'[v].pc \notin Away, wk'[v].run = q
      PROVE  WorkerOK(v, q)'
  <2>1. CASE v = w
    BY <1>2, <2>1
  <2>2. CASE v # w
    <3>1. wk'[v] = wk[v] /\ wk[v].pc \notin Away /\ wk[v].run = q
      BY <1>2, <2>2 DEF Framed, OtherWorkersKept
    <3>2. WorkerOK(v, q)
      BY <3>1 DEF IInv, WorkersOK
    <3>3. CASE q # r
      <4>1. v \in Workers \ {w} /\ q \in Runs \ {r}
        BY <2>2, <3>3
      <4> QED  BY <3>1, <3>2, <4>1, OtherRunsWorker
    <3>4. CASE q = r
      <4>1. r \in taken
        BY <2>2, <3>1, <3>4, TwoMeansTaken DEF IInv
      <4>2. v \in Executors /\ wk[v].pc \in TrialPcs => prog'[r] = prog[r]
        BY <2>2, <3>1, <3>4
      <4> QED  BY <2>2, <3>1, <3>2, <3>4, <4>1, <4>2, SameRunsWorker
    <3> QED  BY <3>3, <3>4
  <2> QED  BY <2>1, <2>2
<1>3. ASSUME NEW u \in Executors, NEW v \in Executors, u # v, wk'[u].pc \in TrialPcs,
             wk'[v].pc \in TrialPcs, wk'[u].run = wk'[v].run
      PROVE  FALSE
  <2>1. \A x \in Executors \ {w} : wk'[x] = wk[x]
    BY DEF Framed, OtherWorkersKept, Workers
  <2>2. wk'[w].pc \in TrialPcs => wk'[w].run = r
    BY DEF TrialPcs
  <2>3. CASE u # w /\ v # w
    BY <1>3, <2>1, <2>3 DEF IInv, OneTicket
  <2>4. CASE u = w \/ v = w
    BY <1>3, <2>1, <2>2, <2>4
  <2> QED  BY <2>3, <2>4
<1>4. RunsOK'
  BY <1>1 DEF RunsOK
<1>5. WorkersOK'
  BY <1>2 DEF WorkersOK
<1> QED  BY <1>3, <1>4, <1>5 DEF OneTicket
----------------------------------------------------------------------------
(***************************************************************************)
(* The steps of a worker, one lemma per action.                            *)
(***************************************************************************)
\* The conclusion of every lemma on a step.
StepOK == RunsOK' /\ WorkersOK' /\ OneTicket'

\* A step that leaves the checkpoint of the progression alone and opens no trial.
LEMMA StepConcludes ==
    ASSUME IInv, NEW w \in Workers, WorkerStep(w), NEW r \in Runs, wk[w].run = r,
           Later(r), RunOK(r)', wk'[w].pc \notin Away => wk'[w].run = r /\ WorkerOK(w, r)',
           prog' = prog, wk'[w].pc \in TrialPcs => wk[w].pc \in TrialPcs
    PROVE  StepOK
<1>1. wk[w].pc \notin Away /\ Framed(w, r)
  BY StepHasRun, StepFramed DEF IInv
<1>2. ASSUME NEW v \in Executors \ {w}, wk[v].pc \in TrialPcs, wk[v].run = r, w \in Executors
      PROVE  wk'[w].pc \notin TrialPcs
  BY <1>2 DEF IInv, OneTicket
<1> QED  BY <1>1, <1>2, Composes DEF StepOK

\* What is known of the worker that takes a step, and of its run.
LEMMA StepKnows ==
    ASSUME IInv, NEW w \in Workers, WorkerStep(w), NEW r \in Runs, wk[w].run = r
    PROVE  /\ RunOK(r) /\ WorkerOK(w, r) /\ run[r].phase # "NONE"
           /\ run[r] \in Rows /\ art[r] \in [Artifacts -> Values] /\ prog[r] \in Checkpoints
           /\ wk[w] \in WorkerStates /\ Typed
<1>1. wk[w].pc \notin Away /\ Typed
  BY StepHasRun DEF IInv
<1>2. RunOK(r) /\ WorkerOK(w, r)
  BY <1>1 DEF IInv, RunsOK, WorkersOK
<1> QED  BY <1>1, <1>2, Facts DEF WorkerOK, LeaseOK

\* A run that no step touches.
LEMMA QuietRun ==
    ASSUME NEW r \in Runs, RunOK(r), UNCHANGED <<run, art, prog, fault, taken, frail>>
    PROVE  Later(r) /\ RunOK(r)'
<1>1. Later(r)
  BY DEF Later
<1>2. RowOK(r)' /\ FreshOK(r)' /\ TicketOK(r)'
  BY DEF RunOK, RowOK, FreshOK, TicketOK
<1>3. JournalOK(r)'
  BY DEF RunOK, JournalOK, Reached, Recovered, Based, Started, Earned, Passed
<1> QED  BY <1>1, <1>2, <1>3 DEF RunOK

\* A worker on its way out of the run.
LEMMA WindsUp ==
    ASSUME NEW w \in Workers, NEW r \in Runs, WorkerOK(w, r), Later(r),
           wk'[w].pc \in {"request", "ask", "cleanup", "finish", "release", "raise"},
           wk'[w].pc \in {"cleanup", "finish"} => run'[r].phase = "CLEANING_UP",
           wk'[w].pc \in {"request", "ask"} /\ wk'[w].want = "COMPLETED" => Earned(r)',
           r \in fault' => r \in fault, UNCHANGED <<taken, wlease>>
    PROVE  WorkerOK(w, r)'
<1>1. wk'[w].pc \notin Active /\ ~InTrials(w)' /\ ~Executing(w)'
  BY DEF Active, TrialPcs, InTrials, Executing
<1>2. LeaseOK(w, r)'
  BY <1>1 DEF WorkerOK, LeaseOK, Later
<1>3. TrialsOK(w, r)'
  BY <1>1 DEF TrialsOK, TrialPcs
<1>4. CleanOK(w, r)'
  BY <1>1 DEF WorkerOK, CleanOK
<1>5. EarnOK(w, r)'
  BY <1>1 DEF EarnOK
<1> QED  BY <1>2, <1>3, <1>4, <1>5 DEF WorkerOK

\* advance and finish_cleanup on the row of the run.
LEMMA RowEffects ==
    ASSUME NEW r \in Runs, run \in [Runs -> Rows]
    PROVE  /\ \A p : Transition(r, p) =>
                  /\ run'[r].phase = p /\ run'[r].kind = run[r].kind
                  /\ run'[r].term = run[r].term /\ run'[r].desired = run[r].desired
           /\ \A s, b : RequestCleanup(r, s, b) =>
                  \/ run' = run /\ (run[r].term # "none" \/ CleanupConflict(r, s))
                  \/ /\ run[r].term = "none" /\ ~CleanupConflict(r, s)
                     /\ run'[r].phase = "CLEANING_UP" /\ run'[r].kind = run[r].kind
                     /\ run'[r].term = run[r].term /\ run'[r].desired = s
           /\ \A v : FinishCleanup(r, v) =>
                  \/ run' = run
                  \/ /\ run[r].term = "none" /\ run'[r].phase = run[r].phase
                     /\ run'[r].kind = run[r].kind /\ run'[r].desired = run[r].desired
                     /\ run'[r].term = IF v THEN run[r].desired ELSE "RESET_FAILED"
<1>1. run[r] \in Rows
  OBVIOUS
<1>2. \A p : Transition(r, p) =>
          /\ run'[r].phase = p /\ run'[r].kind = run[r].kind
          /\ run'[r].term = run[r].term /\ run'[r].desired = run[r].desired
  BY <1>1 DEF Transition, Rows
<1>3. \A s, b : RequestCleanup(r, s, b) =>
          \/ run' = run /\ (run[r].term # "none" \/ CleanupConflict(r, s))
          \/ /\ run[r].term = "none" /\ ~CleanupConflict(r, s)
             /\ run'[r].phase = "CLEANING_UP" /\ run'[r].kind = run[r].kind
             /\ run'[r].term = run[r].term /\ run'[r].desired = s
  BY <1>1 DEF RequestCleanup, Rows
<1>4. \A v : FinishCleanup(r, v) =>
          \/ run' = run
          \/ /\ run[r].term = "none" /\ run'[r].phase = run[r].phase
             /\ run'[r].kind = run[r].kind /\ run'[r].desired = run[r].desired
             /\ run'[r].term = IF v THEN run[r].desired ELSE "RESET_FAILED"
  BY <1>1 DEF FinishCleanup, Rows
<1> QED  BY <1>2, <1>3, <1>4

\* Request: the worker turns to the cleanup only of a run in cleanup.
LEMMA RequestStep ==
    ASSUME IInv, NEW w \in Workers, Request(w), NEW r \in Runs, wk[w].run = r
    PROVE  StepOK
<1>1. WorkerStep(w)
  BY DEF WorkerStep
<1>2. /\ wk[w].pc = "request"
      /\ UNCHANGED <<run, art, prog, fault, taken, frail, wlease>>
      /\ \/ Turn(w, "release")
         \/ run[r].phase = "CLEANING_UP" /\ Turn(w, "cleanup")
         \/ Goto(w, "ask")
  BY DEF Request
<1>3. RunOK(r) /\ WorkerOK(w, r) /\ Typed
  BY <1>1, StepKnows
<1>4. Later(r) /\ RunOK(r)'
  BY <1>2, <1>3, QuietRun
<1>5. /\ wk'[w].run = r
      /\ \/ wk'[w].pc = "release"
         \/ run[r].phase = "CLEANING_UP" /\ wk'[w].pc = "cleanup"
         \/ wk'[w].pc = "ask" /\ wk'[w].want = wk[w].want
  BY <1>2, <1>3, MoveEffects
<1>6. wk'[w].pc = "ask" /\ wk'[w].want = "COMPLETED" => Earned(r)'
  BY <1>2, <1>3, <1>5 DEF WorkerOK, EarnOK, Earned, Passed, Recovered, Based, Started
<1>7. WorkerOK(w, r)'
  BY <1>2, <1>3, <1>4, <1>5, <1>6, WindsUp
<1>8. wk'[w].pc \notin TrialPcs
  BY <1>5 DEF TrialPcs
<1> QED  BY <1>1, <1>2, <1>4, <1>5, <1>7, <1>8, StepConcludes

\* A run that is put into cleanup.
LEMMA IntoCleanup ==
    ASSUME NEW r \in Runs, RunOK(r), UNCHANGED <<art, prog, fault, taken, frail>>,
           run[r].phase # "NONE",
           run'[r].phase = "CLEANING_UP", run'[r].kind = run[r].kind,
           run'[r].term = run[r].term, run'[r].desired = "COMPLETED" => Earned(r)
    PROVE  Later(r) /\ RunOK(r)'
<1>0. "CLEANING_UP" \notin Early \cup {"NONE", "AWAITING_APPROVAL"} \cup ExecutionPhases \cup Late
  BY DEF Early, DiscoveryPhases, ExecutionPhases, Late
<1>1. Later(r)
  BY <1>0 DEF Later
<1>2. RowOK(r)' /\ FreshOK(r)' /\ TicketOK(r)'
  BY <1>0 DEF RunOK, RowOK, FreshOK, TicketOK
<1>3. Earned(r) => Earned(r)'
  BY <1>1, EarnedForGood
<1>4. Reached(r, run[r].phase)'
  BY <1>0 DEF Reached, Late
<1>5. JournalOK(r)'
  BY <1>3, <1>4 DEF RunOK, JournalOK
<1> QED  BY <1>1, <1>2, <1>5 DEF RunOK

\* A run that is advanced to a phase whose checkpoints it has.
LEMMA Advances ==
    ASSUME NEW r \in Runs, RunOK(r), UNCHANGED <<art, prog, fault, taken, frail>>,
           run \in [Runs -> Rows], NEW p, MayAdvance(r, p), Transition(r, p), Reached(r, p)
    PROVE  Later(r) /\ RunOK(r)' /\ run'[r].phase = p /\ run'[r].term = "none"
<1>1. /\ run'[r].phase = p /\ run'[r].kind = run[r].kind
      /\ run'[r].term = run[r].term /\ run'[r].desired = run[r].desired
  BY RowEffects
<1>2. p \in Allowed(run[r].phase) /\ run[r].term = "none" /\ run[r].phase # "NONE"
  BY DEF MayAdvance, Open
<1>3. /\ run[r].phase # "CLEANING_UP" /\ p # "NONE"
      /\ run[r].phase \notin Early => p \notin Early
      /\ p \in Early => run[r].phase \in Early
      /\ run[r].phase \in ExecutionPhases => p \in ExecutionPhases
  BY <1>2 DEF Allowed, Early, DiscoveryPhases, ExecutionPhases
<1>4. Later(r)
  BY <1>1, <1>3 DEF Later
<1>5. RowOK(r)' /\ FreshOK(r)' /\ TicketOK(r)'
  BY <1>1, <1>2, <1>3 DEF RunOK, RowOK, FreshOK, TicketOK
<1>6. Earned(r) => Earned(r)'
  BY <1>2, <1>4, EarnedForGood
<1>7. Reached(r, p)'
  BY <1>2, <1>4, EarnedForGood
<1>8. Reached(r, run[r].phase)'
  BY <1>1, <1>7 DEF Reached, Recovered, Based, Started
<1>9. JournalOK(r)'
  BY <1>1, <1>3, <1>6, <1>8 DEF RunOK, JournalOK
<1> QED  BY <1>1, <1>2, <1>4, <1>5, <1>9 DEF RunOK

\* A worker that gives up, or asks for an end that the run has earned.
LEMMA GivesUp ==
    ASSUME IInv, NEW w \in Workers, WorkerStep(w), NEW r \in Runs, wk[w].run = r,
           UNCHANGED <<run, art, prog, fault, taken, frail, wlease>>,
           \/ Fail(w) \/ Turn(w, "release")
           \/ \E s \in Terminals : End(w, s) /\ (s = "COMPLETED" => Earned(r))
    PROVE  StepOK
<1>1. RunOK(r) /\ WorkerOK(w, r) /\ Typed
  BY StepKnows
<1>2. Later(r) /\ RunOK(r)'
  BY <1>1, QuietRun
<1>3. /\ wk'[w].run = r /\ wk'[w].pc \in {"request", "release"}
      /\ wk'[w].pc = "request" /\ wk'[w].want = "COMPLETED" => Earned(r)
  BY <1>1, MoveEffects
<1>4. Earned(r) => Earned(r)'
  BY DEF Earned, Passed, Recovered, Based, Started
<1>5. WorkerOK(w, r)'
  BY <1>1, <1>2, <1>3, <1>4, WindsUp
<1>6. wk'[w].pc \notin TrialPcs
  BY <1>3 DEF TrialPcs
<1> QED  BY <1>2, <1>3, <1>5, <1>6, StepConcludes

\* Ask: a run that ends otherwise, or is being ended otherwise, stays as it is.
LEMMA AskStep ==
    ASSUME IInv, NEW w \in Workers, Ask(w), NEW r \in Runs, wk[w].run = r
    PROVE  StepOK
<1>1. WorkerStep(w)
  BY DEF WorkerStep
<1> DEFINE s == wk[w].want
<1>2. /\ wk[w].pc = "ask" /\ RequestCleanup(r, s, FALSE)
      /\ UNCHANGED <<art, prog, fault, taken, frail, wlease>>
      /\ \/ ~CleanupConflict(r, s) /\ Turn(w, "cleanup")
         \/ CleanupConflict(r, s) /\ (Turn(w, "raise") \/ Fail(w))
  BY DEF Ask
<1>3. /\ RunOK(r) /\ WorkerOK(w, r) /\ Typed /\ run[r].phase # "NONE"
      /\ run \in [Runs -> Rows]
  BY <1>1, StepKnows, Facts
<1>4. s = "COMPLETED" => Earned(r)
  BY <1>2, <1>3 DEF WorkerOK, EarnOK
<1> HIDE DEF s
<1>5. \/ run' = run /\ (run[r].term # "none" \/ CleanupConflict(r, s))
      \/ /\ run[r].term = "none" /\ ~CleanupConflict(r, s)
         /\ run'[r].phase = "CLEANING_UP" /\ run'[r].kind = run[r].kind
         /\ run'[r].term = run[r].term /\ run'[r].desired = s
  BY <1>2, <1>3, RowEffects
<1>6. Later(r) /\ RunOK(r)'
  <2>1. CASE run' = run
    BY <1>2, <1>3, <2>1, QuietRun
  <2>2. CASE run' # run
    BY <1>2, <1>3, <1>4, <1>5, <2>2, IntoCleanup
  <2> QED  BY <2>1, <2>2
<1>7. /\ wk'[w].run = r /\ wk'[w].pc \in {"cleanup", "raise", "request"}
      /\ wk'[w].pc = "cleanup" => ~CleanupConflict(r, s)
      /\ wk'[w].pc = "request" => wk'[w].want = "FAILED"
  BY <1>2, <1>3, MoveEffects
<1>8. wk'[w].pc = "cleanup" => run'[r].phase = "CLEANING_UP"
  BY <1>3, <1>5, <1>7 DEF RunOK, RowOK
<1>9. WorkerOK(w, r)'
  BY <1>2, <1>3, <1>6, <1>7, <1>8, WindsUp
<1>10. wk'[w].pc \notin TrialPcs
  BY <1>7 DEF TrialPcs
<1> QED  BY <1>1, <1>2, <1>6, <1>7, <1>9, <1>10, StepConcludes

\* Release.
LEMMA ReleaseStep ==
    ASSUME IInv, NEW w \in Workers, Release(w), NEW r \in Runs, wk[w].run = r
    PROVE  StepOK
<1>1. WorkerStep(w)
  BY DEF WorkerStep
<1>2. /\ UNCHANGED <<run, art, prog, fault, taken, frail>>
      /\ \/ wk' = [wk EXCEPT ![w] = IdleWorker]
         \/ wk' = [wk EXCEPT ![w] = ExitedWorker]
  BY DEF Release
<1>3. RunOK(r) /\ wk \in [Workers -> WorkerStates]
  BY <1>1, StepKnows, Facts
<1>4. Later(r) /\ RunOK(r)'
  BY <1>2, <1>3, QuietRun
<1>5. wk'[w].pc \in Away /\ wk'[w].pc \notin TrialPcs
  BY <1>2, <1>3 DEF IdleWorker, ExitedWorker, Worker, TrialPcs
<1> QED  BY <1>1, <1>2, <1>4, <1>5, StepConcludes

\* DBegin.
LEMMA DBeginStep ==
    ASSUME IInv, NEW w \in Workers, DBegin(w), NEW r \in Runs, wk[w].run = r
    PROVE  StepOK
<1>1. WorkerStep(w)
  BY DEF WorkerStep, DStep
<1>2. /\ UNCHANGED <<run, art, prog, fault, taken, frail, wlease>> /\ w \in Discoverers
      /\ Turn(w, "release") \/ Fail(w) \/ Proceed(w, run[r].phase)
  BY DEF DBegin
<1>3. CASE Turn(w, "release") \/ Fail(w)
  BY <1>1, <1>2, <1>3, GivesUp
<1>4. CASE Proceed(w, run[r].phase)
  <2>1. RunOK(r) /\ WorkerOK(w, r) /\ Typed
    BY <1>1, StepKnows
  <2>2. Later(r) /\ RunOK(r)'
    BY <1>2, <2>1, QuietRun
  <2>3. wk'[w].run = r /\ wk'[w].pc = "stage" /\ w \notin Executors /\ wk'[w].pc \notin TrialPcs
    BY <1>2, <1>4, <2>1, MoveEffects DEF TrialPcs
  <2>4. WorkerOK(w, r)'
    BY <1>2, <2>1, <2>3 DEF WorkerOK, LeaseOK, TrialsOK, CleanOK, EarnOK
  <2> QED  BY <1>1, <1>2, <2>2, <2>3, <2>4, StepConcludes
<1> QED  BY <1>2, <1>3, <1>4

\* One artifact of the run is written.
LEMMA ArtEffects ==
    ASSUME NEW r \in Runs, NEW a \in Artifacts, NEW v,
           art \in [Runs -> [Artifacts -> Values]], art' = [art EXCEPT ![r][a] = v]
    PROVE  art'[r][a] = v /\ \A b \in Artifacts \ {a} : art'[r][b] = art[r][b]
OBVIOUS

\* The artifacts of the discovery take nothing from the run.
LEMMA DiscoveryArt ==
    ASSUME NEW r \in Runs, RunOK(r), UNCHANGED <<run, prog, fault, taken, frail>>,
           NEW a \in {"snapshot", "bundle", "locked"}, NEW v, a = "locked" => v = "good",
           art \in [Runs -> [Artifacts -> Values]], art' = [art EXCEPT ![r][a] = v]
    PROVE  Later(r) /\ RunOK(r)' /\ (a = "locked" => art'[r]["locked"] = "good")
<1>1. /\ art'[r][a] = v /\ a \in Artifacts
      /\ \A b \in Artifacts \ {a} : art'[r][b] = art[r][b]
  <2>1. a \in Artifacts
    BY DEF Artifacts
  <2> QED  BY <2>1, ArtEffects
<1>2. /\ \A b \in {"baseline", "execution", "recovery", "evaluation", "cleanup"} :
             art'[r][b] = art[r][b]
      /\ art[r]["locked"] = "good" => art'[r]["locked"] = "good"
  BY <1>1 DEF Artifacts
<1>3. Later(r)
  BY <1>2 DEF Later
<1>4. RowOK(r)' /\ TicketOK(r)'
  BY <1>2 DEF RunOK, RowOK, TicketOK
<1>5. FreshOK(r)'
  BY <1>2 DEF RunOK, FreshOK
<1>6. JournalOK(r)'
  BY <1>2 DEF RunOK, JournalOK, Reached, Recovered, Based, Started, Earned, Passed
<1> QED  BY <1>1, <1>3, <1>4, <1>5, <1>6 DEF RunOK

\* A discoverer that goes on, or asks for an end.
LEMMA Discovers ==
    ASSUME IInv, NEW w \in Workers, WorkerStep(w), NEW r \in Runs, wk[w].run = r,
           w \in Discoverers, Later(r), RunOK(r)', prog' = prog, wk'[w].run = r,
           wk'[w].pc \in {"stage", "leave", "request", "release"},
           wk'[w].pc = "leave" => Started(r)',
           wk'[w].pc = "request" => wk'[w].want # "COMPLETED",
           UNCHANGED <<fault, taken, wlease>>
    PROVE  StepOK
<1>1. WorkerOK(w, r) /\ w \notin Executors /\ wk'[w].pc \notin TrialPcs
  BY StepKnows DEF TrialPcs
<1>2. WorkerOK(w, r)'
  BY <1>1 DEF WorkerOK, LeaseOK, TrialsOK, CleanOK, EarnOK, Later
<1> QED  BY <1>1, <1>2, StepConcludes

\* DWork.
LEMMA DWorkStep ==
    ASSUME IInv, NEW w \in Workers, NEW a \in {"snapshot", "bundle"}, DWork(w, a),
           NEW r \in Runs, wk[w].run = r
    PROVE  StepOK
<1>1. WorkerStep(w)
  BY DEF WorkerStep, DStep
<1>2. /\ UNCHANGED <<run, prog, fault, taken, frail, wlease>> /\ w \in Discoverers
      /\ wk[w].pc = "stage"
      /\ \/ (\E v : art' = [art EXCEPT ![r][a] = v]) /\ UNCHANGED wk
         \/ Fail(w) /\ UNCHANGED art
  BY DEF DWork
<1>3. CASE Fail(w) /\ UNCHANGED art
  BY <1>1, <1>2, <1>3, GivesUp
<1>4. CASE (\E v : art' = [art EXCEPT ![r][a] = v]) /\ UNCHANGED wk
  <2>1. PICK v : art' = [art EXCEPT ![r][a] = v]
    BY <1>4
  <2>2. RunOK(r) /\ art \in [Runs -> [Artifacts -> Values]]
    BY <1>1, StepKnows, Facts
  <2>3. Later(r) /\ RunOK(r)'
    BY <1>2, <2>1, <2>2, DiscoveryArt
  <2> QED  BY <1>1, <1>2, <1>4, <2>3, Discovers
<1> QED  BY <1>2, <1>3, <1>4

\* advance by a discoverer.
LEMMA DAdvances ==
    ASSUME IInv, NEW w \in Workers, WorkerStep(w), NEW r \in Runs, wk[w].run = r,
           w \in Discoverers, UNCHANGED <<art, prog, fault, taken, frail, wlease>>,
           NEW p \in DiscoveryPhases, Advance(w, r, p)
    PROVE  StepOK
<1>1. CASE ~MayAdvance(r, p)
  BY <1>1, GivesUp DEF Advance
<1>2. CASE MayAdvance(r, p)
  <2>1. Transition(r, p) /\ Proceed(w, p)
    BY <1>2 DEF Advance
  <2>2. RunOK(r) /\ run \in [Runs -> Rows] /\ Typed
    BY StepKnows, Facts
  <2>3. Reached(r, p)
    BY DEF Reached, DiscoveryPhases, ExecutionPhases, Late
  <2>4. Later(r) /\ RunOK(r)'
    BY <1>2, <2>1, <2>2, <2>3, Advances
  <2>5. wk'[w].run = r /\ wk'[w].pc = "stage"
    BY <2>1, <2>2, MoveEffects
  <2> QED  BY <2>4, <2>5, Discovers
<1> QED  BY <1>1, <1>2

\* DStage: only a dry run completes here, and only a locked plan lets a run leave.
LEMMA DStageStep ==
    ASSUME IInv, NEW w \in Workers, DStage(w), NEW r \in Runs, wk[w].run = r
    PROVE  StepOK
<1>1. WorkerStep(w)
  BY DEF WorkerStep, DStep
<1>2. UNCHANGED <<prog, fault, taken, frail, wlease>> /\ w \in Discoverers
  BY DEF DStage
<1>3. \/ UNCHANGED art /\ \E p \in DiscoveryPhases : Advance(w, r, p)
      \/ /\ UNCHANGED <<run, art>>
         /\ \E s \in Terminals : End(w, s) /\ (s = "COMPLETED" => run[r].kind = "dry")
      \/ /\ UNCHANGED run /\ run[r].kind # "dry"
         /\ \/ UNCHANGED art /\ End(w, "CASE_INVALID")
            \/ /\ art' = [art EXCEPT ![r]["locked"] = "good"]
               /\ Goto(w, "leave") \/ End(w, "CASE_INVALID")
  BY DEF DStage, DiscoveryPhases, Terminals
<1>4. CASE UNCHANGED art /\ \E p \in DiscoveryPhases : Advance(w, r, p)
  BY <1>1, <1>2, <1>4, DAdvances
<1>5. CASE /\ UNCHANGED <<run, art>>
           /\ \E s \in Terminals : End(w, s) /\ (s = "COMPLETED" => run[r].kind = "dry")
  BY <1>1, <1>2, <1>5, GivesUp DEF Earned
<1>6. CASE UNCHANGED <<run, art>> /\ End(w, "CASE_INVALID")
  BY <1>1, <1>2, <1>6, GivesUp DEF Terminals
<1>7. CASE /\ UNCHANGED run /\ run[r].kind # "dry"
           /\ art' = [art EXCEPT ![r]["locked"] = "good"]
           /\ Goto(w, "leave") \/ End(w, "CASE_INVALID")
  <2>1. RunOK(r) /\ art \in [Runs -> [Artifacts -> Values]] /\ Typed
    BY <1>1, StepKnows, Facts
  <2>2. Later(r) /\ RunOK(r)' /\ art'[r]["locked"] = "good"
    BY <1>2, <1>7, <2>1, DiscoveryArt
  <2>3. Started(r)'
    BY <1>7, <2>2 DEF Started
  <2>4. /\ wk'[w].run = r /\ wk'[w].pc \in {"leave", "request"}
        /\ wk'[w].pc = "request" => wk'[w].want = "CASE_INVALID"
    BY <1>7, <2>1, MoveEffects
  <2> QED  BY <1>1, <1>2, <2>2, <2>3, <2>4, Discovers
<1> QED  BY <1>3, <1>4, <1>5, <1>6, <1>7

\* DLeave.
LEMMA DLeaveStep ==
    ASSUME IInv, NEW w \in Workers, DLeave(w), NEW r \in Runs, wk[w].run = r
    PROVE  StepOK
<1>1. WorkerStep(w)
  BY DEF WorkerStep, DStep
<1>2. /\ UNCHANGED <<art, prog, fault, taken, frail, wlease>> /\ w \in Discoverers
      /\ wk[w].pc = "leave"
      /\ \/ Fail(w) /\ UNCHANGED run
         \/ \E p \in {"BASELINING", "AWAITING_APPROVAL"} :
                MayAdvance(r, p) /\ Transition(r, p) /\ Turn(w, "release")
  BY DEF DLeave
<1>3. CASE Fail(w) /\ UNCHANGED run
  BY <1>1, <1>2, <1>3, GivesUp
<1>4. ASSUME NEW p \in {"BASELINING", "AWAITING_APPROVAL"}, MayAdvance(r, p),
             Transition(r, p), Turn(w, "release")
      PROVE  StepOK
  <2>1. RunOK(r) /\ WorkerOK(w, r) /\ run \in [Runs -> Rows] /\ Typed
    BY <1>1, StepKnows, Facts
  <2>2. Reached(r, p)
    BY <1>2, <2>1 DEF WorkerOK, EarnOK, Reached, Late
  <2>3. Later(r) /\ RunOK(r)'
    BY <1>2, <1>4, <2>1, <2>2, Advances
  <2>4. wk'[w].run = r /\ wk'[w].pc = "release"
    BY <1>4, <2>1, MoveEffects
  <2> QED  BY <1>1, <1>2, <2>3, <2>4, Discovers
<1> QED  BY <1>2, <1>3, <1>4

\* finish_cleanup ends the run as it was asked to, or with RESET_FAILED.
LEMMA Finishes ==
    ASSUME IInv, NEW w \in Workers, WorkerStep(w), NEW r \in Runs, wk[w].run = r,
           UNCHANGED <<art, prog, fault, taken, frail, wlease>>,
           wk[w].pc \in {"cleanup", "finish"}, NEW v \in BOOLEAN, FinishCleanup(r, v),
           v /\ r \notin taken => r \notin fault, Turn(w, "release")
    PROVE  StepOK
<1>1. RunOK(r) /\ WorkerOK(w, r) /\ run \in [Runs -> Rows] /\ Typed
  BY StepKnows, Facts
<1>2. \/ run' = run
      \/ /\ run[r].term = "none" /\ run'[r].phase = run[r].phase
         /\ run'[r].kind = run[r].kind /\ run'[r].desired = run[r].desired
         /\ run'[r].term = IF v THEN run[r].desired ELSE "RESET_FAILED"
  BY <1>1, RowEffects
<1>3. run[r].phase = "CLEANING_UP"
  BY <1>1 DEF WorkerOK, CleanOK
<1>4. Later(r) /\ RunOK(r)'
  <2>1. CASE run' = run
    BY <1>1, <2>1, QuietRun
  <2>2. CASE run' # run
    <3>1. Later(r)
      BY <1>2, <2>2 DEF Later
    <3>2. RowOK(r)' /\ FreshOK(r)' /\ TicketOK(r)'
      BY <1>1, <1>2, <1>3, <2>2 DEF RunOK, RowOK, FreshOK, TicketOK
    <3>3. Earned(r) => Earned(r)'
      BY <1>3, <3>1, EarnedForGood
    <3>4. Reached(r, run[r].phase)'
      BY <1>2, <1>3, <2>2 DEF Reached, Late, ExecutionPhases
    <3>5. JournalOK(r)'
      BY <1>1, <1>2, <1>3, <2>2, <3>3, <3>4 DEF RunOK, JournalOK
    <3> QED  BY <3>1, <3>2, <3>5 DEF RunOK
  <2> QED  BY <2>1, <2>2
<1>5. wk'[w].run = r /\ wk'[w].pc = "release" /\ wk'[w].pc \notin TrialPcs
  BY <1>1, MoveEffects DEF TrialPcs
<1>6. WorkerOK(w, r)'
  BY <1>1, <1>4, <1>5, WindsUp
<1> QED  BY <1>4, <1>5, <1>6, StepConcludes

\* DFinish: a discoverer's run has no fault, unless it was taken.
LEMMA DFinishStep ==
    ASSUME IInv, NEW w \in Workers, DFinish(w), NEW r \in Runs, wk[w].run = r
    PROVE  StepOK
<1>1. WorkerStep(w)
  BY DEF WorkerStep, DStep
<1>2. r \notin taken => r \notin fault
  BY <1>1, StepKnows DEF DFinish, WorkerOK, CleanOK
<1> QED  BY <1>1, <1>2, Finishes DEF DFinish

\* An executor that goes on with its run.
LEMMA GoesOn ==
    ASSUME NEW w \in Executors, NEW r \in Runs, WorkerOK(w, r), Later(r),
           wk[w].pc \in Active, wk'[w].pc \in Active \ {"begin", "leave"},
           UNCHANGED <<hb, wlease, taken, frail>>, mlease' \in {mlease, r},
           r \notin taken => run'[r].term = "none" /\ art'[r]["cleanup"] = "none",
           r \notin taken \cup frail /\ (Executing(w)' \/ wk'[w].pc = "baseline")
               => mlease' = r,
           TrialsOK(w, r)', EarnOK(w, r)'
    PROVE  WorkerOK(w, r)'
<1>1. LeaseOK(w, r)'
  BY DEF WorkerOK, LeaseOK, Later
<1>2. CleanOK(w, r)'
  BY DEF WorkerOK, CleanOK, Active, TrialPcs
<1> QED  BY <1>1, <1>2 DEF WorkerOK

\* An artifact that was missing is written.
LEMMA FirstWrite ==
    ASSUME NEW r \in Runs, NEW a \in Artifacts, NEW v,
           art \in [Runs -> [Artifacts -> Values]], art' = [art EXCEPT ![r][a] = v],
           art[r][a] = "none", UNCHANGED run
    PROVE  Later(r)
<1>1. art'[r][a] = v /\ \A b \in Artifacts \ {a} : art'[r][b] = art[r][b]
  BY ArtEffects
<1>2. \A b \in {"locked", "baseline", "recovery", "execution", "evaluation"} :
          art[r][b] = "good" => art'[r][b] = "good"
  BY <1>1 DEF Artifacts
<1> QED  BY <1>2 DEF Later

\* advance by an executor that is between the stages of the run.
LEMMA XAdvances ==
    ASSUME IInv, NEW w \in Workers, WorkerStep(w), NEW r \in Runs, wk[w].run = r,
           w \in Executors, wk[w].pc \in {"stage", "baseline"},
           UNCHANGED <<art, prog, fault, taken, frail, wlease, mlease, hb>>,
           NEW p \in Late, Advance(w, r, p), Reached(r, p),
           p = "EXECUTING" => wk[w].pc = "baseline"
    PROVE  StepOK
<1>1. CASE ~MayAdvance(r, p)
  BY <1>1, GivesUp DEF Advance
<1>2. CASE MayAdvance(r, p)
  <2>1. Transition(r, p) /\ Proceed(w, p)
    BY <1>2 DEF Advance
  <2>2. /\ RunOK(r) /\ WorkerOK(w, r) /\ run \in [Runs -> Rows] /\ Typed
        /\ run[r].phase # "NONE"
    BY StepKnows, Facts
  <2>3. Later(r) /\ RunOK(r)' /\ run'[r].phase = p /\ run'[r].term = "none"
    BY <1>2, <2>1, <2>2, Advances
  <2>4. /\ wk'[w].run = r /\ wk'[w].pc = "stage" /\ wk'[w].phase = p
    BY <2>1, <2>2, MoveEffects
  <2>5. p \notin Early /\ p \in ExecutionPhases /\ p # "BASELINING"
    BY DEF Late, Early, DiscoveryPhases, ExecutionPhases
  <2>6. Reached(r, p)'
    BY <2>2, <2>3, EarnedForGood
  <2>7. EarnOK(w, r)'
    <3>1. Reached(r, wk[w].phase)'
      BY <2>4, <2>6 DEF Reached, Recovered, Based, Started
    <3> QED  BY <2>4, <2>5, <3>1 DEF EarnOK, InTrials, TrialPcs
  <2>8. TrialsOK(w, r)'
    <3>1. p = "EXECUTING" => run[r].phase \in Early
      BY <1>2 DEF MayAdvance, Allowed, Early
    <3>2. p = "EXECUTING" => art[r]["execution"] = "none"
      BY <2>2, <3>1 DEF RunOK, FreshOK
    <3> QED  BY <2>3, <2>4, <2>5, <3>2 DEF TrialsOK, Executing, InTrials, TrialPcs
  <2>9. r \notin taken => art[r]["cleanup"] = "none"
    BY <2>2 DEF WorkerOK, CleanOK, Active
  <2>10. r \notin taken \cup frail /\ Executing(w)' => mlease = r
    BY <2>2, <2>4 DEF WorkerOK, LeaseOK, Active, Executing, InTrials, TrialPcs
  <2>11. WorkerOK(w, r)'
    BY <2>2, <2>3, <2>4, <2>7, <2>8, <2>9, <2>10, GoesOn DEF Active
  <2>12. wk'[w].pc \notin TrialPcs
    BY <2>4 DEF TrialPcs
  <2> QED  BY <2>3, <2>4, <2>11, <2>12, StepConcludes
<1> QED  BY <1>1, <1>2

\* XBegin: a run that is resumed while it is EXECUTING is frail.
LEMMA XBeginStep ==
    ASSUME IInv, NEW w \in Workers, XBegin(w), NEW r \in Runs, wk[w].run = r
    PROVE  StepOK
<1>1. WorkerStep(w)
  BY DEF WorkerStep, XStep
<1>2. /\ UNCHANGED <<run, art, prog, fault, taken, frail, wlease, mlease, hb>>
      /\ w \in Executors /\ wk[w].pc = "begin"
      /\ \/ Turn(w, "release")
         \/ run[r].phase = "CLEANING_UP" /\ Turn(w, "cleanup")
         \/ /\ run[r].term = "none" /\ run[r].phase # "CLEANING_UP"
            /\ Proceed(w, run[r].phase)
  BY DEF XBegin
<1>3. RunOK(r) /\ WorkerOK(w, r) /\ Typed
  BY <1>1, StepKnows
<1>4. Later(r) /\ RunOK(r)'
  BY <1>2, <1>3, QuietRun
<1>5. CASE Turn(w, "release")
  BY <1>1, <1>2, <1>5, GivesUp
<1>6. CASE run[r].phase = "CLEANING_UP" /\ Turn(w, "cleanup")
  <2>1. wk'[w].run = r /\ wk'[w].pc = "cleanup" /\ wk'[w].pc \notin TrialPcs
    BY <1>3, <1>6, MoveEffects DEF TrialPcs
  <2>2. WorkerOK(w, r)'
    BY <1>2, <1>3, <1>4, <1>6, <2>1, WindsUp
  <2> QED  BY <1>1, <1>2, <1>4, <2>1, <2>2, StepConcludes
<1>7. CASE /\ run[r].term = "none" /\ run[r].phase # "CLEANING_UP"
           /\ Proceed(w, run[r].phase)
  <2> DEFINE p == run[r].phase
  <2>1. /\ wk'[w].run = r /\ wk'[w].pc = "stage" /\ wk'[w].phase = p
        /\ wk'[w].pc \notin TrialPcs
    BY <1>3, <1>7, MoveEffects DEF TrialPcs
  <2>2. p \in ExecutionPhases /\ Reached(r, p)
    BY <1>2, <1>3, <1>7 DEF WorkerOK, EarnOK, RunOK, JournalOK
  <2>3. r \notin taken \cup frail => p # "EXECUTING"
    BY <1>2, <1>3 DEF WorkerOK, LeaseOK, Active
  <2>4. EarnOK(w, r)'
    BY <1>2, <2>1, <2>2 DEF EarnOK, InTrials, TrialPcs, Reached, Recovered, Based, Started
  <2>5. TrialsOK(w, r)'
    BY <1>2, <1>3, <2>1, <2>3 DEF WorkerOK, TrialsOK, Executing, InTrials, TrialPcs, Early,
       DiscoveryPhases
  <2>6. art[r]["cleanup"] = "none"
    BY <1>3, <1>7 DEF RunOK, RowOK
  <2>7. ~(r \notin taken \cup frail /\ (Executing(w)' \/ wk'[w].pc = "baseline"))
    BY <2>1, <2>3 DEF Executing, InTrials, TrialPcs
  <2>8. WorkerOK(w, r)'
    BY <1>2, <1>3, <1>4, <1>7, <2>1, <2>4, <2>5, <2>6, <2>7, GoesOn DEF Active
  <2> QED  BY <1>1, <1>2, <1>4, <2>1, <2>8, StepConcludes
<1> QED  BY <1>2, <1>5, <1>6, <1>7

\* XLease: the baseline is entered with the mutation lease.
LEMMA XLeaseStep ==
    ASSUME IInv, NEW w \in Workers, XLease(w), NEW r \in Runs, wk[w].run = r
    PROVE  StepOK
<1>1. WorkerStep(w)
  BY DEF WorkerStep, XStep
<1>2. /\ UNCHANGED <<run, art, prog, fault, taken, frail, wlease, hb>>
      /\ w \in Executors /\ wk[w].pc = "stage" /\ wk[w].phase = "BASELINING"
      /\ (mlease' = r /\ Goto(w, "baseline")) \/ Fail(w)
  BY DEF XLease
<1>3. CASE Fail(w)
  BY <1>1, <1>2, <1>3, GivesUp
<1>4. CASE mlease' = r /\ Goto(w, "baseline")
  <2>1. RunOK(r) /\ WorkerOK(w, r) /\ Typed
    BY <1>1, StepKnows
  <2>2. Later(r) /\ RunOK(r)'
    BY <1>2, <2>1, QuietRun
  <2>3. /\ wk'[w].run = r /\ wk'[w].pc = "baseline"
        /\ wk'[w].pc \notin TrialPcs
    BY <1>4, <2>1, MoveEffects DEF TrialPcs
  <2>4. Started(r)
    BY <1>2, <2>1 DEF WorkerOK, EarnOK, Reached, ExecutionPhases
  <2>5. EarnOK(w, r)'
    BY <1>2, <2>3, <2>4 DEF EarnOK, InTrials, TrialPcs, Started
  <2>6. TrialsOK(w, r)'
    BY <1>2, <2>1, <2>3 DEF WorkerOK, TrialsOK, Executing, InTrials, TrialPcs
  <2>7. r \notin taken => run[r].term = "none" /\ art[r]["cleanup"] = "none"
    BY <1>2, <2>1 DEF WorkerOK, CleanOK, Active
  <2>8. WorkerOK(w, r)'
    BY <1>2, <1>4, <2>1, <2>2, <2>3, <2>5, <2>6, <2>7, GoesOn DEF Active
  <2> QED  BY <1>1, <1>2, <2>2, <2>3, <2>8, StepConcludes
<1> QED  BY <1>2, <1>3, <1>4

\* XBaseline: the run is executed on the strength of a good baseline.
LEMMA XBaselineStep ==
    ASSUME IInv, NEW w \in Workers, XBaseline(w), NEW r \in Runs, wk[w].run = r
    PROVE  StepOK
<1>1. WorkerStep(w)
  BY DEF WorkerStep, XStep
<1>2. /\ UNCHANGED <<prog, fault, taken, frail, wlease, mlease, hb>>
      /\ w \in Executors /\ wk[w].pc = "baseline"
      /\ \/ /\ art[r]["baseline"] = "none" /\ UNCHANGED <<run, wk>>
            /\ \E v \in {"good", "bad"} : art' = [art EXCEPT ![r]["baseline"] = v]
         \/ Fail(w) /\ UNCHANGED <<run, art>>
         \/ End(w, "CASE_INVALID") /\ UNCHANGED <<run, art>>
         \/ /\ art[r]["baseline"] \notin {"none", "bad"}
            /\ Advance(w, r, "EXECUTING") /\ UNCHANGED art
  BY DEF XBaseline
<1>3. /\ RunOK(r) /\ WorkerOK(w, r) /\ art \in [Runs -> [Artifacts -> Values]]
      /\ art[r] \in [Artifacts -> Values] /\ run[r].phase # "NONE"
  BY <1>1, StepKnows, Facts
<1>4. CASE Fail(w) /\ UNCHANGED <<run, art>>
  BY <1>1, <1>2, <1>4, GivesUp
<1>5. CASE End(w, "CASE_INVALID") /\ UNCHANGED <<run, art>>
  BY <1>1, <1>2, <1>5, GivesUp DEF Terminals
<1>6. CASE /\ art[r]["baseline"] \notin {"none", "bad"}
           /\ Advance(w, r, "EXECUTING") /\ UNCHANGED art
  <2>1. art[r]["baseline"] = "good"
    BY <1>3, <1>6 DEF RunOK, JournalOK, Artifacts, Values
  <2>2. Reached(r, "EXECUTING")
    BY <1>2, <1>3, <2>1 DEF WorkerOK, EarnOK, Reached, Based
  <2> QED  BY <1>1, <1>2, <1>6, <2>2, XAdvances DEF Late
<1>7. CASE /\ art[r]["baseline"] = "none" /\ UNCHANGED <<run, wk>>
           /\ \E v \in {"good", "bad"} : art' = [art EXCEPT ![r]["baseline"] = v]
  <2>1. PICK v \in {"good", "bad"} : art' = [art EXCEPT ![r]["baseline"] = v]
    BY <1>7
  <2>2. /\ art'[r]["baseline"] = v
        /\ \A b \in {"locked", "execution", "recovery", "evaluation", "cleanup"} :
               art'[r][b] = art[r][b]
    BY <1>3, <2>1, ArtEffects DEF Artifacts
  <2>3. Later(r)
    BY <1>3, <1>7, <2>1, FirstWrite DEF Artifacts
  <2>4. RunOK(r)'
    <3>1. RowOK(r)' /\ FreshOK(r)' /\ TicketOK(r)'
      BY <1>2, <1>3, <1>7, <2>2 DEF RunOK, RowOK, FreshOK, TicketOK
    <3>2. Reached(r, run[r].phase)' /\ (Earned(r) => Earned(r)')
      BY <1>3, <1>7, <2>3, EarnedForGood DEF RunOK, JournalOK, Reached, Recovered, Based, Started
    <3>3. JournalOK(r)'
      BY <1>2, <1>3, <1>7, <2>2, <3>2 DEF RunOK, JournalOK
    <3> QED  BY <3>1, <3>3 DEF RunOK
  <2>5. EarnOK(w, r)'
    BY <1>2, <1>3, <1>7, <2>3, EarnedForGood DEF WorkerOK, EarnOK, InTrials, TrialPcs
  <2>6. TrialsOK(w, r)'
    BY <1>2, <1>3, <1>7 DEF WorkerOK, TrialsOK, Executing, InTrials, TrialPcs
  <2>7. r \notin taken => run[r].term = "none" /\ art'[r]["cleanup"] = "none"
    BY <1>2, <1>3, <2>2 DEF WorkerOK, CleanOK, Active
  <2>8. r \notin taken \cup frail => mlease = r
    BY <1>2, <1>3 DEF WorkerOK, LeaseOK, Active
  <2>9. WorkerOK(w, r)'
    BY <1>2, <1>3, <1>7, <2>3, <2>5, <2>6, <2>7, <2>8, GoesOn DEF Active
  <2> QED  BY <1>1, <1>2, <1>7, <2>3, <2>4, <2>9, StepConcludes
<1> QED  BY <1>2, <1>4, <1>5, <1>6, <1>7

\* XExecute.
LEMMA XExecuteStep ==
    ASSUME IInv, NEW w \in Workers, XExecute(w), NEW r \in Runs, wk[w].run = r
    PROVE  StepOK
<1>1. WorkerStep(w)
  BY DEF WorkerStep, XStep
<1>2. /\ UNCHANGED <<art, prog, fault, taken, frail, wlease, mlease, hb>>
      /\ w \in Executors /\ wk[w].pc = "stage" /\ wk[w].phase = "EXECUTING"
      /\ \/ Fail(w) /\ UNCHANGED run
         \/ art[r]["execution"] = "none" /\ Goto(w, "trial") /\ UNCHANGED run
         \/ Advance(w, r, "RECOVERING")
  BY DEF XExecute
<1>3. RunOK(r) /\ WorkerOK(w, r) /\ Typed /\ run[r].phase # "NONE"
  BY <1>1, StepKnows
<1>4. Based(r) /\ Started(r)
  BY <1>2, <1>3 DEF WorkerOK, EarnOK, Reached, Late, Based
<1>5. CASE Fail(w) /\ UNCHANGED run
  BY <1>1, <1>2, <1>5, GivesUp
<1>6. CASE Advance(w, r, "RECOVERING")
  <2>1. Reached(r, "RECOVERING")
    BY <1>4 DEF Reached
  <2> QED  BY <1>1, <1>2, <1>6, <2>1, XAdvances DEF Late
<1>7. CASE art[r]["execution"] = "none" /\ Goto(w, "trial") /\ UNCHANGED run
  <2>1. Later(r) /\ RunOK(r)'
    BY <1>2, <1>3, <1>7, QuietRun
  <2>2. /\ wk'[w].run = r /\ wk'[w].pc = "trial"
        /\ wk'[w].pc \notin TrialPcs
    BY <1>3, <1>7, MoveEffects DEF TrialPcs
  <2>3. EarnOK(w, r)'
    BY <1>2, <1>3, <1>4, <2>1, <2>2, EarnedForGood DEF EarnOK
  <2>4. Executing(w)
    BY <1>2 DEF Executing
  <2>5. TrialsOK(w, r)'
    BY <1>2, <1>3, <1>7, <2>2, <2>4 DEF WorkerOK, TrialsOK
  <2>6. r \notin taken => run[r].term = "none" /\ art[r]["cleanup"] = "none"
    BY <1>2, <1>3 DEF WorkerOK, CleanOK, Active
  <2>7. r \notin taken \cup frail => mlease = r
    BY <1>2, <1>3, <2>4 DEF WorkerOK, LeaseOK, Active
  <2>8. WorkerOK(w, r)'
    BY <1>2, <1>3, <1>7, <2>1, <2>2, <2>3, <2>5, <2>6, <2>7, GoesOn DEF Active
  <2> QED  BY <1>1, <1>2, <2>1, <2>2, <2>8, StepConcludes
<1> QED  BY <1>2, <1>5, <1>6, <1>7

\* What start_trial does to the checkpoint.
LEMMA StartTrialEffects ==
    ASSUME NEW p \in Checkpoints, p.status = "ACTIVE"
    PROVE  LET q == StartTrial(p) IN
           /\ q.level = p.level /\ q.verdict = p.verdict
           /\ Startable(p) => ~p.open /\ q.open /\ q.status = "ACTIVE"
           /\ ~Startable(p) => /\ q.open = p.open
                               /\ q = p \/ (q.status = "FAIL" /\ ~p.open)
BY DEF StartTrial, Startable, Checkpoints

\* XTrial: another worker's open trial is left alone.
LEMMA XTrialStep ==
    ASSUME IInv, NEW w \in Workers, XTrial(w), NEW r \in Runs, wk[w].run = r
    PROVE  StepOK
<1>1. WorkerStep(w)
  BY DEF WorkerStep, XStep
<1>2. /\ UNCHANGED <<run, fault, taken, frail, wlease, mlease, hb>>
      /\ w \in Executors /\ wk[w].pc = "trial"
  BY DEF XTrial
<1>3. /\ RunOK(r) /\ WorkerOK(w, r) /\ Typed /\ run[r].phase # "NONE"
      /\ prog \in [Runs -> Checkpoints] /\ prog[r] \in Checkpoints
      /\ art \in [Runs -> [Artifacts -> Values]] /\ art[r] \in [Artifacts -> Values]
      /\ wk \in [Workers -> WorkerStates]
  BY <1>1, StepKnows, Facts
<1>4. /\ Based(r) /\ InTrials(w) /\ Executing(w) /\ run[r].phase \notin Early
      /\ r \notin taken \cup frail =>
             art[r]["execution"] = "none" /\ mlease = r
      /\ r \notin taken => run[r].term = "none" /\ art[r]["cleanup"] = "none"
  BY <1>2, <1>3 DEF WorkerOK, EarnOK, TrialsOK, LeaseOK, CleanOK, InTrials, Executing, Active
<1>5. CASE prog[r].status # "ACTIVE"
  <2> DEFINE x == IF prog[r].status = "PASS" THEN "good" ELSE "bad"
  <2>1. /\ art' = [art EXCEPT ![r]["execution"] = x] /\ UNCHANGED prog
        /\ Proceed(w, "EXECUTING")
    BY <1>5 DEF XTrial
  <2>2. /\ art'[r]["execution"] = x
        /\ \A b \in {"locked", "baseline", "recovery", "evaluation", "cleanup"} :
               art'[r][b] = art[r][b]
    BY <1>3, <2>1, ArtEffects DEF Artifacts
  <2>3. art[r]["execution"] \in {"none", x}
    BY <1>3 DEF RunOK, JournalOK
  <2>4. Later(r)
    BY <1>2, <2>2, <2>3 DEF Later
  <2>6. RunOK(r)'
    <3>1. RowOK(r)' /\ TicketOK(r)'
      BY <1>2, <1>3, <2>1, <2>2 DEF RunOK, RowOK, TicketOK
    <3>2. FreshOK(r)'
      BY <1>2, <1>3, <1>4, <2>1 DEF RunOK, FreshOK
    <3>3. Reached(r, run[r].phase)' /\ (Earned(r) => Earned(r)')
      BY <1>2, <1>3, <2>4, EarnedForGood DEF RunOK, JournalOK, Reached, Recovered, Based, Started
    <3>4. art'[r]["evaluation"] # "none" => art'[r]["evaluation"] = x
      BY <1>3, <2>2, <2>3 DEF RunOK, JournalOK
    <3>5. JournalOK(r)'
      BY <1>2, <1>3, <1>5, <2>1, <2>2, <3>3, <3>4 DEF RunOK, JournalOK
    <3> QED  BY <3>1, <3>2, <3>5 DEF RunOK
  <2>7. /\ wk'[w].run = r /\ wk'[w].pc = "stage" /\ wk'[w].phase = "EXECUTING"
        /\ wk'[w].pc \notin TrialPcs
    BY <1>3, <2>1, MoveEffects DEF TrialPcs
  <2>8. EarnOK(w, r)'
    <3>1. Based(r)' /\ Started(r)'
      BY <1>3, <1>4, <2>4, EarnedForGood DEF Based
    <3> QED  BY <2>7, <3>1 DEF EarnOK, ExecutionPhases, Reached, InTrials, TrialPcs
  <2>9. TrialsOK(w, r)'
    BY <1>2, <1>4, <2>1, <2>7 DEF TrialsOK, Executing, InTrials, TrialPcs
  <2>10. WorkerOK(w, r)'
    BY <1>2, <1>3, <1>4, <2>2, <2>4, <2>7, <2>8, <2>9, GoesOn DEF Active
  <2> QED  BY <1>1, <2>1, <2>4, <2>6, <2>7, <2>10, StepConcludes
<1>6. CASE prog[r].status = "ACTIVE"
  <2>1. /\ prog' = [prog EXCEPT ![r] = StartTrial(prog[r])] /\ UNCHANGED art
        /\ Startable(prog[r]) => Goto(w, "prepare")
        /\ ~Startable(prog[r]) => Fail(w)
    BY <1>6 DEF XTrial
  <2> DEFINE p == prog[r]
             q == prog'[r]
  <2>2. q = StartTrial(p)
    BY <1>3, <2>1
  <2>3. /\ q.level = p.level /\ q.verdict = p.verdict
        /\ Startable(p) => ~p.open /\ q.open /\ q.status = "ACTIVE"
        /\ ~Startable(p) => /\ q.open = p.open
                            /\ q = p \/ (q.status = "FAIL" /\ ~p.open)
    BY <1>3, <1>6, <2>2, StartTrialEffects
  <2>4. Later(r)
    BY <1>2, <2>1 DEF Later
  <2>5. art[r]["execution"] = "none"
    BY <1>3, <1>6 DEF RunOK, JournalOK
  <2>6. RunOK(r)'
    <3>1. RowOK(r)'
      BY <1>2, <1>3, <2>1 DEF RunOK, RowOK
    <3>2. FreshOK(r)'
      BY <1>2, <1>4, <2>1, <2>5 DEF FreshOK
    <3>3. TicketOK(r)'
      BY <1>3, <1>6, <2>3 DEF RunOK, TicketOK
    <3>4. Reached(r, run[r].phase)' /\ (Earned(r) => Earned(r)')
      BY <1>2, <1>3, <2>4, EarnedForGood DEF RunOK, JournalOK, Reached, Recovered, Based, Started
    <3>5. JournalOK(r)'
      BY <1>2, <1>3, <2>1, <2>5, <3>4 DEF RunOK, JournalOK
    <3> QED  BY <3>1, <3>2, <3>3, <3>5 DEF RunOK
  <2>7. wk'[w].run = r /\ WorkerOK(w, r)' /\ (~Startable(p) => wk'[w].pc \notin TrialPcs)
    <3>1. CASE Startable(p)
      <4>1. /\ wk'[w].run = r /\ wk'[w].pc = "prepare"
        BY <1>3, <2>1, <3>1, MoveEffects
      <4>2. EarnOK(w, r)'
        BY <1>3, <1>4, <2>4, <4>1, EarnedForGood DEF EarnOK
      <4>3. TrialsOK(w, r)'
        BY <1>2, <1>4, <2>1, <2>3, <2>5, <3>1, <4>1 DEF TrialsOK
      <4>4. WorkerOK(w, r)'
        BY <1>2, <1>3, <1>4, <2>1, <2>4, <4>1, <4>2, <4>3, GoesOn DEF Active, TrialPcs
      <4> QED  BY <3>1, <4>1, <4>4
    <3>2. CASE ~Startable(p)
      <4>1. wk'[w].run = r /\ wk'[w].pc = "request" /\ wk'[w].want = "FAILED"
        BY <1>3, <2>1, <3>2, MoveEffects
      <4> QED  BY <1>2, <1>3, <2>4, <4>1, WindsUp DEF TrialPcs
    <3> QED  BY <3>1, <3>2
  <2>8. wk[w].pc \notin Away /\ Framed(w, r)
    BY <1>1, StepHasRun, StepFramed DEF IInv
  <2>9. ASSUME NEW v \in Executors \ {w}, wk[v].pc \in TrialPcs, wk[v].run = r
        PROVE  prog'[r] = prog[r] /\ wk'[w].pc \notin TrialPcs
    <3>1. WorkerOK(v, r)
      BY <2>9 DEF IInv, WorkersOK, Workers, TrialPcs
    <3>2. p.open
      BY <2>9, <3>1 DEF WorkerOK, TrialsOK
    <3> QED  BY <2>3, <2>7, <3>2
  <2> QED  BY <2>4, <2>6, <2>7, <2>8, <2>9, Composes DEF StepOK
<1> QED  BY <1>5, <1>6

\* Within a trial the fault may come and go: the run is neither ended nor cleaned up.
LEMMA TrialGoesOn ==
    ASSUME IInv, NEW w \in Workers, WorkerStep(w), NEW r \in Runs, wk[w].run = r,
           w \in Executors, wk[w].pc \in TrialPcs, \E pc \in TrialPcs : Goto(w, pc),
           UNCHANGED <<run, art, prog, taken, frail, wlease, mlease, hb>>
    PROVE  StepOK
<1>1. RunOK(r) /\ WorkerOK(w, r) /\ Typed /\ run[r].phase # "NONE"
  BY StepKnows
<1>2. wk'[w].run = r /\ wk'[w].pc \in TrialPcs
  BY <1>1, MoveEffects
<1>3. InTrials(w) /\ Executing(w) /\ InTrials(w)' /\ Executing(w)'
  BY <1>2 DEF InTrials, Executing
<1>4. wk[w].pc \in Active /\ wk[w].pc \notin {"begin", "stage", "baseline", "leave", "request", "ask"}
  BY DEF Active, TrialPcs
<1>5. wk'[w].pc \in Active /\ wk'[w].pc \notin {"begin", "stage", "baseline", "leave", "request", "ask"}
  BY <1>2 DEF Active, TrialPcs
<1>6. /\ Based(r) /\ run[r].kind # "dry" /\ run[r].phase \notin Early
      /\ r \notin taken => run[r].term = "none" /\ art[r]["cleanup"] = "none"
      /\ r \notin taken \cup frail => mlease = r
  BY <1>1, <1>3, <1>4 DEF WorkerOK, EarnOK, TrialsOK, CleanOK, LeaseOK, Based, Started
<1>7. Later(r)
  BY DEF Later
<1>8. RunOK(r)'
  <2>1. RowOK(r)' /\ FreshOK(r)' /\ TicketOK(r)'
    BY <1>1, <1>6 DEF RunOK, RowOK, FreshOK, TicketOK
  <2>2. JournalOK(r)'
    BY <1>1 DEF RunOK, JournalOK, Reached, Recovered, Based, Started, Earned, Passed
  <2> QED  BY <2>1, <2>2 DEF RunOK
<1>9. EarnOK(w, r)'
  BY <1>1, <1>5, <1>6, <1>7, EarnedForGood DEF EarnOK
<1>10. TrialsOK(w, r)'
  BY <1>1, <1>2, <1>3, <1>5 DEF WorkerOK, TrialsOK
<1>11. WorkerOK(w, r)'
  BY <1>1, <1>4, <1>5, <1>6, <1>7, <1>9, <1>10, GoesOn
<1> QED  BY <1>2, <1>7, <1>8, <1>11, StepConcludes

\* XPrepare, XAgent and XFinalize.
LEMMA XTrialStages ==
    ASSUME IInv, NEW w \in Workers, XPrepare(w) \/ XAgent(w) \/ XFinalize(w),
           NEW r \in Runs, wk[w].run = r
    PROVE  StepOK
<1>1. WorkerStep(w)
  BY DEF WorkerStep, XStep
<1>2. /\ UNCHANGED <<run, art, prog, taken, frail, wlease, mlease, hb>>
      /\ w \in Executors /\ wk[w].pc \in TrialPcs
  BY DEF XPrepare, XAgent, XFinalize, TrialPcs
<1>3. \/ \E pc \in TrialPcs : Goto(w, pc)
      \/ Fail(w) /\ UNCHANGED fault
  BY DEF XPrepare, XAgent, XFinalize, TrialPcs
<1>4. CASE \E pc \in TrialPcs : Goto(w, pc)
  BY <1>1, <1>2, <1>4, TrialGoesOn
<1>5. CASE Fail(w) /\ UNCHANGED fault
  BY <1>1, <1>2, <1>5, GivesUp
<1> QED  BY <1>3, <1>4, <1>5

\* What record_result does to the checkpoint: the trial is closed, and an Episode that
\* goes on after a failed level passes only if every level passed.
LEMMA RecordResultEffects ==
    ASSUME NEW p \in Checkpoints, NEW v \in Verdicts,
           \A l \in 1..Levels : l < p.level => p.verdict[l] \in {"PASS", "FAIL"}
    PROVE  LET q == RecordResult(p, v) IN
           /\ ~q.open
           /\ \A l \in 1..Levels : l < q.level => q.verdict[l] \in {"PASS", "FAIL"}
           /\ p.status = "ACTIVE" /\ q.status = "PASS" /\ ContinueAfterFailure =>
                  \A l \in 1..Levels : q.verdict[l] = "PASS"
<1> DEFINE q == RecordResult(p, v)
           m == [p EXCEPT !.open = FALSE, !.verdict[p.level] = v]
<1>1. p.level \in 1..Levels /\ p.verdict \in [1..Levels -> Verdicts \cup {"PENDING"}]
  BY DEF Checkpoints
<1>2. /\ m.open = FALSE /\ m.level = p.level /\ m.status = p.status
      /\ m.verdict[p.level] = v
      /\ \A l \in 1..Levels : l # p.level => m.verdict[l] = p.verdict[l]
      /\ DOMAIN m = DOMAIN p
  BY <1>1 DEF Checkpoints
<1>3. m \in Checkpoints
  <2>1. [p.verdict EXCEPT ![p.level] = v] \in [1..Levels -> Verdicts \cup {"PENDING"}]
    BY <1>1
  <2> QED  BY <2>1 DEF Checkpoints
<1>4. q = CASE v = "PASS" ->
                  IF HasNext(m) THEN NextLevel(m)
                  ELSE Finished(m, IF ContinueAfterFailure /\ SomeLevelFailed(m)
                                   THEN "FAIL" ELSE "PASS")
            [] v = "SKIP" -> Finished(m, "SKIP")
            [] OTHER ->
                  IF ~LevelExhausted(m) /\ ~TotalExhausted(m) THEN m
                  ELSE IF ContinueAfterFailure /\ HasNext(m) THEN NextLevel(m)
                  ELSE Finished(m, "FAIL")
  BY DEF RecordResult
<1> HIDE DEF q, m
<1>5. \A s : /\ Finished(m, s).open = FALSE
             /\ Finished(m, s).level = p.level /\ Finished(m, s).status = s
             /\ Finished(m, s).verdict = m.verdict
  BY <1>2, <1>3 DEF Finished, Checkpoints
<1>6. /\ NextLevel(m).open = FALSE
      /\ NextLevel(m).level = p.level + 1 /\ NextLevel(m).status = p.status
      /\ NextLevel(m).verdict = m.verdict
  BY <1>2, <1>3 DEF NextLevel, Checkpoints
<1>7. \A l \in 1..Levels : l < p.level => m.verdict[l] \in {"PASS", "FAIL"}
  <2>1. \A l \in 1..Levels : l < p.level => l # p.level
    BY <1>1
  <2> QED  BY <1>2, <2>1
<1>8. v \in {"PASS", "FAIL"} =>
          \A l \in 1..Levels : l < p.level + 1 => m.verdict[l] \in {"PASS", "FAIL"}
  BY <1>1, <1>2, <1>7
<1>9. \/ q = NextLevel(m) /\ v \in {"PASS", "FAIL"}
      \/ /\ q = Finished(m, "PASS") /\ v = "PASS" /\ ~HasNext(m)
         /\ ~(ContinueAfterFailure /\ SomeLevelFailed(m))
      \/ \E s \in {"FAIL", "SKIP"} : q = Finished(m, s)
      \/ q = m
  BY <1>4 DEF Verdicts
<1>10. q.open = FALSE
  BY <1>2, <1>5, <1>6, <1>9
<1>11. \A l \in 1..Levels : l < q.level => q.verdict[l] \in {"PASS", "FAIL"}
  BY <1>2, <1>5, <1>6, <1>7, <1>8, <1>9
<1>12. ASSUME p.status = "ACTIVE", q.status = "PASS", ContinueAfterFailure
       PROVE  \A l \in 1..Levels : q.verdict[l] = "PASS"
  <2>1. q = Finished(m, "PASS") /\ v = "PASS" /\ ~HasNext(m) /\ ~SomeLevelFailed(m)
    BY <1>2, <1>5, <1>6, <1>9, <1>12
  <2>2. p.level = Levels
    BY <1>1, <1>2, <2>1 DEF HasNext
  <2>3. \A l \in 1..Levels : m.verdict[l] \in {"PASS", "FAIL"}
    BY <1>1, <1>2, <1>7, <2>1, <2>2
  <2> QED  BY <1>5, <2>1, <2>3 DEF SomeLevelFailed
<1> QED  BY <1>10, <1>11, <1>12 DEF q

\* XJudge: the open trial is this worker's, and nobody else's.
LEMMA XJudgeStep ==
    ASSUME IInv, NEW w \in Workers, XJudge(w), NEW r \in Runs, wk[w].run = r
    PROVE  StepOK
<1>1. WorkerStep(w)
  BY DEF WorkerStep, XStep
<1>2. /\ UNCHANGED <<run, art, fault, taken, frail, wlease, mlease, hb>>
      /\ w \in Executors /\ wk[w].pc \in TrialPcs
      /\ \/ /\ \E v \in Verdicts : prog' = [prog EXCEPT ![r] = RecordResult(@, v)]
            /\ Goto(w, "trial")
         \/ Fail(w) /\ UNCHANGED prog
  BY DEF XJudge, TrialPcs, Verdicts
<1>3. /\ RunOK(r) /\ WorkerOK(w, r) /\ Typed /\ run[r].phase # "NONE"
      /\ prog \in [Runs -> Checkpoints] /\ prog[r] \in Checkpoints
  BY <1>1, StepKnows, Facts
<1>4. CASE Fail(w) /\ UNCHANGED prog
  BY <1>1, <1>2, <1>4, GivesUp
<1>5. ASSUME NEW v \in Verdicts, prog' = [prog EXCEPT ![r] = RecordResult(@, v)],
             Goto(w, "trial")
      PROVE  StepOK
  <2>1. InTrials(w) /\ Executing(w) /\ wk[w].pc \in Active
    BY <1>2 DEF InTrials, Executing, Active
  <2>2. /\ Based(r) /\ run[r].phase \notin Early /\ prog[r].status = "ACTIVE"
        /\ r \notin taken \cup frail =>
               art[r]["execution"] = "none" /\ mlease = r
        /\ r \notin taken => run[r].term = "none" /\ art[r]["cleanup"] = "none"
    BY <1>2, <1>3, <2>1 DEF WorkerOK, EarnOK, TrialsOK, LeaseOK, CleanOK, TrialPcs
  <2> DEFINE q == prog'[r]
  <2>3. q = RecordResult(prog[r], v)
    BY <1>3, <1>5
  <2>4. /\ ~q.open
        /\ \A l \in 1..Levels : l < q.level => q.verdict[l] \in {"PASS", "FAIL"}
        /\ q.status = "PASS" /\ ContinueAfterFailure =>
               \A l \in 1..Levels : q.verdict[l] = "PASS"
    <3> DEFINE p == prog[r]
    <3>1. /\ p \in Checkpoints /\ p.status = "ACTIVE"
          /\ \A l \in 1..Levels : l < p.level => p.verdict[l] \in {"PASS", "FAIL"}
      BY <1>3, <2>2 DEF RunOK, TicketOK
    <3>2. q = RecordResult(p, v)
      BY <2>3
    <3> HIDE DEF p, q
    <3> QED  BY <3>1, <3>2, RecordResultEffects DEF p
  <2> HIDE DEF q
  <2>5. art[r]["execution"] = "none"
    BY <1>3, <2>2 DEF RunOK, JournalOK
  <2>6. Later(r)
    BY <1>2 DEF Later
  <2>7. RunOK(r)'
    <3>1. RowOK(r)'
      BY <1>2, <1>3 DEF RunOK, RowOK
    <3>2. FreshOK(r)'
      BY <1>2, <2>2, <2>5 DEF FreshOK
    <3>3. TicketOK(r)'
      BY <2>4 DEF TicketOK, q
    <3>4. Reached(r, run[r].phase)' /\ (Earned(r) => Earned(r)')
      BY <1>2, <1>3, <2>6, EarnedForGood DEF RunOK, JournalOK, Reached, Recovered, Based, Started
    <3>5. JournalOK(r)'
      BY <1>2, <1>3, <2>5, <3>4 DEF RunOK, JournalOK
    <3> QED  BY <3>1, <3>2, <3>3, <3>5 DEF RunOK
  <2>8. /\ wk'[w].run = r /\ wk'[w].pc = "trial"
        /\ wk'[w].pc \notin TrialPcs
    BY <1>3, <1>5, MoveEffects DEF TrialPcs
  <2>9. EarnOK(w, r)'
    BY <1>3, <2>2, <2>6, <2>8, EarnedForGood DEF EarnOK
  <2>10. TrialsOK(w, r)'
    BY <1>2, <2>2, <2>4, <2>5, <2>8 DEF TrialsOK, q
  <2>11. WorkerOK(w, r)'
    BY <1>2, <1>3, <2>1, <2>2, <2>6, <2>8, <2>9, <2>10, GoesOn DEF Active
  <2>12. wk[w].pc \notin Away /\ Framed(w, r)
    BY <1>1, StepHasRun, StepFramed DEF IInv
  <2>13. ASSUME NEW u \in Executors \ {w}, wk[u].pc \in TrialPcs, wk[u].run = r
         PROVE  FALSE
    BY <1>2, <2>13 DEF IInv, OneTicket
  <2> QED  BY <2>6, <2>7, <2>8, <2>11, <2>12, <2>13, Composes DEF StepOK
<1> QED  BY <1>2, <1>4, <1>5

\* A checkpoint of a stage after the trials is written.
LEMMA XWrites ==
    ASSUME IInv, NEW w \in Workers, WorkerStep(w), NEW r \in Runs, wk[w].run = r,
           w \in Executors, wk[w].pc = "stage", wk[w].phase \in {"RECOVERING", "EVALUATING"},
           UNCHANGED <<run, wk, prog, fault, taken, frail, wlease, mlease, hb>>,
           NEW a \in {"recovery", "evaluation"}, NEW v, art[r][a] = "none",
           art' = [art EXCEPT ![r][a] = v], a = "recovery" => v # "thin",
           a = "evaluation" => v = art[r]["execution"]
    PROVE  StepOK
<1>1. /\ RunOK(r) /\ WorkerOK(w, r) /\ art \in [Runs -> [Artifacts -> Values]]
      /\ run[r].phase # "NONE"
  BY StepKnows, Facts
<1>2. /\ art'[r][a] = v /\ a \in Artifacts
      /\ \A b \in Artifacts \ {a} : art'[r][b] = art[r][b]
  BY <1>1, ArtEffects DEF Artifacts
<1>3. /\ \A b \in {"locked", "baseline", "execution", "cleanup"} : art'[r][b] = art[r][b]
      /\ art'[r]["recovery"] = art[r]["recovery"] \/ (a = "recovery" /\ art'[r]["recovery"] = v)
      /\ \/ art'[r]["evaluation"] = art[r]["evaluation"]
         \/ a = "evaluation" /\ art'[r]["evaluation"] = v
  BY <1>2 DEF Artifacts
<1>4. Later(r)
  BY <1>1, <1>2, FirstWrite
<1>5. RunOK(r)'
  <2>1. RowOK(r)' /\ FreshOK(r)' /\ TicketOK(r)'
    BY <1>1, <1>3 DEF RunOK, RowOK, FreshOK, TicketOK
  <2>2. Reached(r, run[r].phase)' /\ (Earned(r) => Earned(r)')
    BY <1>1, <1>4, EarnedForGood DEF RunOK, JournalOK, Reached, Recovered, Based, Started
  <2>3. /\ art'[r]["baseline"] # "thin" /\ art'[r]["recovery"] # "thin"
        /\ art'[r]["evaluation"] # "none" => art'[r]["evaluation"] = art'[r]["execution"]
    BY <1>1, <1>3 DEF RunOK, JournalOK
  <2>4. JournalOK(r)'
    BY <1>1, <1>3, <2>2, <2>3 DEF RunOK, JournalOK
  <2> QED  BY <2>1, <2>4 DEF RunOK
<1>6. EarnOK(w, r)'
  <2>1. Reached(r, wk[w].phase)' /\ wk[w].phase \in ExecutionPhases
    BY <1>1, <1>4, EarnedForGood DEF WorkerOK, EarnOK, Reached, Recovered, Based, Started
  <2> QED  BY <2>1 DEF EarnOK, InTrials, TrialPcs
<1>7. TrialsOK(w, r)'
  BY DEF TrialsOK, Executing, InTrials, TrialPcs
<1>8. r \notin taken => run[r].term = "none" /\ art'[r]["cleanup"] = "none"
  BY <1>1, <1>3 DEF WorkerOK, CleanOK, Active
<1>9. ~Executing(w)' /\ wk'[w].pc = "stage"
  BY DEF Executing, InTrials, TrialPcs
<1>10. WorkerOK(w, r)'
  BY <1>1, <1>4, <1>6, <1>7, <1>8, <1>9, GoesOn DEF Active
<1> QED  BY <1>4, <1>5, <1>9, <1>10, StepConcludes

\* XRecover: the run is evaluated only after a good recovery.
LEMMA XRecoverStep ==
    ASSUME IInv, NEW w \in Workers, XRecover(w), NEW r \in Runs, wk[w].run = r
    PROVE  StepOK
<1>1. WorkerStep(w)
  BY DEF WorkerStep, XStep
<1>2. /\ UNCHANGED <<prog, fault, taken, frail, wlease, mlease, hb>>
      /\ w \in Executors /\ wk[w].pc = "stage" /\ wk[w].phase = "RECOVERING"
      /\ \/ Fail(w) /\ UNCHANGED <<run, art>>
         \/ /\ art[r]["recovery"] = "none" /\ UNCHANGED <<run, wk>>
            /\ \E v \in {"good", "bad"} : art' = [art EXCEPT ![r]["recovery"] = v]
         \/ End(w, "RESET_FAILED") /\ UNCHANGED <<run, art>>
         \/ /\ art[r]["recovery"] \notin {"none", "bad"}
            /\ Advance(w, r, "EVALUATING") /\ UNCHANGED art
  BY DEF XRecover
<1>3. RunOK(r) /\ WorkerOK(w, r) /\ art[r] \in [Artifacts -> Values]
  BY <1>1, StepKnows
<1>4. CASE Fail(w) /\ UNCHANGED <<run, art>>
  BY <1>1, <1>2, <1>4, GivesUp
<1>5. CASE End(w, "RESET_FAILED") /\ UNCHANGED <<run, art>>
  BY <1>1, <1>2, <1>5, GivesUp DEF Terminals
<1>6. CASE /\ art[r]["recovery"] \notin {"none", "bad"}
           /\ Advance(w, r, "EVALUATING") /\ UNCHANGED art
  <2>1. art[r]["recovery"] = "good"
    BY <1>3, <1>6 DEF RunOK, JournalOK, Artifacts, Values
  <2>2. Reached(r, "EVALUATING")
    BY <1>2, <1>3, <2>1 DEF WorkerOK, EarnOK, Reached, Recovered, Based, Late
  <2> QED  BY <1>1, <1>2, <1>6, <2>2, XAdvances DEF Late
<1>7. CASE /\ art[r]["recovery"] = "none" /\ UNCHANGED <<run, wk>>
           /\ \E v \in {"good", "bad"} : art' = [art EXCEPT ![r]["recovery"] = v]
  BY <1>1, <1>2, <1>7, XWrites
<1> QED  BY <1>2, <1>4, <1>5, <1>6, <1>7

\* XEvaluate.
LEMMA XEvaluateStep ==
    ASSUME IInv, NEW w \in Workers, XEvaluate(w), NEW r \in Runs, wk[w].run = r
    PROVE  StepOK
<1>1. WorkerStep(w)
  BY DEF WorkerStep, XStep
<1>2. /\ UNCHANGED <<prog, fault, taken, frail, wlease, mlease, hb>>
      /\ w \in Executors /\ wk[w].pc = "stage" /\ wk[w].phase = "EVALUATING"
      /\ \/ Fail(w) /\ UNCHANGED <<run, art>>
         \/ /\ art[r]["evaluation"] = "none" /\ UNCHANGED <<run, wk>>
            /\ art' = [art EXCEPT ![r]["evaluation"] = art[r]["execution"]]
         \/ Advance(w, r, "SCORING") /\ UNCHANGED art
  BY DEF XEvaluate
<1>3. WorkerOK(w, r)
  BY <1>1, StepKnows
<1>4. CASE Fail(w) /\ UNCHANGED <<run, art>>
  BY <1>1, <1>2, <1>4, GivesUp
<1>5. CASE Advance(w, r, "SCORING") /\ UNCHANGED art
  <2>1. Reached(r, "SCORING")
    BY <1>2, <1>3 DEF WorkerOK, EarnOK, Reached, Late, ExecutionPhases
  <2> QED  BY <1>1, <1>2, <1>5, <2>1, XAdvances DEF Late
<1>6. CASE /\ art[r]["evaluation"] = "none" /\ UNCHANGED <<run, wk>>
           /\ art' = [art EXCEPT ![r]["evaluation"] = art[r]["execution"]]
  BY <1>1, <1>2, <1>6, XWrites
<1> QED  BY <1>2, <1>4, <1>5, <1>6

\* XScore: COMPLETED is asked for a run that has passed everything.
LEMMA XScoreStep ==
    ASSUME IInv, NEW w \in Workers, XScore(w), NEW r \in Runs, wk[w].run = r
    PROVE  StepOK
<1>1. WorkerStep(w)
  BY DEF WorkerStep, XStep
<1>2. /\ UNCHANGED <<run, art, prog, fault, taken, frail, wlease, mlease, hb>>
      /\ w \in Executors /\ wk[w].pc = "stage" /\ wk[w].phase = "SCORING"
      /\ \/ Fail(w) \/ End(w, "FAILED")
         \/ End(w, "COMPLETED") /\ art[r]["execution"] = "good" /\ art[r]["evaluation"] = "good"
  BY DEF XScore
<1>3. Recovered(r)
  BY <1>1, <1>2, StepKnows DEF WorkerOK, EarnOK, Reached
<1>4. CASE Fail(w) \/ End(w, "FAILED")
  BY <1>1, <1>2, <1>4, GivesUp DEF Terminals
<1>5. CASE End(w, "COMPLETED") /\ art[r]["execution"] = "good" /\ art[r]["evaluation"] = "good"
  <2>1. Earned(r)
    BY <1>3, <1>5 DEF Earned, Passed
  <2> QED  BY <1>1, <1>2, <1>5, <2>1, GivesUp DEF Terminals
<1> QED  BY <1>2, <1>4, <1>5

\* XCleanup: a cleanup is good only if no fault is in the cluster.
LEMMA XCleanupStep ==
    ASSUME IInv, NEW w \in Workers, XCleanup(w), NEW r \in Runs, wk[w].run = r
    PROVE  StepOK
<1>1. WorkerStep(w)
  BY DEF WorkerStep, XStep
<1>2. /\ UNCHANGED <<run, prog, fault, taken, frail, wlease, mlease, hb>>
      /\ w \in Executors /\ wk[w].pc = "cleanup" /\ Goto(w, "finish")
      /\ \/ UNCHANGED art
         \/ /\ art[r]["cleanup"] = "none"
            /\ \E v \in {"good", "bad"} :
                   art' = [art EXCEPT ![r]["cleanup"] = v] /\ (v = "good" => fault = {})
  BY DEF XCleanup, Verified
<1>3. /\ RunOK(r) /\ WorkerOK(w, r) /\ art \in [Runs -> [Artifacts -> Values]] /\ Typed
      /\ run[r].phase = "CLEANING_UP"
  BY <1>1, <1>2, StepKnows, Facts DEF WorkerOK, CleanOK
<1>4. Later(r) /\ RunOK(r)'
  <2>1. CASE UNCHANGED art
    BY <1>2, <1>3, <2>1, QuietRun
  <2>2. ASSUME NEW v \in {"good", "bad"}, art' = [art EXCEPT ![r]["cleanup"] = v],
               v = "good" => fault = {}, art[r]["cleanup"] = "none"
        PROVE  Later(r) /\ RunOK(r)'
    <3>1. /\ art'[r]["cleanup"] = v
          /\ \A b \in {"locked", "baseline", "execution", "recovery", "evaluation"} :
                 art'[r][b] = art[r][b]
      BY <1>3, <2>2, ArtEffects DEF Artifacts
    <3>2. Later(r)
      BY <1>2, <1>3, <2>2, FirstWrite DEF Artifacts
    <3>3. RowOK(r)'
      BY <1>2, <1>3, <2>2, <3>1 DEF RunOK, RowOK
    <3>4. FreshOK(r)' /\ TicketOK(r)'
      BY <1>2, <1>3, <3>1 DEF RunOK, FreshOK, TicketOK
    <3>5. JournalOK(r)'
      BY <1>2, <1>3, <3>1 DEF RunOK, JournalOK, Reached, Recovered, Based, Started, Earned, Passed
    <3> QED  BY <3>2, <3>3, <3>4, <3>5 DEF RunOK
  <2> QED  BY <1>2, <2>1, <2>2
<1>5. wk'[w].run = r /\ wk'[w].pc = "finish" /\ wk'[w].pc \notin TrialPcs
  BY <1>2, <1>3, MoveEffects DEF TrialPcs
<1>6. WorkerOK(w, r)'
  BY <1>2, <1>3, <1>4, <1>5, WindsUp
<1> QED  BY <1>1, <1>2, <1>4, <1>5, <1>6, StepConcludes

\* XFinish: the checkpoint of the cleanup decides.
LEMMA XFinishStep ==
    ASSUME IInv, NEW w \in Workers, XFinish(w), NEW r \in Runs, wk[w].run = r
    PROVE  StepOK
<1>1. WorkerStep(w)
  BY DEF WorkerStep, XStep
<1> DEFINE v == (art[r]["cleanup"] = "good")
<1>2. v \in BOOLEAN /\ (v /\ r \notin taken => r \notin fault)
  BY <1>1, StepKnows DEF RunOK, RowOK
<1>3. /\ FinishCleanup(r, v) /\ Turn(w, "release") /\ wk[w].pc = "finish"
      /\ UNCHANGED <<art, prog, fault, taken, frail, wlease>>
  BY DEF XFinish
<1> HIDE DEF v
<1> QED  BY <1>1, <1>2, <1>3, Finishes

\* Every step of a worker keeps what the runs and the workers rely on.
LEMMA WorkerStepOK ==
    ASSUME IInv, NEW w \in Workers, WorkerStep(w)
    PROVE  StepOK
<1>1. PICK r \in Runs : wk[w].run = r
  BY StepHasRun DEF IInv
<1>2. CASE Request(w) \/ Ask(w) \/ Release(w)
  BY <1>1, <1>2, RequestStep, AskStep, ReleaseStep
<1>3. CASE DStep(w)
  BY <1>1, <1>3, DBeginStep, DWorkStep, DStageStep, DLeaveStep, DFinishStep DEF DStep
<1>4. CASE XStep(w)
  BY <1>1, <1>4, XBeginStep, XLeaseStep, XBaselineStep, XExecuteStep, XTrialStep, XTrialStages,
     XJudgeStep, XRecoverStep, XEvaluateStep, XScoreStep, XCleanupStep, XFinishStep DEF XStep
<1> QED  BY <1>2, <1>3, <1>4 DEF WorkerStep
----------------------------------------------------------------------------
(***************************************************************************)
(* Claims, crashes, heartbeats, the operator and the watchdog.             *)
(***************************************************************************)
\* Runs lose nothing when leases move and faults end.
LEMMA RunsKept ==
    ASSUME RunsOK, UNCHANGED <<run, art, prog>>, fault' \subseteq fault,
           taken \subseteq taken', frail \subseteq frail'
    PROVE  RunsOK'
<1> SUFFICES ASSUME NEW r \in Runs PROVE RunOK(r)'
  BY DEF RunsOK
<1>1. RunOK(r)
  BY DEF RunsOK
<1>2. RowOK(r)' /\ FreshOK(r)' /\ TicketOK(r)'
  BY <1>1 DEF RunOK, RowOK, FreshOK, TicketOK
<1>3. JournalOK(r)'
  BY <1>1 DEF RunOK, JournalOK, Reached, Recovered, Based, Started, Earned, Passed
<1> QED  BY <1>2, <1>3 DEF RunOK

\* Nor does a worker that keeps its leases, or whose run is taken now.
LEMMA WorkerKept ==
    ASSUME UNCHANGED <<run, art, prog>>, fault' \subseteq fault,
           taken \subseteq taken', frail \subseteq frail',
           NEW v \in Workers, NEW q \in Runs, WorkerOK(v, q), wk'[v] = wk[v],
           q \in taken' \/ wlease'[q] = wlease[q],
           \/ q \in taken' \cup frail'
           \/ wk[v].pc \notin Active
           \/ v \in Executors => /\ hb'[v].pc # "off" /\ hb'[v].run = q
                                 /\ hb'[v].pc = "read" => mlease' = q
                                 /\ mlease = q => mlease' = q
    PROVE  WorkerOK(v, q)'
<1>1. LeaseOK(v, q)'
  BY DEF WorkerOK, LeaseOK, Executing, InTrials
<1>2. TrialsOK(v, q)'
  BY DEF WorkerOK, TrialsOK, Executing, InTrials
<1>3. CleanOK(v, q)'
  BY DEF WorkerOK, CleanOK
<1>4. EarnOK(v, q)'
  BY DEF WorkerOK, EarnOK, InTrials, Reached, Recovered, Based, Started, Earned, Passed
<1> QED  BY <1>1, <1>2, <1>3, <1>4 DEF WorkerOK

\* Workers that stay where they are, one of which may have lost its run.
LEMMA WorkersStay ==
    ASSUME IInv, UNCHANGED <<run, art, prog, wlease, taken>>, fault' \subseteq fault,
           frail \subseteq frail',
           \A v \in Workers : wk'[v] = wk[v] \/ wk'[v].pc \in Away,
           \A v \in Executors, q \in Runs :
               /\ wk'[v].pc \notin Away /\ wk[v].run = q /\ q \notin taken \cup frail'
               /\ wk[v].pc \in Active
               => /\ hb'[v].pc # "off" /\ hb'[v].run = q
                  /\ hb'[v].pc = "read" => mlease' = q
                  /\ mlease = q => mlease' = q
    PROVE  StepOK
<1>1. RunsOK'
  BY RunsKept DEF IInv
<1>2. ASSUME NEW v \in Workers, NEW q \in Runs, wk'[v].pc \notin Away, wk'[v].run = q
      PROVE  WorkerOK(v, q)'
  <2>1. wk'[v] = wk[v] /\ WorkerOK(v, q) /\ wk[v].run = q
    BY <1>2 DEF IInv, WorkersOK
  <2> QED  BY <1>2, <2>1, WorkerKept
<1>3. WorkersOK'
  BY <1>2 DEF WorkersOK
<1>4. OneTicket'
  BY DEF IInv, OneTicket, TrialPcs, Workers
<1> QED  BY <1>1, <1>3, <1>4 DEF StepOK

\* What a worker that has a heartbeat, and needs it, knows of it.
LEMMA SureBeat ==
    ASSUME IInv, NEW v \in Executors, NEW q \in Runs, wk[v].run = q, wk[v].pc \in Active,
           q \notin taken \cup frail
    PROVE  /\ hb[v].pc # "off" /\ hb[v].run = q /\ wlease[q] = v
           /\ hb[v].pc = "read" => mlease = q
           /\ Executing(v) => mlease = q
<1>1. wk[v].pc \notin Away /\ v \in Workers
  BY DEF Active, TrialPcs, Workers
<1>2. WorkerOK(v, q)
  BY <1>1 DEF IInv, WorkersOK
<1> QED  BY <1>2 DEF WorkerOK, LeaseOK

\* claim_next_run: a run that had a worker at work on it is taken.
LEMMA ClaimOK ==
    ASSUME IInv, NEW w \in Workers, NEW r \in Runs, DClaim(w, r) \/ XClaim(w, r)
    PROVE  StepOK
<1>1. /\ UNCHANGED <<run, art, prog, fault, mlease>>
      /\ wk[w].pc = "idle" /\ Open(r)
      /\ wlease' = [wlease EXCEPT ![r] = w]
      /\ wk' = [wk EXCEPT ![w] = Worker("begin", r, "none", FALSE)]
      /\ taken' = taken \cup {r} \/ UNCHANGED taken
      /\ (\E v \in Workers \ {w} : AtWork(v, r)) => taken' = taken \cup {r}
      /\ frail \subseteq frail' /\ \A v \in Executors \ {w} : hb'[v] = hb[v]
  BY Facts DEF DClaim, XClaim, Claim, Claimable, IInv
<1>2. /\ run \in [Runs -> Rows] /\ wk \in [Workers -> WorkerStates]
      /\ wlease \in [Runs -> Workers \cup {NoWorker}] /\ hb \in [Executors -> Beats]
  BY Facts DEF IInv
<1>3. /\ wk'[w].pc = "begin" /\ wk'[w].run = r
      /\ wlease'[r] = w
      /\ \A v \in Workers \ {w} : wk'[v] = wk[v]
      /\ \A q \in Runs \ {r} : wlease'[q] = wlease[q]
  BY <1>1, <1>2 DEF Worker
<1>4. RunOK(r) /\ run[r].phase # "NONE" /\ run[r].term = "none"
  BY <1>1 DEF IInv, RunsOK, Open
<1>5. WorkerOK(w, r)'
  <2>1. CASE DClaim(w, r)
    <3>1. w \in Discoverers /\ w \notin Executors /\ run[r].phase \in Early
      BY <2>1 DEF DClaim, Claim, Claimable, Early
    <3>2. r \notin fault
      BY <1>4, <3>1 DEF RunOK, FreshOK
    <3> QED  BY <1>1, <1>3, <1>4, <3>1, <3>2 DEF WorkerOK, LeaseOK, TrialsOK, CleanOK, EarnOK
  <2>2. CASE XClaim(w, r)
    <3>1. /\ w \in Executors /\ w \notin Discoverers
          /\ run[r].phase \in ExecutionPhases \cup {"CLEANING_UP"}
          /\ hb'[w].pc = "on" /\ hb'[w].run = r
          /\ run[r].phase = "EXECUTING" => r \in frail'
      BY <1>2, <2>2 DEF XClaim, Claim, Claimable
    <3>2. ~Executing(w)' /\ ~InTrials(w)'
      BY <1>3 DEF Executing, InTrials, TrialPcs
    <3>3. LeaseOK(w, r)'
      BY <1>1, <1>3, <1>4, <3>1, <3>2 DEF LeaseOK
    <3>4. TrialsOK(w, r)' /\ CleanOK(w, r)' /\ EarnOK(w, r)'
      BY <1>1, <1>3, <1>4, <3>1, <3>2 DEF TrialsOK, CleanOK, EarnOK, TrialPcs
    <3> QED  BY <3>3, <3>4 DEF WorkerOK
  <2> QED  BY <2>1, <2>2
<1>6. RunsOK'
  BY <1>1, RunsKept DEF IInv
<1>7. ASSUME NEW v \in Workers, NEW q \in Runs, wk'[v].pc \notin Away, wk'[v].run = q
      PROVE  WorkerOK(v, q)'
  <2>1. CASE v = w
    BY <1>3, <1>5, <1>7, <2>1
  <2>2. CASE v # w
    <3>1. wk'[v] = wk[v] /\ WorkerOK(v, q) /\ wk[v].run = q /\ wk[v].pc \notin Away
      BY <1>3, <1>7, <2>2 DEF IInv, WorkersOK
    <3>2. q = r => q \in taken'
      BY <1>1, <2>2, <3>1 DEF AtWork
    <3>3. v \in Executors /\ wk[v].pc \in Active /\ q \notin taken' \cup frail' =>
              hb'[v].pc # "off" /\ hb'[v].run = q /\ (hb'[v].pc = "read" => mlease' = q)
      BY <1>1, <2>2, <3>1, SureBeat
    <3> QED  BY <1>1, <1>3, <3>1, <3>2, <3>3, WorkerKept
  <2> QED  BY <2>1, <2>2
<1>8. WorkersOK'
  BY <1>7 DEF WorkersOK
<1>9. OneTicket'
  BY <1>3 DEF IInv, OneTicket, TrialPcs, Workers
<1> QED  BY <1>6, <1>8, <1>9 DEF StepOK

\* A crash leaves the run to its leases, and a process that starts has none.
LEMMA CrashOK ==
    ASSUME IInv, NEW w \in Workers, Crash(w) \/ Start(w)
    PROVE  StepOK
<1>1. wk \in [Workers -> WorkerStates] /\ hb \in [Executors -> Beats]
  BY Facts DEF IInv
<1>2. /\ wk'[w].pc \in Away /\ \A v \in Workers \ {w} : wk'[v] = wk[v]
      /\ \A v \in Executors \ {w} : hb'[v] = hb[v]
      /\ UNCHANGED <<run, art, prog, wlease, mlease, taken, frail, fault>>
  BY <1>1 DEF Crash, Start, IdleWorker, ExitedWorker, Worker
<1> QED  BY <1>2, SureBeat, WorkersStay

\* A heartbeat: a worker that needs it still has the worker lease it renews, and the
\* mutation lease it read is that of a live run.
LEMMA BeatOK ==
    ASSUME IInv, NEW w \in Executors, Beat(w) \/ BeatLease(w) \/ BeatDies(w)
    PROVE  StepOK
<1>1. /\ hb \in [Executors -> Beats] /\ \A v \in Executors \ {w} : hb'[v] = hb[v]
      /\ UNCHANGED <<run, art, prog, wlease, taken, fault, wk>> /\ frail \subseteq frail'
  BY Facts DEF Beat, BeatLease, BeatDies, IInv
<1>2. ASSUME NEW v \in Executors, NEW q \in Runs, wk[v].run = q, q \notin taken \cup frail',
             wk[v].pc \in Active
      PROVE  /\ hb'[v].pc # "off" /\ hb'[v].run = q
             /\ hb'[v].pc = "read" => mlease' = q
             /\ mlease = q => mlease' = q
  <2>1. /\ hb[v].pc # "off" /\ hb[v].run = q /\ wlease[q] = v
        /\ hb[v].pc = "read" => mlease = q
    BY <1>1, <1>2, SureBeat
  <2>2. CASE Beat(w)
    <3>1. CASE v # w
      BY <1>1, <2>1, <2>2, <3>1 DEF Beat
    <3>2. CASE v = w
      <4>1. mlease = q /\ hb' = [hb EXCEPT ![w].pc = "read"] /\ UNCHANGED mlease
        BY <2>1, <2>2, <3>2 DEF Beat
      <4> QED  BY <1>1, <2>1, <3>2, <4>1 DEF Beats
    <3> QED  BY <3>1, <3>2
  <2>3. CASE BeatLease(w)
    <3>1. mlease = q => mlease' = q
      <4>1. Beating(q)
        BY <2>1 DEF Beating
      <4> QED  BY <2>3, <4>1 DEF BeatLease, MutationFree
    <3>2. CASE v # w
      BY <1>1, <2>1, <3>1, <3>2
    <3>3. CASE v = w
      <4>1. mlease = q /\ MutationFree(q)
        BY <2>1, <2>3, <3>3 DEF BeatLease, MutationFree, IInv, LeaseOfLiveRun
      <4>2. AtWork(w, q)
        BY <1>2, <3>3 DEF AtWork, Active, TrialPcs
      <4>3. hb' = [hb EXCEPT ![w] = [hb[w] EXCEPT !.pc = "on"]]
        BY <2>1, <2>3, <3>3, <4>1, <4>2 DEF BeatLease
      <4> QED  BY <1>1, <2>1, <3>1, <3>3, <4>3 DEF Beats
    <3> QED  BY <3>2, <3>3
  <2>4. CASE BeatDies(w)
    BY <1>1, <1>2, <2>1, <2>4 DEF BeatDies
  <2> QED  BY <2>2, <2>3, <2>4
<1> QED  BY <1>1, <1>2, WorkersStay

\* The watchdog only ends faults.
LEMMA WatchdogOK ==
    ASSUME IInv, NEW r \in Runs, Watchdog(r)
    PROVE  StepOK
<1>1. /\ UNCHANGED <<run, art, prog, wlease, mlease, taken, frail, wk, hb>>
      /\ fault' \subseteq fault
  BY DEF Watchdog
<1> QED  BY <1>1, SureBeat, WorkersStay

\* The operator moves the row of one run.
LEMMA OperatorStep ==
    ASSUME IInv, NEW r \in Runs, \A q \in Runs \ {r} : run'[q] = run[q],
           UNCHANGED <<art, prog, wlease, mlease, wk, hb, fault, taken, frail>>,
           RunOK(r)',
           run[r].phase # "NONE" => /\ Later(r) /\ run'[r].term = run[r].term
                                    /\ run'[r].phase # "EXECUTING"
    PROVE  StepOK
<1>1. ASSUME NEW q \in Runs PROVE RunOK(q)'
  <2>1. CASE q = r
    BY <2>1
  <2>2. CASE q # r
    <3>1. RunOK(q) /\ run'[q] = run[q]
      BY <2>2 DEF IInv, RunsOK
    <3>2. RowOK(q)' /\ TicketOK(q)'
      BY <3>1 DEF RunOK, RowOK, TicketOK
    <3>3. FreshOK(q)'
      BY <3>1 DEF RunOK, FreshOK
    <3>4. JournalOK(q)'
      BY <3>1 DEF RunOK, JournalOK, Reached, Recovered, Based, Started, Earned, Passed
    <3> QED  BY <3>2, <3>3, <3>4 DEF RunOK
  <2> QED  BY <2>1, <2>2
<1>2. ASSUME NEW v \in Workers, NEW q \in Runs, wk'[v].pc \notin Away, wk'[v].run = q
      PROVE  WorkerOK(v, q)'
  <2>1. WorkerOK(v, q)
    BY <1>2 DEF IInv, WorkersOK
  <2>2. run[q].phase # "NONE"
    BY <2>1 DEF WorkerOK, LeaseOK
  <2>3. Later(q) /\ run'[q].term = run[q].term
    BY <2>2 DEF Later
  <2>4. LeaseOK(v, q)'
    BY <2>1, <2>2, <2>3 DEF WorkerOK, LeaseOK, Executing, InTrials, Later
  <2>5. TrialsOK(v, q)'
    BY <2>1, <2>3 DEF WorkerOK, TrialsOK, Executing, InTrials, Later
  <2>6. CleanOK(v, q)'
    BY <2>1, <2>3 DEF WorkerOK, CleanOK, Later
  <2>7. EarnOK(v, q)'
    BY <2>1, <2>2, <2>3, EarnedForGood DEF WorkerOK, EarnOK, InTrials, Later
  <2> QED  BY <2>4, <2>5, <2>6, <2>7 DEF WorkerOK
<1>3. RunsOK'
  BY <1>1 DEF RunsOK
<1>4. WorkersOK'
  BY <1>2 DEF WorkersOK
<1> QED  BY <1>3, <1>4 DEF StepOK, IInv, OneTicket

\* Create, Approve and Abort.
LEMMA OperatorOK ==
    ASSUME IInv, NEW r \in Runs, Approve(r) \/ Abort(r) \/ \E kind \in Kinds[r] : Create(r, kind)
    PROVE  StepOK
<1>1. RunOK(r) /\ run \in [Runs -> Rows]
  BY Facts DEF IInv, RunsOK
<1>2. UNCHANGED <<art, prog, wlease, mlease, wk, hb, fault, taken, frail>>
  BY DEF Approve, Abort, Create
<1>3. CASE Approve(r)
  <2>1. /\ run[r].phase = "AWAITING_APPROVAL" /\ MayAdvance(r, "BASELINING")
        /\ Transition(r, "BASELINING") /\ \A q \in Runs \ {r} : run'[q] = run[q]
    BY <1>1, <1>3 DEF Approve, Transition
  <2>2. Reached(r, "BASELINING")
    BY <1>1, <2>1 DEF RunOK, JournalOK, Reached, Late
  <2>3. Later(r) /\ RunOK(r)' /\ run'[r].phase = "BASELINING" /\ run'[r].term = run[r].term
    BY <1>1, <1>2, <2>1, <2>2, Advances DEF MayAdvance, Open
  <2> QED  BY <1>2, <2>1, <2>3, OperatorStep
<1>4. CASE Abort(r)
  <2>1. /\ RequestCleanup(r, "ABORTED", TRUE) /\ run[r].phase # "NONE"
        /\ \A q \in Runs \ {r} : run'[q] = run[q]
    BY <1>1, <1>4 DEF Abort, RequestCleanup, Open
  <2>2. CASE run' = run
    <3>1. run[r].phase = "CLEANING_UP"
      BY <1>1, <2>1, <2>2, RowEffects DEF CleanupConflict, RunOK, RowOK
    <3>2. Later(r) /\ RunOK(r)'
      BY <1>1, <1>2, <2>2, QuietRun
    <3> QED  BY <1>2, <2>1, <2>2, <3>1, <3>2, OperatorStep
  <2>3. CASE run' # run
    <3>1. /\ run'[r].phase = "CLEANING_UP" /\ run'[r].kind = run[r].kind
          /\ run'[r].term = run[r].term /\ run'[r].desired = "ABORTED"
      BY <1>1, <2>1, <2>3, RowEffects
    <3>2. Later(r) /\ RunOK(r)'
      BY <1>1, <1>2, <2>1, <3>1, IntoCleanup
    <3> QED  BY <1>2, <2>1, <3>1, <3>2, OperatorStep
  <2> QED  BY <2>2, <2>3
<1>5. ASSUME NEW kind \in Kinds[r], Create(r, kind) PROVE StepOK
  <2>1. /\ run[r].phase = "NONE" /\ \A q \in Runs \ {r} : run'[q] = run[q]
        /\ run'[r] = Row("CREATED", kind)
    BY <1>1, <1>5 DEF Create
  <2>2. run'[r].phase = "CREATED" /\ run'[r].term = "none" /\ run'[r].desired = "none"
    BY <2>1 DEF Row
  <2>3. run[r].phase \in Early /\ "CREATED" \in Early
    BY <2>1 DEF Early, DiscoveryPhases
  <2>4. RowOK(r)' /\ FreshOK(r)' /\ TicketOK(r)'
    BY <1>1, <1>2, <2>1, <2>2, <2>3 DEF RunOK, RowOK, FreshOK, TicketOK
  <2>5. Reached(r, run[r].phase)'
    BY <2>2 DEF Reached, ExecutionPhases, Late
  <2>6. JournalOK(r)'
    BY <1>1, <1>2, <2>2, <2>5 DEF RunOK, JournalOK
  <2> QED  BY <1>2, <2>1, <2>4, <2>6, OperatorStep DEF RunOK
<1> QED  BY <1>3, <1>4, <1>5
----------------------------------------------------------------------------
(***************************************************************************)
(* The theorems                                                            *)
(***************************************************************************)
\* The parts of the invariant that are about runs and workers.
Kept == RunsOK /\ WorkersOK /\ OneTicket

\* They hold of the empty store.
LEMMA KeptAtStart == Init => Kept
<1> SUFFICES ASSUME Init PROVE Kept
  OBVIOUS
<1>1. \A w \in Workers : wk[w].pc = "idle"
  BY DEF Init, IdleWorker, Worker
<1>2. ASSUME NEW r \in Runs PROVE RunOK(r)
  <2>1. /\ run[r].phase = "NONE" /\ run[r].term = "none" /\ run[r].desired = "none"
        /\ \A a \in Artifacts : art[r][a] = "none"
        /\ prog[r] = NewState /\ fault = {}
    BY DEF Init, NoRun, Row
  <2>2. /\ prog[r].status = "ACTIVE" /\ prog[r].level = 1
    BY <2>1 DEF NewState
  <2>3. \A a \in {"baseline", "execution", "recovery", "evaluation", "cleanup"} : art[r][a] = "none"
    BY <2>1 DEF Artifacts
  <2>4. RowOK(r) /\ FreshOK(r)
    BY <2>1, <2>2, <2>3 DEF RowOK, FreshOK
  <2>5. TicketOK(r)
    BY <2>2 DEF TicketOK
  <2>6. JournalOK(r)
    BY <2>1, <2>3 DEF JournalOK, Reached, ExecutionPhases, Late
  <2> QED  BY <2>4, <2>5, <2>6 DEF RunOK
<1> QED  BY <1>1, <1>2 DEF Kept, RunsOK, WorkersOK, OneTicket, TrialPcs, Workers

\* Every step keeps them.
LEMMA NextKeeps ==
    ASSUME IInv, [Next]_vars
    PROVE  Kept'
<1>1. CASE \E w \in Workers : WorkerStep(w) \/ ClaimStep(w) \/ Crash(w) \/ Start(w)
  BY <1>1, WorkerStepOK, ClaimOK, CrashOK DEF ClaimStep, StepOK, Kept
<1>2. CASE \E w \in Executors : Beat(w) \/ BeatLease(w) \/ BeatDies(w)
  BY <1>2, BeatOK DEF StepOK, Kept
<1>3. CASE \E r \in Runs : Watchdog(r)
  BY <1>3, WatchdogOK DEF StepOK, Kept
<1>4. CASE \E r \in Runs : Approve(r) \/ Abort(r) \/ \E kind \in Kinds[r] : Create(r, kind)
  BY <1>4, OperatorOK DEF StepOK, Kept
<1>5. CASE UNCHANGED vars
  <2>1. /\ UNCHANGED <<run, art, prog, wlease, mlease, taken, frail, wk, hb>>
        /\ fault' \subseteq fault
    BY <1>5 DEF vars
  <2> QED  BY <2>1, SureBeat, WorkersStay DEF StepOK, Kept
<1> QED  BY <1>1, <1>2, <1>3, <1>4, <1>5 DEF Next

\* The inductive invariant holds throughout.
LEMMA AlwaysKept == Spec => []IInv
<1>1. Typed /\ LeaseOfLiveRun /\ Kept <=> IInv
  BY DEF IInv, Kept
<1>2. Init => Kept
  BY KeptAtStart
<1>3. Typed /\ LeaseOfLiveRun /\ Kept /\ [Next]_vars => Kept'
  BY <1>1, NextKeeps
<1> QED  BY <1>1, <1>2, <1>3, AlwaysTyped, LeaseNeedsLiveRun, PTL DEF Spec

\* Two runs have a trial under way at once only when one of them was taken, was resumed in
\* EXECUTING or has lost its heartbeat: the mutation lease, held from the baseline on and
\* renewed by the heartbeat, keeps every other run out.
THEOREM MutatorIsAlone == Spec => []OneMutator
<1>1. IInv => OneMutator
  <2> SUFFICES ASSUME IInv, NEW r \in Runs, NEW q \in Runs, InTrial(r), InTrial(q),
                      {r, q} \cap (frail \cup taken) = {}
               PROVE  r = q
    BY DEF OneMutator
  <2>1. ASSUME NEW x \in {r, q} PROVE mlease = x
    <3>1. PICK w \in Executors : wk[w].run = x /\ wk[w].pc \in {"agent", "finalize"}
      BY <2>1 DEF InTrial
    <3>2. wk[w].pc \in Active /\ Executing(w)
      BY <3>1 DEF Active, TrialPcs, Executing, InTrials
    <3>3. x \notin taken \cup frail /\ x \in Runs
      BY <2>1
    <3> QED  BY <3>1, <3>2, <3>3, SureBeat
  <2> QED  BY <2>1
<1> QED  BY <1>1, AlwaysKept, PTL

\* A run that ends otherwise than RESET_FAILED leaves no fault of its own, unless it was taken
\* from a worker still at work: a good cleanup saw none, and no trial follows it.
THEOREM ClosedRunsAreClean == Spec => []CleanWhenClosed
<1>1. IInv => CleanWhenClosed
  BY DEF IInv, RunsOK, RunOK, RowOK, CleanWhenClosed
<1> QED  BY <1>1, AlwaysKept, PTL

\* COMPLETED stands for checkpoints that all passed, or for a dry run: stale workers and
\* resumed runs included.
THEOREM CompletionIsEarned == Spec => []CompletedIsEarned
<1>1. IInv => CompletedIsEarned
  <2> SUFFICES ASSUME IInv, NEW r \in Runs, run[r].term = "COMPLETED"
               PROVE  \/ run[r].kind = "dry" /\ r \notin fault
                      \/ /\ \A a \in {"locked", "baseline", "execution", "recovery",
                                      "evaluation"} : art[r][a] = "good"
                         /\ prog[r].status = "PASS"
                         /\ ContinueAfterFailure =>
                                \A l \in 1..Levels : prog[r].verdict[l] = "PASS"
    BY DEF CompletedIsEarned
  <2>1. RunOK(r)
    BY DEF IInv, RunsOK
  <2>2. Earned(r)
    BY <2>1 DEF RunOK, JournalOK
  <2>3. CASE run[r].kind = "dry"
    BY <2>1, <2>3 DEF RunOK, RowOK
  <2>4. CASE Passed(r)
    <3>1. /\ art[r]["locked"] = "good" /\ art[r]["baseline"] = "good"
          /\ art[r]["execution"] = "good" /\ art[r]["recovery"] = "good"
          /\ art[r]["evaluation"] = "good"
      BY <2>4 DEF Passed, Recovered, Based, Started
    <3>2. prog[r].status = "PASS"
      BY <2>1, <3>1 DEF RunOK, JournalOK
    <3> QED  BY <2>1, <3>1, <3>2 DEF RunOK, TicketOK
  <2> QED  BY <2>2, <2>3, <2>4 DEF Earned
<1> QED  BY <1>1, AlwaysKept, PTL
============================================================================
