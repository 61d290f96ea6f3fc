----------------------------- MODULE RunControl ------------------------------
(***************************************************************************)
(* The run control plane: the SQLite store of runs with its two leases     *)
(* (RunStore), the journal of artifacts beside it (RunControlService), the *)
(* discovery and the execution workflow, and the workers that claim runs   *)
(* and carry the workflows on.                                             *)
(*                                                                         *)
(* Every method of the store is one IMMEDIATE transaction, so each is one  *)
(* step here; what a worker decides between two of them rests on what it   *)
(* read before.  A worker lease says which worker has a run; discovery     *)
(* workers hold it for 900 seconds and never renew it, execution workers   *)
(* have a heartbeat thread that renews it and the mutation lease until an  *)
(* error ends the thread.  No workflow looks at its lease again.           *)
(* The trials of the execution phase follow the module Progression, whose  *)
(* checkpoint survives the worker.                                         *)
(***************************************************************************)
EXTENDS Progression, FiniteSets

CONSTANTS
    Runs,            \* 1..n: a run's number is its place in the order of creation
    Discoverers, Executors,
    NoWorker,
    Kinds,           \* what is asked for: a dry run, approval by hand or on its own
    CanCrash,        \* the workers whose process may die
    MaxCrashes,      \* bound: crashes of a worker process
    MaxLapses,       \* bound: leases that run out under a worker at work
    MaxAborts        \* bound: abort requests of the operator

ASSUME RunAssumption ==
    /\ Runs \subseteq Nat \ {0} /\ IsFiniteSet(Runs)
    /\ Discoverers \cap Executors = {} /\ NoWorker \notin Discoverers \cup Executors
    /\ Kinds \in [Runs -> SUBSET {"dry", "manual", "auto"}]
    /\ {MaxCrashes, MaxLapses, MaxAborts} \subseteq Nat

VARIABLES
    run,             \* the rows of the table runs
    art,             \* the artifacts of a run that later steps read
    prog,            \* the progression checkpoints
    wlease, mlease,  \* the worker leases and the mutation lease (0: none)
    wk, hb,          \* the workers and the heartbeat threads of executors
    fault, load,     \* whose fault and whose workload are in the cluster
    taken, frail,    \* runs taken from a worker at work; runs without a sure lease
    crashes, lapses, aborts

world == <<fault, load>>
bounds == <<crashes, lapses, aborts>>
history == <<taken, frail>>
vars == <<run, art, prog, wlease, mlease, wk, hb, fault, load, taken, frail,
          crashes, lapses, aborts>>

Workers == Discoverers \cup Executors
DiscoveryPhases == {"CREATED", "SCANNING", "MATCHING", "DESIGNING", "QUALIFYING"}
ExecutionPhases == {"BASELINING", "EXECUTING", "RECOVERING", "EVALUATING", "SCORING"}
Phases == DiscoveryPhases \cup ExecutionPhases \cup {"NONE", "AWAITING_APPROVAL", "CLEANING_UP"}
Terminals == {"COMPLETED", "FAILED", "ABORTED", "RESET_FAILED", "CASE_INVALID",
              "NO_EXECUTABLE_EPISODE"}
Artifacts == {"snapshot", "bundle", "locked", "baseline", "execution", "recovery",
              "evaluation", "cleanup"}
Values == {"none", "good", "bad", "thin"}

\* ALLOWED_PHASE_TRANSITIONS
Allowed(p) ==
    CASE p = "CREATED" -> {"SCANNING"}
      [] p = "SCANNING" -> {"MATCHING"}
      [] p = "MATCHING" -> {"DESIGNING"}
      [] p = "DESIGNING" -> {"QUALIFYING"}
      [] p = "QUALIFYING" -> {"AWAITING_APPROVAL", "BASELINING"}
      [] p = "AWAITING_APPROVAL" -> {"BASELINING"}
      [] p = "BASELINING" -> {"EXECUTING"}
      [] p = "EXECUTING" -> {"RECOVERING"}
      [] p = "RECOVERING" -> {"EVALUATING"}
      [] p = "EVALUATING" -> {"SCORING"}
      [] OTHER -> {}

Row(phase, kind) ==
    [phase |-> phase, term |-> "none", desired |-> "none", abort |-> FALSE, kind |-> kind]
NoRun == Row("NONE", "dry")
Worker(pc, r, want, except) ==
    [pc |-> pc, run |-> r, phase |-> "NONE", want |-> want, except |-> except]
\* Where a worker has no run.
Away == {"idle", "exited"}
IdleWorker == Worker("idle", 0, "none", FALSE)
ExitedWorker == Worker("exited", 0, "none", FALSE)
NoBeat == [pc |-> "off", run |-> 0]

Init ==
    /\ run = [r \in Runs |-> NoRun]
    /\ art = [r \in Runs |-> [a \in Artifacts |-> "none"]]
    /\ prog = [r \in Runs |-> NewState]
    /\ wlease = [r \in Runs |-> NoWorker] /\ mlease = 0
    /\ wk = [w \in Workers |-> IdleWorker]
    /\ hb = [w \in Executors |-> NoBeat]
    /\ fault = {} /\ load = {}
    /\ taken = {} /\ frail = {}
    /\ crashes = 0 /\ lapses = 0 /\ aborts = 0

----------------------------------------------------------------------------
(***************************************************************************)
(* RunStore                                                                *)
(***************************************************************************)
Open(r) == run[r].phase # "NONE" /\ run[r].term = "none"

\* transition: whether it is allowed, and the row it leaves.
MayAdvance(r, p) == Open(r) /\ p \in Allowed(run[r].phase)
Transition(r, p) == run' = [run EXCEPT ![r].phase = p]

\* Mutant: a later request replaces the status asked for first.
RequestCleanupLast(r, s, byOperator) ==
    run' = IF run[r].term # "none" THEN run
           ELSE [run EXCEPT ![r] = [run[r] EXCEPT !.phase = "CLEANING_UP", !.desired = s,
                                                  !.abort = run[r].abort \/ byOperator]]

\* request_cleanup: it raises when another terminal status was asked for.
CleanupConflict(r, s) ==
    Open(r) /\ run[r].phase = "CLEANING_UP" /\ run[r].desired # s
RequestCleanup(r, s, byOperator) ==
    run' = IF run[r].term # "none" \/ CleanupConflict(r, s) THEN run
           ELSE [run EXCEPT ![r] = [run[r] EXCEPT !.phase = "CLEANING_UP", !.desired = s,
                                                  !.abort = run[r].abort \/ byOperator]]

\* finish_cleanup: a run that ended keeps its status; the mutation lease of
\* the run goes with the terminal status.
FinishCleanup(r, verified) ==
    IF run[r].term # "none" THEN UNCHANGED <<run, mlease>>
    ELSE /\ run' = [run EXCEPT ![r].term = IF verified THEN run[r].desired ELSE "RESET_FAILED"]
         /\ mlease' = IF mlease = r THEN 0 ELSE mlease

\* A lease counts as long as a heartbeat renews it; without one it runs out.
Beating(r) == \E w \in Executors : hb[w].run = r /\ hb[w].pc # "off"

\* Mutant: a run that has ended may take the mutation lease.
MutationFreeForAll(r) == mlease \in {0, r} \/ ~Beating(mlease)

\* Mutant: another run's lease is not looked at.
MutationFreeTwice(r) == Open(r)

\* acquire_mutation_lease: refused to a run that ended and while another
\* run's lease has not run out.
MutationFree(r) == Open(r) /\ (mlease \in {0, r} \/ ~Beating(mlease))
MutationHeld(r) == ~Open(r) \/ mlease \notin {0, r}

\* claim_next_run drops the leases that ran out and takes the oldest run in
\* one of the phases that nobody has.
Claimable(r, phases) == Open(r) /\ run[r].phase \in phases
AtWork(w, r) == wk[w].run = r /\ wk[w].pc \notin Away
RanOut(r) ==
    /\ wlease[r] # NoWorker
    /\ \/ ~AtWork(wlease[r], r)
       \/ lapses < MaxLapses /\ (wlease[r] \in Executors => hb[wlease[r]].pc = "off")
Claim(w, r, phases) ==
    /\ wk[w].pc = "idle"
    /\ Claimable(r, phases) /\ (wlease[r] = NoWorker \/ RanOut(r))
    /\ \A q \in Runs : q < r => ~(Claimable(q, phases) /\ wlease[q] = NoWorker)
    /\ wlease' = [wlease EXCEPT ![r] = w]
    /\ wk' = [wk EXCEPT ![w] = Worker("begin", r, "none", FALSE)]
    /\ IF \E v \in Workers \ {w} : AtWork(v, r)
       THEN taken' = taken \cup {r} ELSE UNCHANGED taken
    /\ lapses' = IF wlease[r] # NoWorker /\ AtWork(wlease[r], r) THEN lapses + 1 ELSE lapses
----------------------------------------------------------------------------
(***************************************************************************)
(* The operator                                                            *)
(***************************************************************************)
Create(r, kind) ==
    /\ run[r].phase = "NONE" /\ \A q \in Runs : q < r => run[q].phase # "NONE"
    /\ run' = [run EXCEPT ![r] = Row("CREATED", kind)]
    /\ UNCHANGED <<art, prog, wlease, mlease, wk, hb, world, history, bounds>>

Approve(r) ==
    /\ run[r].phase = "AWAITING_APPROVAL" /\ MayAdvance(r, "BASELINING")
    /\ Transition(r, "BASELINING")
    /\ UNCHANGED <<art, prog, wlease, mlease, wk, hb, world, history, bounds>>

Abort(r) ==
    /\ Open(r) /\ aborts < MaxAborts
    /\ aborts' = aborts + 1
    /\ RequestCleanup(r, "ABORTED", TRUE)
    /\ UNCHANGED <<art, prog, wlease, mlease, wk, hb, world, history, crashes, lapses>>
----------------------------------------------------------------------------
(***************************************************************************)
(* Steps both workflows take                                               *)
(***************************************************************************)
Goto(w, pc) == wk' = [wk EXCEPT ![w].pc = pc]
Fail(w) ==
    wk' = [wk EXCEPT ![w] = Worker("request", wk[w].run, "FAILED", TRUE)]
End(w, s) ==
    wk' = [wk EXCEPT ![w] = Worker("request", wk[w].run, s, FALSE)]
Turn(w, pc) == wk' = [wk EXCEPT ![w] = Worker(pc, wk[w].run, "none", FALSE)]
Proceed(w, p) == wk' = [wk EXCEPT ![w].pc = "stage", ![w].phase = p]

\* advance: the phase is the one the worker last saw, or it raises.
Advance(w, r, p) ==
    IF MayAdvance(r, p)
    THEN Transition(r, p) /\ Proceed(w, p)
    ELSE Fail(w) /\ UNCHANGED run

\* get_run before a cleanup is asked for.  The handler of an exception first
\* looks whether the run has ended.
Request(w) ==
    LET r == wk[w].run IN
    /\ wk[w].pc = "request"
    /\ IF wk[w].except /\ run[r].term # "none" THEN Turn(w, "release")
       ELSE IF run[r].phase = "CLEANING_UP" THEN Turn(w, "cleanup")
       ELSE Goto(w, "ask")
    /\ UNCHANGED <<run, art, prog, wlease, mlease, hb, world, history, bounds>>

\* Mutant: a worker whose request was refused keeps its lease.
AskStuck(w) ==
    LET r == wk[w].run
        s == wk[w].want
    IN
    /\ wk[w].pc = "ask" /\ ~CleanupConflict(r, s)
    /\ RequestCleanup(r, s, FALSE) /\ Turn(w, "cleanup")
    /\ UNCHANGED <<art, prog, wlease, mlease, hb, world, history, bounds>>

\* The cleanup is asked for; a conflict raises into the handler, or out of
\* the workflow when the handler itself asked.
Ask(w) ==
    LET r == wk[w].run
        s == wk[w].want
    IN
    /\ wk[w].pc = "ask"
    /\ RequestCleanup(r, s, FALSE)
    /\ IF ~CleanupConflict(r, s) THEN Turn(w, "cleanup")
       ELSE IF wk[w].except THEN Turn(w, "raise") ELSE Fail(w)
    /\ UNCHANGED <<art, prog, wlease, mlease, hb, world, history, bounds>>

\* release_worker_lease deletes the row only if it still names the worker.
\* After an exception out of the workflow main returns, and the heartbeat
\* goes with the process.
Release(w) ==
    LET r == wk[w].run
        raised == wk[w].pc = "raise"
    IN
    /\ wk[w].pc \in {"release", "raise"}
    /\ wlease' = [wlease EXCEPT ![r] = IF @ = w THEN NoWorker ELSE @]
    /\ wk' = [wk EXCEPT ![w] = IF raised THEN ExitedWorker ELSE IdleWorker]
    /\ hb' = [v \in Executors |-> IF v = w /\ (raised \/ hb[v].pc = "on") THEN NoBeat ELSE hb[v]]
    /\ UNCHANGED <<run, art, prog, mlease, world, history, bounds>>

\* The process dies, of an exception or otherwise; its leases stay and its
\* heartbeat stops.
Crash(w) ==
    /\ w \in CanCrash /\ wk[w].pc \notin Away /\ crashes < MaxCrashes
    /\ crashes' = crashes + 1
    /\ wk' = [wk EXCEPT ![w] = ExitedWorker]
    /\ hb' = [v \in Executors |-> IF v = w THEN NoBeat ELSE hb[v]]
    /\ UNCHANGED <<run, art, prog, wlease, mlease, world, history, lapses, aborts>>

\* Somebody starts the process again; nothing in the repository does.
Start(w) ==
    /\ wk[w].pc = "exited"
    /\ wk' = [wk EXCEPT ![w] = IdleWorker]
    /\ UNCHANGED <<run, art, prog, wlease, mlease, hb, world, history, bounds>>
----------------------------------------------------------------------------
(***************************************************************************)
(* DiscoveryWorkflow                                                       *)
(***************************************************************************)
DClaim(w, r) ==
    /\ w \in Discoverers /\ Claim(w, r, DiscoveryPhases)
    /\ UNCHANGED <<run, art, prog, mlease, hb, world, frail, crashes, aborts>>

\* A run that left the discovery phases since it was claimed is only read:
\* its checkpoints are there or the load raises.
DBegin(w) ==
    LET r == wk[w].run IN
    /\ w \in Discoverers /\ wk[w].pc = "begin"
    /\ IF run[r].term # "none" THEN Turn(w, "release")
       ELSE IF run[r].phase \in DiscoveryPhases THEN Proceed(w, run[r].phase)
       ELSE IF "none" \in {art[r]["snapshot"], art[r]["bundle"]} THEN Fail(w)
       ELSE Turn(w, "release")
    /\ UNCHANGED <<run, art, prog, wlease, mlease, hb, world, history, bounds>>

\* The work of a phase and its checkpoint, which is read if it is there.
\* _scan and _analyze may raise.
DWork(w, a) ==
    LET r == wk[w].run IN
    /\ w \in Discoverers /\ wk[w].pc = "stage"
    /\ <<wk[w].phase, a>> \in {<<"SCANNING", "snapshot">>, <<"MATCHING", "bundle">>}
    /\ art[r][a] = "none"
    /\ \/ \E v \in IF a = "snapshot" THEN {"good", "bad"} ELSE {"good", "thin", "bad"} :
              art' = [art EXCEPT ![r][a] = v] /\ UNCHANGED wk
       \/ Fail(w) /\ UNCHANGED art
    /\ UNCHANGED <<run, prog, wlease, mlease, hb, world, history, bounds>>

DStage(w) ==
    LET r == wk[w].run
        p == wk[w].phase
        snapshot == art[r]["snapshot"]
        bundle == art[r]["bundle"]
    IN
    /\ w \in Discoverers /\ wk[w].pc = "stage"
    /\ \/ /\ p = "CREATED" /\ Advance(w, r, "SCANNING")
          /\ UNCHANGED art
       \/ /\ p = "SCANNING" /\ snapshot # "none" /\ Advance(w, r, "MATCHING")
          /\ UNCHANGED art
       \/ /\ p = "MATCHING" /\ bundle # "none"
          /\ IF bundle = "bad" THEN End(w, "NO_EXECUTABLE_EPISODE") /\ UNCHANGED run
             ELSE Advance(w, r, "DESIGNING")
          /\ UNCHANGED art
       \/ /\ p = "DESIGNING"
          /\ IF bundle = "thin" THEN End(w, "NO_EXECUTABLE_EPISODE") /\ UNCHANGED run
             ELSE Advance(w, r, "QUALIFYING")
          /\ UNCHANGED art
       \/ /\ p = "QUALIFYING" /\ run[r].kind = "dry"
          /\ End(w, "COMPLETED") /\ UNCHANGED <<run, art>>
       \/ /\ p = "QUALIFYING" /\ run[r].kind # "dry"
          /\ \E ready \in BOOLEAN :
                 /\ art' = IF ready THEN [art EXCEPT ![r]["locked"] = "good"] ELSE art
                 /\ IF ready /\ snapshot = "good"
                    THEN Goto(w, "leave")
                    ELSE End(w, "CASE_INVALID")
          /\ UNCHANGED run
    /\ UNCHANGED <<prog, wlease, mlease, hb, world, history, bounds>>

\* The last transition of the discovery ends the worker's part.
DLeave(w) ==
    LET r == wk[w].run
        p == IF run[r].kind = "auto" THEN "BASELINING" ELSE "AWAITING_APPROVAL"
    IN
    /\ w \in Discoverers /\ wk[w].pc = "leave"
    /\ IF MayAdvance(r, p) THEN Transition(r, p) /\ Turn(w, "release")
       ELSE Fail(w) /\ UNCHANGED run
    /\ UNCHANGED <<art, prog, wlease, mlease, hb, world, history, bounds>>

\* _terminate_without_mutation: the cleanup counts as verified.
DFinish(w) ==
    /\ w \in Discoverers /\ wk[w].pc = "cleanup"
    /\ FinishCleanup(wk[w].run, TRUE)
    /\ Turn(w, "release")
    /\ UNCHANGED <<art, prog, wlease, hb, world, history, bounds>>
----------------------------------------------------------------------------
(***************************************************************************)
(* ExecutionWorkflow                                                       *)
(***************************************************************************)
XClaim(w, r) ==
    /\ w \in Executors /\ hb[w].pc = "off"
    /\ Claim(w, r, ExecutionPhases \cup {"CLEANING_UP"})
    /\ hb' = [hb EXCEPT ![w] = [pc |-> "on", run |-> r]]
    /\ frail' = IF run[r].phase \in {"EXECUTING"} THEN frail \cup {r} ELSE frail
    /\ UNCHANGED <<run, art, prog, mlease, world, crashes, aborts>>

\* get_run: a run in cleanup is only cleaned up.
XBegin(w) ==
    LET r == wk[w].run IN
    /\ w \in Executors /\ wk[w].pc = "begin"
    /\ IF run[r].term # "none" THEN Turn(w, "release")
       ELSE IF run[r].phase = "CLEANING_UP" THEN Turn(w, "cleanup")
       ELSE Proceed(w, run[r].phase)
    /\ UNCHANGED <<run, art, prog, wlease, mlease, hb, world, history, bounds>>

\* The mutation lease is taken on entry to the baseline, and only there.
XLease(w) ==
    LET r == wk[w].run IN
    /\ w \in Executors /\ wk[w].pc = "stage" /\ wk[w].phase = "BASELINING"
    /\ \/ MutationFree(r) /\ mlease' = r /\ Goto(w, "baseline")
       \/ MutationHeld(r) /\ Fail(w) /\ UNCHANGED mlease
    /\ UNCHANGED <<run, art, prog, wlease, hb, world, history, bounds>>

\* entry_gate, or the checkpoint of an earlier worker.
XBaseline(w) ==
    LET r == wk[w].run IN
    /\ w \in Executors /\ wk[w].pc = "baseline"
    /\ IF art[r]["baseline"] = "none"
       THEN \/ \E v \in {"good", "bad"} : art' = [art EXCEPT ![r]["baseline"] = v]
                                          /\ UNCHANGED <<run, wk>>
            \/ Fail(w) /\ UNCHANGED <<run, art>>
       ELSE /\ IF art[r]["baseline"] = "bad" THEN End(w, "CASE_INVALID") /\ UNCHANGED run
               ELSE Advance(w, r, "EXECUTING")
            /\ UNCHANGED art
    /\ UNCHANGED <<prog, wlease, mlease, hb, world, history, bounds>>

\* EXECUTING: the checkpoint, or the trials up to the end of the Episode.
XExecute(w) ==
    LET r == wk[w].run IN
    /\ w \in Executors /\ wk[w].pc = "stage" /\ wk[w].phase = "EXECUTING"
    /\ IF art[r]["baseline"] = "none" THEN Fail(w) /\ UNCHANGED run
       ELSE IF art[r]["execution"] = "none" THEN Goto(w, "trial") /\ UNCHANGED run
       ELSE Advance(w, r, "RECOVERING")
    /\ UNCHANGED <<art, prog, wlease, mlease, hb, world, history, bounds>>

\* The next trial is opened in the checkpoint; an open trial of an earlier
\* worker makes start_trial raise.  At the end the report is recorded; what
\* it says of each trial (only of this worker's) is not in the model.
XTrial(w) ==
    LET r == wk[w].run
        p == prog[r]
    IN
    /\ w \in Executors /\ wk[w].pc = "trial"
    /\ IF p.status # "ACTIVE"
       THEN /\ art' = [art EXCEPT ![r]["execution"] = IF p.status = "PASS" THEN "good" ELSE "bad"]
            /\ Proceed(w, "EXECUTING")
            /\ UNCHANGED prog
       ELSE /\ prog' = [prog EXCEPT ![r] = StartTrial(p)]
            /\ IF Startable(p) THEN Goto(w, "prepare") ELSE Fail(w)
            /\ UNCHANGED art
    /\ UNCHANGED <<run, wlease, mlease, hb, world, history, bounds>>

\* PerTrialPreparer: no fault may be in the cluster, then the baseline, the
\* capability and the workload; a failure of it ends the trial, a failure of
\* the injector factory ends the run with the trial left open.
XPrepare(w) ==
    LET r == wk[w].run IN
    /\ w \in Executors /\ wk[w].pc = "prepare"
    /\ \/ fault = {} /\ load' = load \cup {r} /\ Goto(w, "agent")
       \/ Goto(w, "judgeFailed") /\ UNCHANGED load
       \/ fault = {} /\ load' = load \cup {r} /\ Fail(w)
    /\ UNCHANGED <<run, art, prog, wlease, mlease, hb, fault, history, bounds>>

\* The agent's session, with or without a fault.
XAgent(w) ==
    LET r == wk[w].run IN
    /\ w \in Executors /\ wk[w].pc = "agent"
    /\ fault' \in {fault, fault \cup {r}}
    /\ Goto(w, "finalize")
    /\ UNCHANGED <<run, art, prog, wlease, mlease, hb, load, history, bounds>>

\* PerTrialFinalizer: the fault is destroyed and the workload ended; either
\* may fail, and then the recovery gate fails.
XFinalize(w) ==
    LET r == wk[w].run IN
    /\ w \in Executors /\ wk[w].pc = "finalize"
    /\ \/ fault' = fault \ {r} /\ load' = load \ {r} /\ Goto(w, "judge")
       \/ fault' \in {fault, fault \ {r}} /\ load' \in {load, load \ {r}}
          /\ Goto(w, "judgeFailed")
    /\ UNCHANGED <<run, art, prog, wlease, mlease, hb, history, bounds>>

\* The evaluator's verdict on the level, recorded in the checkpoint.
XJudge(w) ==
    LET r == wk[w].run IN
    /\ w \in Executors /\ wk[w].pc \in {"judge", "judgeFailed"}
    /\ \/ \E v \in IF wk[w].pc = "judge" THEN Verdicts ELSE {"FAIL", "SKIP"} :
              prog' = [prog EXCEPT ![r] = RecordResult(@, v)] /\ Goto(w, "trial")
       \/ Fail(w) /\ UNCHANGED prog
    /\ UNCHANGED <<run, art, wlease, mlease, hb, world, history, bounds>>

\* Mutant: the run's own objects only are looked at.
VerifiedOwn(r) == TRUE

\* verify_post_run: the run's workload is deleted and no fault of anyone is
\* in the cluster.
Verified(r) == fault = {}

\* RECOVERING
XRecover(w) ==
    LET r == wk[w].run IN
    /\ w \in Executors /\ wk[w].pc = "stage" /\ wk[w].phase = "RECOVERING"
    /\ IF art[r]["execution"] = "none" THEN Fail(w) /\ UNCHANGED <<run, art, load>>
       ELSE IF art[r]["recovery"] = "none"
       THEN \/ /\ \E ok \in BOOLEAN :
                      art' = [art EXCEPT ![r]["recovery"] = IF ok /\ Verified(r) THEN "good" ELSE "bad"]
               /\ load' = load \ {r} /\ UNCHANGED <<run, wk>>
            \/ Fail(w) /\ UNCHANGED <<run, art, load>>
       ELSE /\ IF art[r]["recovery"] = "bad" THEN End(w, "RESET_FAILED") /\ UNCHANGED run
               ELSE Advance(w, r, "EVALUATING")
            /\ UNCHANGED <<art, load>>
    /\ UNCHANGED <<prog, wlease, mlease, hb, fault, history, bounds>>

\* EVALUATING: the oracle repeats the status of the execution.
XEvaluate(w) ==
    LET r == wk[w].run IN
    /\ w \in Executors /\ wk[w].pc = "stage" /\ wk[w].phase = "EVALUATING"
    /\ IF "none" \in {art[r]["execution"], art[r]["recovery"]} THEN Fail(w) /\ UNCHANGED <<run, art>>
       ELSE IF art[r]["evaluation"] = "none"
       THEN /\ art' = [art EXCEPT ![r]["evaluation"] = art[r]["execution"]]
            /\ UNCHANGED <<run, wk>>
       ELSE Advance(w, r, "SCORING") /\ UNCHANGED art
    /\ UNCHANGED <<prog, wlease, mlease, hb, world, history, bounds>>

\* Mutant: a run that reached the score has completed.
XScoreByPhase(w) ==
    /\ w \in Executors /\ wk[w].pc = "stage" /\ wk[w].phase = "SCORING"
    /\ End(w, "COMPLETED")
    /\ UNCHANGED <<run, art, prog, wlease, mlease, hb, world, history, bounds>>

\* SCORING: the score may be refused; the run completes if both passed.
XScore(w) ==
    LET r == wk[w].run IN
    /\ w \in Executors /\ wk[w].pc = "stage" /\ wk[w].phase = "SCORING"
    /\ IF "none" \in {art[r][a] : a \in {"execution", "recovery", "evaluation"}} THEN Fail(w)
       ELSE \/ Fail(w)
            \/ End(w, IF art[r]["execution"] = "good" /\ art[r]["evaluation"] = "good"
                      THEN "COMPLETED" ELSE "FAILED")
    /\ UNCHANGED <<run, art, prog, wlease, mlease, hb, world, history, bounds>>

\* _finish_cleanup: the verification of the cleanup is a checkpoint too; an
\* error in it ends the worker process, which is Crash.
XCleanup(w) ==
    LET r == wk[w].run IN
    /\ w \in Executors /\ wk[w].pc = "cleanup"
    /\ \/ /\ art[r]["cleanup"] = "none"
          /\ \E ok \in BOOLEAN :
                 art' = [art EXCEPT ![r]["cleanup"] = IF ok /\ Verified(r) THEN "good" ELSE "bad"]
          /\ load' = load \ {r}
          /\ Goto(w, "finish")
       \/ art[r]["cleanup"] # "none" /\ Goto(w, "finish") /\ UNCHANGED <<art, load>>
    /\ UNCHANGED <<run, prog, wlease, mlease, hb, fault, history, bounds>>

XFinish(w) ==
    /\ w \in Executors /\ wk[w].pc = "finish"
    /\ FinishCleanup(wk[w].run, art[wk[w].run]["cleanup"] = "good")
    /\ Turn(w, "release")
    /\ UNCHANGED <<art, prog, wlease, hb, world, history, bounds>>
----------------------------------------------------------------------------
(***************************************************************************)
(* The heartbeat thread of an execution worker                             *)
(***************************************************************************)

\* renew_worker_lease, then the mutation lease is read; an error ends the
\* thread without a word to the worker.
Beat(w) ==
    LET r == hb[w].run IN
    /\ hb[w].pc = "on"
    /\ IF wlease[r] # w THEN hb' = [hb EXCEPT ![w] = NoBeat]
       ELSE mlease = r /\ hb' = [hb EXCEPT ![w].pc = "read"]
    /\ UNCHANGED <<run, art, prog, wlease, mlease, wk, world, history, bounds>>

\* The lease it read is acquired again.
BeatLease(w) ==
    LET r == hb[w].run IN
    /\ hb[w].pc = "read"
    /\ IF MutationFree(r) THEN mlease' = r ELSE UNCHANGED mlease
    /\ hb' = [hb EXCEPT ![w] = IF MutationFree(r) /\ AtWork(w, r)
                               THEN [@ EXCEPT !.pc = "on"] ELSE NoBeat]
    /\ UNCHANGED <<run, art, prog, wlease, wk, world, history, bounds>>

\* An error of the database ends the thread.
BeatDies(w) ==
    /\ hb[w].pc = "on" /\ lapses < MaxLapses
    /\ lapses' = lapses + 1
    /\ hb' = [hb EXCEPT ![w] = NoBeat]
    /\ frail' = frail \cup {hb[w].run}
    /\ UNCHANGED <<run, art, prog, wlease, mlease, wk, world, taken, crashes, aborts>>

\* The watchdog of the chaos service ends a fault at its deadline.
Watchdog(r) ==
    /\ r \in fault /\ fault' = fault \ {r}
    /\ UNCHANGED <<run, art, prog, wlease, mlease, wk, hb, load, history, bounds>>
----------------------------------------------------------------------------
DStep(w) ==
    \/ DBegin(w) \/ DStage(w) \/ DLeave(w) \/ DFinish(w)
    \/ \E a \in {"snapshot", "bundle"} : DWork(w, a)
XStep(w) ==
    \/ XBegin(w) \/ XLease(w) \/ XBaseline(w) \/ XExecute(w) \/ XTrial(w)
    \/ XPrepare(w) \/ XAgent(w) \/ XFinalize(w) \/ XJudge(w) \/ XRecover(w)
    \/ XEvaluate(w) \/ XScore(w) \/ XCleanup(w) \/ XFinish(w)
WorkerStep(w) == Request(w) \/ Ask(w) \/ Release(w) \/ DStep(w) \/ XStep(w)
ClaimStep(w) == \E r \in Runs : DClaim(w, r) \/ XClaim(w, r)

Next ==
    \/ \E w \in Workers : WorkerStep(w) \/ ClaimStep(w) \/ Crash(w) \/ Start(w)
    \/ \E w \in Executors : Beat(w) \/ BeatLease(w) \/ BeatDies(w)
    \/ \E r \in Runs : Approve(r) \/ Abort(r) \/ Watchdog(r)
    \/ \E r \in Runs : \E kind \in Kinds[r] : Create(r, kind)

Spec == Init /\ [][Next]_vars

\* A worker process that runs polls and carries its run on, a heartbeat that
\* has read the lease comes to its next statement, and a lease without a
\* heartbeat runs out.  Nobody is bound to start a process again, and the
\* operator comes when he comes.
Fairness ==
    /\ \A w \in Workers : WF_vars(WorkerStep(w)) /\ WF_vars(ClaimStep(w))
    /\ \A w \in Executors : WF_vars(BeatLease(w))
FairSpec == Spec /\ Fairness
----------------------------------------------------------------------------
(***************************************************************************)
(* Properties                                                              *)
(***************************************************************************)
Pcs == {"idle", "exited", "begin", "stage", "leave", "request", "ask", "cleanup", "finish",
        "release", "raise", "baseline", "trial", "prepare", "agent", "finalize", "judge",
        "judgeFailed"}

Rows == [phase : Phases, term : Terminals \cup {"none"},
         desired : Terminals \cup {"none"}, abort : BOOLEAN,
         kind : {"dry", "manual", "auto"}]
WorkerStates == [pc : Pcs, run : Runs \cup {0}, phase : Phases,
                 want : Terminals \cup {"none"}, except : BOOLEAN]
Beats == [pc : {"off", "on", "read"}, run : Runs \cup {0}]

\* Every variable has its type.
TypeOK ==
    /\ run \in [Runs -> Rows]
    /\ art \in [Runs -> [Artifacts -> Values]]
    /\ prog \in [Runs -> Checkpoints]
    /\ wlease \in [Runs -> Workers \cup {NoWorker}]
    /\ mlease \in Runs \cup {0}
    /\ wk \in [Workers -> WorkerStates]
    /\ hb \in [Executors -> Beats]
    /\ fault \subseteq Runs /\ load \subseteq Runs
    /\ taken \subseteq Runs /\ frail \subseteq Runs
    /\ crashes \in Nat /\ lapses \in Nat /\ aborts \in Nat

\* The mutation lease never belongs to a run that has ended, though a
\* heartbeat may be about to acquire it again when the run ends.
LeaseOfLiveRun == mlease # 0 => Open(mlease)

\* A run that ends otherwise than RESET_FAILED leaves no fault of its own in
\* the cluster, whatever crashed or was aborted on the way, unless it was
\* taken from a worker that was still at work on it.
CleanWhenClosed ==
    \A r \in Runs :
        run[r].term \notin {"none", "RESET_FAILED"} /\ r \notin taken => r \notin fault

\* A run is COMPLETED on the strength of its checkpoints: a dry run ended in
\* discovery, any other passed baseline, execution, recovery and evaluation.
CompletedIsEarned ==
    \A r \in Runs :
        run[r].term = "COMPLETED" =>
            \/ run[r].kind = "dry" /\ r \notin fault
            \/ /\ \A a \in {"locked", "baseline", "execution", "recovery", "evaluation"} :
                      art[r][a] = "good"
               /\ prog[r].status = "PASS"
               /\ ContinueAfterFailure => \A l \in 1..Levels : prog[r].verdict[l] = "PASS"

\* An abort that was accepted decides how the run ends.
AbortIsKept ==
    \A r \in Runs : run[r].abort => run[r].term \in {"none", "ABORTED", "RESET_FAILED"}

\* Two runs never have a trial under way at the same time, unless one was
\* resumed in EXECUTING, where the mutation lease is not taken again, or its
\* heartbeat had stopped.
InTrial(r) == \E w \in Executors : wk[w].run = r /\ wk[w].pc \in {"agent", "finalize"}
OneMutator ==
    \A r, q \in Runs :
        InTrial(r) /\ InTrial(q) /\ r # q => {r, q} \cap (frail \cup taken) # {}

\* The status a run ended with never changes.
EndIsFinal ==
    [][\A r \in Runs : run[r].term # "none" => run'[r].term = run[r].term]_vars

\* Every run that is not waiting for approval ends, unless all the processes
\* of the kind its phase calls for have exited and nobody starts one again: a
\* second conflict over the cleanup is raised out of the workflow, and main
\* returns.
Deserted(r) ==
    \A w \in IF run[r].phase \in DiscoveryPhases THEN Discoverers ELSE Executors :
        wk[w].pc = "exited"
RunsEnd ==
    \A r \in Runs :
        (Open(r) /\ run[r].phase # "AWAITING_APPROVAL")
            ~> (run[r].term # "none" \/ run[r].phase = "AWAITING_APPROVAL" \/ []Deserted(r))
=============================================================================
