----------------------------- MODULE Progression -----------------------------
(***************************************************************************)
(* The level-by-level progression of a multi-level Episode: the checkpoint *)
(* that progression/controller.py keeps in one JSON file, and what         *)
(* start_trial and record_result make of it.  Every operator here is one   *)
(* method that ends in one atomic save of the file.                        *)
(***************************************************************************)
EXTENDS Naturals

CONSTANTS
    Levels,          \* number of levels of the Episode
    RetryBudget,     \* attempts of each level
    TotalBudget,     \* attempts of the Episode
    ContinueAfterFailure

\* validate_multi_level_episode: there is a level, and every level and the
\* Episode have an attempt.
ASSUME ProgressionAssumption ==
    /\ Levels \in Nat \ {0}
    /\ RetryBudget \in [1..Levels -> Nat \ {0}]
    /\ TotalBudget \in Nat \ {0}
    /\ ContinueAfterFailure \in BOOLEAN

ProgressStates == {"ACTIVE", "PASS", "FAIL", "SKIP"}
Verdicts == {"PASS", "FAIL", "SKIP"}

Checkpoints ==
    [status : ProgressStates, level : 1..Levels, total : Nat, open : BOOLEAN,
     attempts : [1..Levels -> Nat], verdict : [1..Levels -> Verdicts \cup {"PENDING"}]]

NewState ==
    [status |-> "ACTIVE", level |-> 1, total |-> 0, open |-> FALSE,
     attempts |-> [l \in 1..Levels |-> 0],
     verdict |-> [l \in 1..Levels |-> "PENDING"]]

LevelExhausted(p) == p.attempts[p.level] >= RetryBudget[p.level]
TotalExhausted(p) == p.total >= TotalBudget

\* What start_trial answers: a ticket, or the reason it raises for.
Startable(p) == p.status = "ACTIVE" /\ ~p.open /\ ~LevelExhausted(p) /\ ~TotalExhausted(p)

\* The checkpoint start_trial leaves, whether it raises or not.
StartTrial(p) ==
    IF Startable(p)
    THEN [p EXCEPT !.open = TRUE, !.total = @ + 1, !.attempts[p.level] = @ + 1]
    ELSE IF p.status = "ACTIVE" /\ ~p.open THEN [p EXCEPT !.status = "FAIL"] ELSE p

Finished(p, s) == [p EXCEPT !.status = s]
NextLevel(p) == [p EXCEPT !.level = @ + 1]
HasNext(p) == p.level < Levels
SomeLevelFailed(p) == \E l \in 1..Levels : p.verdict[l] = "FAIL"

\* record_result for the open trial: PASS moves on, SKIP ends the Episode, and
\* FAIL is retried until the level's or the Episode's budget is used up.
RecordResult(p, v) ==
    LET q == [p EXCEPT !.open = FALSE, !.verdict[p.level] = v] IN
    CASE v = "PASS" ->
            IF HasNext(q) THEN NextLevel(q)
            ELSE Finished(q, IF ContinueAfterFailure /\ SomeLevelFailed(q)
                             THEN "FAIL" ELSE "PASS")
      [] v = "SKIP" -> Finished(q, "SKIP")
      [] OTHER ->
            IF ~LevelExhausted(q) /\ ~TotalExhausted(q) THEN q
            ELSE IF ContinueAfterFailure /\ HasNext(q) THEN NextLevel(q)
            ELSE Finished(q, "FAIL")
=============================================================================
