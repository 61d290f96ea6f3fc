--------------------------- MODULE HarnessSession ---------------------------
(***************************************************************************)
(* One trial's conversation with an Agent: HarnessSession.wait (session.py)*)
(* runs native CLI turns, the first with the prompt and one more for every *)
(* feedback queued by then; NativeHarnessRunner (harness_runtime.py) has   *)
(* the observers that read the Agent's lines, interpret its messages,      *)
(* answer its questions with the simulated user and ask once more when an  *)
(* answer cannot be read.                                                  *)
(*                                                                         *)
(* Three parties are at work: the thread in wait(), the reader of the      *)
(* native process' standard output, and the MCP servers that serve the     *)
(* Agent's tool calls (a confirmation takes a while and may be answered    *)
(* after the process that asked is gone).  A process in the Agent's        *)
(* sidecar is read by wait() itself, through turn_executor; a local one    *)
(* (local_test_execution) by a thread of its own.  Harnesses: "codex" and  *)
(* "claude" can be resumed with a feedback, "deepseek" cannot.             *)
(***************************************************************************)
EXTENDS Naturals, Sequences, FiniteSets

CONSTANTS
    Harnesses,    \* the harnesses to be run
    Remote,       \* those whose turns run in the sidecar, the others locally
    Topics,       \* topics of the Agent's questions
    Substitution, \* the trial also provisions chaos_mesh_control (cases D7, D8)
    MaxAttempts,  \* RetryBudget.max_attempts
    MaxLines,     \* bound: lines with a message or an event
    MaxErrors     \* bound: failing model calls and observers, lagging drains

ASSUME HarnessAssumption ==
    /\ Harnesses \subseteq {"codex", "claude", "deepseek"} /\ Remote \subseteq Harnesses
    /\ Substitution \in BOOLEAN /\ MaxAttempts \in Nat \ {0}
    /\ {MaxLines, MaxErrors} \subseteq Nat /\ IsFiniteSet(Topics)

VARIABLES
    harness,
    pc,           \* where the thread in wait() is
    turn,         \* the feedback that the current turn delivers, 0 for the prompt
    schema,       \* the current command line asks for an output schema
    res,          \* what the last native turn ended with
    full,         \* the 16 MiB of native output are used up
    fb,           \* the outcome of each feedback, in the order they were sent
    queue,        \* _pending_feedback
    retries,      \* RetryBudget.retries, shared by all kinds of retry
    sid,          \* the native session id is known
    acted,        \* agent_activity_seen
    said,         \* the last of turn_messages, "none" if there is none
    pending,      \* topics of pending_questions
    replies,      \* answers collected by the running observe_turn_complete
    report,       \* last_assessment: "none", a "claim", or a "submitted" result
    repairing,    \* report_only
    decision,     \* the user decision file
    confirming,   \* a confirmation is being answered
    drain,        \* the reader: "on", "off", or a thread that "lags" behind its join
    clock,        \* "open" until the deadline is "over" or the session is "cancelled"
    lines, errors

session == <<turn, schema, res, full>>
budget == <<lines, errors>>
talk == <<said, pending, replies, report, repairing>>
tools == <<decision, confirming>>
feedback == <<fb, queue>>
vars == <<harness, pc, session, feedback, retries, sid, acted, talk, tools, drain,
          clock, budget>>
-----------------------------------------------------------------------------
NoResult == [ok |-> TRUE, timed |-> FALSE, cancelled |-> FALSE, cut |-> FALSE,
             why |-> "none"]

Init ==
    /\ harness \in Harnesses
    /\ pc = "turn" /\ turn = 0 /\ schema = (harness = "codex") /\ res = NoResult
    /\ full = FALSE /\ fb = <<>> /\ queue = <<>> /\ retries = 0
    /\ sid = FALSE /\ acted = FALSE /\ said = "none" /\ pending = {} /\ replies = 0
    /\ report = "none" /\ repairing = FALSE
    /\ decision = [approved |-> FALSE, repair |-> FALSE]
    /\ confirming = FALSE /\ drain = "off"
    /\ clock = "open"
    /\ lines = 0 /\ errors = 0

Resumable == harness # "deepseek"
Err == errors < MaxErrors /\ errors' = errors + 1 /\ lines' = lines

\* RetryBudget.consume succeeds
CanRetry == retries < MaxAttempts - 1

\* send_event: n feedbacks of one observer call
Send(n) ==
    /\ fb' = fb \o [i \in 1..n |-> IF Resumable THEN "queued" ELSE "unsupported"]
    /\ queue' = IF Resumable THEN queue \o [i \in 1..n |-> Len(fb) + i] ELSE queue
-----------------------------------------------------------------------------
(***************************************************************************)
(* A native turn: _run_turn.                                               *)
(***************************************************************************)
\* nothing is started after the deadline or past the output limit
TurnSkipped ==
    /\ pc = "turn" /\ (clock = "over" \/ full)
    /\ res' = IF clock = "over" THEN [NoResult EXCEPT !.ok = FALSE, !.timed = TRUE]
              ELSE [NoResult EXCEPT !.ok = FALSE, !.cut = TRUE]
    /\ pc' = "retry"
    /\ UNCHANGED <<harness, turn, schema, full, feedback, retries, sid, acted, talk, tools,
                   drain, clock, budget>>

TurnStarts ==
    /\ pc = "turn" /\ clock # "over" /\ ~full
    /\ pc' = "running" /\ drain' = "on" /\ res' = NoResult
    /\ UNCHANGED <<harness, turn, schema, full, feedback, retries, sid, acted, talk, tools, clock, budget>>

\* the process ends by itself, with an exit code and perhaps a known error text;
\* one that wrote too much is terminated, and reported as cancelled by the sidecar
Exit(ok, why, cut, stopped) ==
    /\ pc = "running" /\ pc' = "exited"
    /\ stopped => cut /\ harness \in Remote
    /\ res' = [NoResult EXCEPT !.ok = ok, !.why = why, !.cut = cut, !.cancelled = stopped]
    /\ full' = (full \/ cut)
    /\ UNCHANGED <<harness, turn, schema, feedback, retries, sid, acted, talk, tools, drain,
                   clock, budget>>

\* mutant: only a cancellation ends a turn that hangs
KillOnCancel(ok) ==
    /\ pc = "running" /\ clock = "cancelled" /\ pc' = "exited"
    /\ res' = [NoResult EXCEPT !.ok = ok, !.cancelled = TRUE]
    /\ UNCHANGED <<harness, turn, schema, full, feedback, retries, sid, acted, talk, tools,
                   drain, clock, budget>>
\* it is terminated, then killed, at the deadline or on cancellation
Kill(ok) ==
    /\ pc = "running" /\ clock # "open" /\ pc' = "exited"
    /\ res' = [NoResult EXCEPT !.ok = ok, !.cancelled = (clock = "cancelled"),
                               !.timed = (clock = "over")]
    /\ UNCHANGED <<harness, turn, schema, full, feedback, retries, sid, acted, talk, tools,
                   drain, clock, budget>>

\* the end of the output: the sidecar's exit frame comes after all lines, the thread
\* of a local process is joined for five seconds
Join(lags) ==
    /\ pc = "exited" /\ pc' = "complete"
    /\ lags => harness \notin Remote
    /\ drain' = IF lags THEN "lags" ELSE "off"
    /\ IF lags THEN Err ELSE UNCHANGED budget
    /\ UNCHANGED <<harness, session, feedback, retries, sid, acted, talk, tools, clock>>

\* an observer raised while a line was read, or the sidecar sent no exit frame: wait()
\* raises too, and nothing is settled
ObserverRaises ==
    /\ pc \in {"running", "exited"} /\ Err /\ pc' = "raised" /\ drain' = "off"
    /\ UNCHANGED <<harness, session, feedback, retries, sid, acted, talk, tools, clock>>

Live == pc \notin {"done", "raised"}
Deadline ==
    /\ Live /\ clock = "open" /\ clock' = "over"
    /\ UNCHANGED <<harness, pc, session, feedback, retries, sid, acted, talk, tools, drain,
                   budget>>
Cancel ==
    /\ Live /\ clock = "open" /\ clock' = "cancelled"
    /\ UNCHANGED <<harness, pc, session, feedback, retries, sid, acted, talk, tools, drain,
                   budget>>
-----------------------------------------------------------------------------
(***************************************************************************)
(* The reader: observe_line and consume_events for one line.               *)
(***************************************************************************)
Line == drain # "off" /\ lines < MaxLines /\ lines' = lines + 1 /\ errors' = errors

SessionIdLine ==
    /\ drain # "off" /\ ~sid /\ sid' = TRUE
    /\ UNCHANGED <<harness, pc, session, feedback, retries, acted, talk, tools, drain, clock,
                   budget>>

\* a message: prose, or a structured assessment; some ask a question
MessageLine(kind, topics) ==
    /\ Line /\ acted' = TRUE
    /\ said' = kind
    /\ pending' = pending \cup topics
    /\ report' = IF kind = "prose" THEN report ELSE kind
    /\ UNCHANGED <<harness, pc, session, feedback, retries, sid, replies, repairing, tools,
                   drain, clock>>

\* an event on which the campaign's observer returns a feedback
FeedbackLine ==
    /\ Line /\ acted' = TRUE /\ Send(1)
    /\ UNCHANGED <<harness, pc, session, retries, sid, talk, tools, drain, clock>>
-----------------------------------------------------------------------------
(***************************************************************************)
(* Tool calls of the running Agent.  A turn that may only repair the report*)
(* is started without MCP servers (claude), or with four of them disabled, *)
(* which leaves harness_channel and chaos_mesh_control (codex).            *)
(***************************************************************************)
ChannelReachable == ~repairing \/ harness = "codex"
ExecutorReachable == ~repairing \/ (harness = "codex" /\ Substitution)

\* the ToolCall is handled before the tool runs
ConfirmAsked ==
    /\ pc = "running" /\ ChannelReachable /\ ~confirming
    /\ confirming' = TRUE /\ acted' = TRUE
    /\ UNCHANGED <<harness, pc, session, feedback, retries, sid, talk, decision, drain,
                   clock, budget>>

\* HarnessChannelService.confirm: an approval replaces the decision file; the
\* server is stopped when wait() has returned
ConfirmAnswered(approved) ==
    /\ confirming /\ Live /\ confirming' = FALSE
    /\ decision' = IF approved THEN [approved |-> TRUE, repair |-> FALSE] ELSE decision
    /\ UNCHANGED <<harness, pc, session, feedback, retries, sid, acted, talk, drain, clock,
                   budget>>

\* create_experiment behind _assert_not_report_only and the user's decision
CreateExperiment ==
    /\ pc = "running" /\ ExecutorReachable /\ decision.approved /\ ~decision.repair
    /\ acted' = TRUE
    /\ UNCHANGED <<harness, pc, session, feedback, retries, sid, talk, tools, drain, clock,
                   budget>>

\* harness_submit_result with a valid result
SubmitResult ==
    /\ pc = "running" /\ ChannelReachable /\ report # "submitted"
    /\ report' = "submitted" /\ acted' = TRUE
    /\ UNCHANGED <<harness, pc, session, feedback, retries, sid, said, pending, replies,
                   repairing, tools, drain, clock, budget>>
-----------------------------------------------------------------------------
(***************************************************************************)
(* observe_turn_complete.                                                  *)
(***************************************************************************)
Failed(r) == ~r.ok \/ r.timed \/ r.cancelled

\* no message was left to read, or the result was submitted
CompleteQuietly ==
    /\ pc = "complete" /\ (Failed(res) \/ report = "submitted" \/ said = "none")
    /\ pc' = "retry"
    /\ IF ~Failed(res) /\ report = "submitted"
       THEN said' = "none" /\ pending' = {} ELSE UNCHANGED <<said, pending>>
    /\ UNCHANGED <<harness, session, feedback, retries, sid, acted, replies, report, repairing,
                   tools, drain, clock, budget>>

ToBeRead == pc = "complete" /\ ~Failed(res) /\ report # "submitted" /\ said # "none"

\* mutant: a structured message is taken for an answer to everything
TakeStructuredOnly ==
    /\ ToBeRead /\ said # "prose"
    /\ pc' = "retry" /\ said' = "none"
    /\ UNCHANGED <<harness, session, feedback, retries, sid, acted, pending, replies, report,
                   repairing, tools, drain, clock, budget>>
TakeStructured ==
    /\ ToBeRead /\ said # "prose"
    /\ pc' = "answer" /\ said' = "none" /\ report' = said
    /\ UNCHANGED <<harness, session, feedback, retries, sid, acted, pending, replies, repairing,
                   tools, drain, clock, budget>>

\* the model reads the prose: an assessment, questions, both or neither
Interpret(assessment, topics) ==
    /\ ToBeRead /\ said = "prose"
    /\ report' = assessment /\ pending' = pending \cup topics /\ said' = "none"
    /\ IF assessment = "none" /\ pending' = {} /\ CanRetry
       THEN \* ask once more, for the report only
            /\ retries' = retries + 1 /\ repairing' = TRUE
            /\ decision' = [decision EXCEPT !.repair = TRUE]
            /\ Send(1) /\ pc' = "retry"
       ELSE pc' = "answer" /\ UNCHANGED <<retries, repairing, decision, feedback>>
    /\ UNCHANGED <<harness, session, sid, acted, replies, confirming, drain, clock,
                   budget>>

\* bounded_reply_call: a failing model call is repeated from the same budget
ModelFails ==
    /\ (pc = "answer" /\ pending # {}) \/ (ToBeRead /\ said = "prose")
    /\ Err
    /\ IF CanRetry THEN retries' = retries + 1 /\ pc' = pc
       ELSE retries' = retries /\ pc' = "raised"
    /\ UNCHANGED <<harness, session, feedback, sid, acted, talk, tools, drain, clock>>

\* one question is answered; only an approval or a rejection is a decision, and
\* none is taken while the report is repaired
Answer(topic, verdict) ==
    /\ pc = "answer" /\ topic \in pending
    /\ pending' = pending \ {topic} /\ replies' = replies + 1
    /\ decision' = IF ~repairing /\ verdict # "fact"
                   THEN [approved |-> verdict = "approve", repair |-> FALSE] ELSE decision
    /\ UNCHANGED <<harness, pc, session, feedback, retries, sid, acted, said, report, repairing,
                   confirming, drain, clock, budget>>

\* the replies are queued together; without any, the campaign may have a feedback
AnswerAll(n) ==
    /\ pc = "answer" /\ pending = {} /\ pc' = "retry" /\ replies' = 0
    /\ \/ repairing /\ n = 0
       \/ ~repairing /\ replies > 0 /\ n = replies
       \/ ~repairing /\ replies = 0 /\ n \in 0..1
    /\ Send(n)
    /\ UNCHANGED <<harness, session, retries, sid, acted, said, pending, report, repairing,
                   tools, drain, clock, budget>>
-----------------------------------------------------------------------------
(***************************************************************************)
(* _run_with_retry after a turn, then the loop of wait().                  *)
(***************************************************************************)
Untouched == ~acted /\ ~res.cancelled /\ ~res.timed /\ ~res.cut
Rerun == Untouched /\ (res.why = "transient" \/ (res.why = "schema" /\ schema))

Retry ==
    /\ pc = "retry" /\ Rerun /\ CanRetry
    /\ retries' = retries + 1 /\ pc' = "turn"
    /\ schema' = (schema /\ res.why # "schema")
    /\ UNCHANGED <<harness, turn, res, full, feedback, sid, acted, talk, tools, drain, clock,
                   budget>>

\* the turn is over: with the budget used up, or a schema error, it has failed
Over ==
    IF Rerun THEN [NoResult EXCEPT !.ok = FALSE]
    ELSE [res EXCEPT !.ok = @ /\ res.why # "schema", !.cut = @ \/ full]

Delivered(r) == ~Failed(r) /\ ~r.cut

NoRetry ==
    /\ pc = "retry" /\ ~(Rerun /\ CanRetry)
    /\ res' = Over /\ turn' = 0
    /\ fb' = IF turn = 0 THEN fb
             ELSE [fb EXCEPT ![turn] = IF Delivered(res') THEN "delivered" ELSE "failed"]
    /\ pc' = "loop"
    /\ UNCHANGED <<harness, schema, full, queue, retries, sid, acted, talk, tools, drain,
                   clock, budget>>

\* what _pop_feedback takes, and leaves
Pop == Head(queue)
Rest == Tail(queue)

Dispatch ==
    /\ pc = "loop" /\ ~Failed(res) /\ queue # <<>>
    /\ queue' = Rest
    /\ IF sid THEN /\ fb' = [fb EXCEPT ![Pop] = "dispatched"]
                   /\ turn' = Pop /\ schema' = (harness = "codex") /\ pc' = "turn"
       ELSE fb' = [fb EXCEPT ![Pop] = "no_session"] /\ UNCHANGED <<turn, schema, pc>>
    /\ UNCHANGED <<harness, res, full, retries, sid, acted, talk, tools, drain, clock, budget>>

\* mutant: what is left in the queue is forgotten
Forgotten == fb
\* _fail_pending_feedback
PendingFailed == [i \in DOMAIN fb |-> IF fb[i] = "queued" THEN "failed" ELSE fb[i]]

Finish ==
    /\ pc = "loop" /\ (Failed(res) \/ queue = <<>>) /\ pc' = "done"
    /\ fb' = PendingFailed /\ queue' = <<>> /\ confirming' = FALSE
    /\ UNCHANGED <<harness, session, retries, sid, acted, talk, decision, drain,
                   clock, budget>>

Ended == ~Live /\ UNCHANGED vars
-----------------------------------------------------------------------------
Kinds == {"prose", "claim"}

Wait ==
    \/ TurnSkipped \/ TurnStarts \/ CompleteQuietly \/ TakeStructured \/ Retry \/ NoRetry
    \/ Dispatch \/ Finish \/ ModelFails
    \/ \E b \in BOOLEAN : Kill(b) \/ Join(b)
    \/ \E a \in {"none", "claim"}, ts \in SUBSET Topics : Interpret(a, ts)
    \/ \E t \in Topics, v \in {"approve", "reject", "fact"} : Answer(t, v)
    \/ \E n \in 0..Cardinality(Topics) + 1 : AnswerAll(n)

Agent ==
    \/ \E ok, cut, stopped \in BOOLEAN, why \in {"none", "transient", "schema"} :
          Exit(ok, why, cut, stopped)
    \/ SessionIdLine \/ FeedbackLine
    \/ \E k \in Kinds, ts \in SUBSET Topics : MessageLine(k, ts)
    \/ ObserverRaises
    \/ ConfirmAsked \/ CreateExperiment \/ SubmitResult
    \/ \E b \in BOOLEAN : ConfirmAnswered(b)

Next == Wait \/ Agent \/ Deadline \/ Cancel \/ Ended

Spec == Init /\ [][Next]_vars

\* The thread in wait() runs, and time passes; the Agent owes nothing.
FairSpec == Spec /\ WF_vars(Wait) /\ WF_vars(Deadline)
-----------------------------------------------------------------------------
(***************************************************************************)
(* Properties.                                                             *)
(***************************************************************************)
Results == [ok : BOOLEAN, timed : BOOLEAN, cancelled : BOOLEAN, cut : BOOLEAN,
            why : {"none", "transient", "schema"}]
Outcomes == {"queued", "dispatched", "delivered", "failed", "unsupported", "no_session"}

\* Type correctness; in particular the retries of all kinds together stay within
\* "One shared first-attempt-plus-two-retries budget per Trial" (session.py 75).
TypeOK ==
    /\ harness \in Harnesses
    /\ pc \in {"turn", "running", "exited", "complete", "answer", "retry", "loop", "done",
               "raised"}
    /\ turn \in 0..Len(fb) /\ schema \in BOOLEAN /\ full \in BOOLEAN
    /\ res \in Results /\ fb \in Seq(Outcomes)
    /\ queue \in Seq(DOMAIN fb) /\ retries \in 0..MaxAttempts - 1
    /\ sid \in BOOLEAN /\ acted \in BOOLEAN /\ said \in Kinds \cup {"none"}
    /\ pending \subseteq Topics /\ replies \in Nat
    /\ report \in {"none", "claim", "submitted"} /\ repairing \in BOOLEAN
    /\ decision \in [approved : BOOLEAN, repair : BOOLEAN]
    /\ confirming \in BOOLEAN
    /\ drain \in {"on", "off", "lags"} /\ clock \in {"open", "over", "cancelled"}
    /\ lines \in 0..MaxLines /\ errors \in 0..MaxErrors

Settled == {"delivered", "failed", "unsupported", "no_session"}
Completed == pc = "done" /\ Delivered(res)

\* When wait() returns, every feedback that an observer sent has an outcome on
\* record, and a session that completed lost none but those it had no native session
\* id for (session.py 214-314: the queue is filled by the drain thread and by the
\* turn observer while the loop empties it).  A drain thread that outlived its join
\* is exempt.
FeedbackAccounted ==
    pc = "done" /\ drain # "lags" =>
        \A i \in DOMAIN fb : fb[i] \in Settled /\ (Completed => fb[i] # "failed")

\* A session that completed left no question of the Agent unanswered
\* (harness_runtime.py observe_turn_complete), unless the drain thread lagged.
QuestionsSettled == Completed /\ drain # "lags" => pending = {}

\* Every session ends: the deadline cuts a turn that hangs, and retries, repairs and
\* feedback turns do not go on for ever (session.py wait, _run_with_retry).
SessionEnds == <>~Live
=============================================================================
