------------------------ MODULE HarnessSessionProofs ------------------------
(***************************************************************************)
(* Proofs about HarnessSession: for any number of turns, questions, retries*)
(* and feedbacks, what an observer sent has an outcome when wait() returns,*)
(* and a completed session left no question open.                          *)
(***************************************************************************)
EXTENDS HarnessSession, FiniteSetTheorems, SequenceTheorems, TLAPS

Pcs == {"turn", "running", "exited", "complete", "answer", "retry", "loop", "done", "raised"}

\* What a feedback, the queue and the turn say of each other: only the current turn's
\* feedback is dispatched, and every queued one is in the queue.
Accounts ==
    /\ \A i \in DOMAIN fb : fb[i] = "dispatched" => turn = i
    /\ \A i \in DOMAIN fb : fb[i] = "queued" => \E j \in DOMAIN queue : queue[j] = i
    /\ \A i \in DOMAIN fb : fb[i] = "failed" => full \/ (pc \in {"loop", "done"} /\ Failed(res))

\* What the last turn's result and the output limit say of each other, and when wait()
\* is done with its turn, its queue and its drain thread.
Turns ==
    /\ drain = "on" => pc \in {"running", "exited"}
    /\ pc \in {"loop", "done"} => turn = 0
    /\ res.cut => full
    /\ pc \in {"loop", "done"} /\ full => Failed(res) \/ res.cut
    /\ pc = "done" /\ drain # "lags" => \A i \in DOMAIN fb : fb[i] # "queued"

\* A question is pending only while a message that is still to be read raised it, or
\* while it is being answered; a lagging drain thread may add one behind wait()'s back.
Asked ==
    /\ ~acted => pending = {} /\ said = "none"
    /\ pc \notin {"answer", "raised"} /\ said = "none" => pending = {}
    /\ pc \in {"retry", "loop", "done"} /\ ~Failed(res) /\ drain # "lags" => pending = {}

IInv == TypeOK /\ Accounts /\ Turns /\ Asked
-----------------------------------------------------------------------------
(***************************************************************************)
(* Sequences.                                                              *)
(***************************************************************************)
\* A feedback's number is the position of its outcome.
LEMMA Positions ==
    ASSUME TypeOK
    PROVE  /\ Len(fb) \in Nat /\ DOMAIN fb = 1..Len(fb)
           /\ fb \in [1..Len(fb) -> Outcomes]
           /\ Len(queue) \in Nat /\ DOMAIN queue = 1..Len(queue)
           /\ queue \in [1..Len(queue) -> DOMAIN fb]
<1>1. fb \in Seq(Outcomes) /\ queue \in Seq(DOMAIN fb)
  BY DEF TypeOK
<1> QED
  BY <1>1, LenProperties

\* A function on 1..n is a sequence.
LEMMA FunctionIsSeq ==
    ASSUME NEW S, NEW n \in Nat, NEW f \in [1..n -> S]
    PROVE  f \in Seq(S) /\ Len(f) = n
<1>1. f \in Seq(S)
  BY SeqDef
<1> QED
  BY <1>1, LenProperties

\* Cited where an observer sends n feedbacks: the old outcomes stay, the new ones are
\* queued, and are in the queue, or are unsupported.
LEMMA Sent ==
    ASSUME TypeOK, NEW n \in Nat, Send(n)
    PROVE  /\ fb' \in Seq(Outcomes) /\ queue' \in Seq(DOMAIN fb')
           /\ DOMAIN fb' = 1..(Len(fb) + n) /\ Len(fb') = Len(fb) + n
           /\ \A i \in DOMAIN fb : i \in DOMAIN fb' /\ fb'[i] = fb[i]
           /\ \A i \in DOMAIN fb' \ DOMAIN fb :
                /\ fb'[i] \in {"queued", "unsupported"}
                /\ fb'[i] = "queued" => \E j \in DOMAIN queue' : queue'[j] = i
           /\ \A j \in DOMAIN queue : j \in DOMAIN queue' /\ queue'[j] = queue[j]
<1> DEFINE o == IF Resumable THEN "queued" ELSE "unsupported"
           s == [i \in 1..n |-> o]
           L == Len(fb)
           D == 1..(L + n)
           t == [i \in 1..n |-> L + i]
<1>1. /\ L \in Nat /\ DOMAIN fb = 1..L /\ fb \in Seq(Outcomes)
      /\ Len(queue) \in Nat /\ DOMAIN queue = 1..Len(queue) /\ queue \in Seq(DOMAIN fb)
  BY Positions DEF TypeOK
<1>2. o \in {"queued", "unsupported"} /\ o \in Outcomes /\ (o = "queued" <=> Resumable)
  BY DEF Outcomes
<1>3. fb' = fb \o s /\ queue' = IF Resumable THEN queue \o t ELSE queue
  BY DEF Send
<1> HIDE DEF o
<1>4. s \in [1..n -> Outcomes] /\ \A i \in 1..n : s[i] = o
  BY <1>2
<1>5. s \in Seq(Outcomes) /\ Len(s) = n
  BY <1>4, FunctionIsSeq
<1>6. t \in [1..n -> D] /\ \A i \in 1..n : t[i] = L + i
  BY <1>1
<1>7. t \in Seq(D) /\ Len(t) = n
  BY <1>6, FunctionIsSeq
<1> HIDE DEF s, t
<1>8. /\ fb' \in Seq(Outcomes) /\ Len(fb') = L + n
      /\ \A i \in 1..(L + n) : fb'[i] = IF i <= L THEN fb[i] ELSE s[i - L]
  BY <1>1, <1>3, <1>5, ConcatProperties
<1>9. DOMAIN fb' = D
  BY <1>8, LenProperties
<1>10. queue \in Seq(D)
  <2>1. DOMAIN fb \subseteq D
    BY <1>1
  <2> QED
    BY <1>1, <2>1, SeqMonotonic
<1>11. /\ Len(queue \o t) = Len(queue) + n /\ queue \o t \in Seq(D)
       /\ \A i \in 1..(Len(queue) + n) :
            (queue \o t)[i] = IF i <= Len(queue) THEN queue[i] ELSE t[i - Len(queue)]
  BY <1>7, <1>10, ConcatProperties
<1>12. DOMAIN (queue \o t) = 1..(Len(queue) + n)
  BY <1>11, LenProperties
<1>13. queue' \in Seq(D) /\ \A j \in DOMAIN queue : j \in DOMAIN queue' /\ queue'[j] = queue[j]
  <2>1. CASE Resumable
    BY <1>1, <1>3, <1>11, <1>12, <2>1
  <2>2. CASE ~Resumable
    BY <1>1, <1>3, <1>10, <2>2
  <2> QED
    BY <2>1, <2>2
<1>14. \A i \in DOMAIN fb : i \in DOMAIN fb' /\ fb'[i] = fb[i]
  BY <1>1, <1>8, <1>9
<1>15. ASSUME NEW i \in DOMAIN fb' \ DOMAIN fb
       PROVE  /\ fb'[i] \in {"queued", "unsupported"}
              /\ fb'[i] = "queued" => \E j \in DOMAIN queue' : queue'[j] = i
  <2>1. i \in 1..(L + n) /\ i > L /\ i - L \in 1..n
    BY <1>1, <1>9
  <2>2. fb'[i] = o
    BY <1>1, <1>4, <1>8, <2>1
  <2>3. ASSUME fb'[i] = "queued" PROVE \E j \in DOMAIN queue' : queue'[j] = i
    <3> DEFINE j == Len(queue) + (i - L)
    <3>1. Resumable
      BY <1>2, <2>2, <2>3
    <3>2. j \in 1..(Len(queue) + n) /\ j > Len(queue) /\ j - Len(queue) = i - L
      BY <1>1, <2>1
    <3>3. (queue \o t)[j] = t[i - L]
      BY <1>1, <1>11, <3>2
    <3>4. t[i - L] = i
      BY <1>1, <1>6, <2>1
    <3>5. j \in DOMAIN queue' /\ queue'[j] = i
      BY <1>3, <1>12, <3>1, <3>2, <3>3, <3>4
    <3> QED
      BY <3>5
  <2> QED
    BY <1>2, <2>2, <2>3
<1> QED
  BY <1>8, <1>9, <1>13, <1>14, <1>15
-----------------------------------------------------------------------------
(***************************************************************************)
(* Steps that leave the feedbacks alone, one lemma per action.             *)
(***************************************************************************)
\* TurnSkipped keeps the invariant: a turn past the output limit fails.
LEMMA SkippedStep ==
    ASSUME HarnessAssumption, IInv, TurnSkipped
    PROVE  IInv'
<1>1. TypeOK'
  <2>1. res' \in Results
    <3>1. CASE clock = "over"
      BY <3>1 DEF TurnSkipped, NoResult, Results
    <3>2. CASE clock # "over"
      BY <3>2 DEF TurnSkipped, NoResult, Results
    <3> QED
      BY <3>1, <3>2
  <2> QED
    BY <2>1 DEF IInv, TurnSkipped, TypeOK, session, feedback, talk, tools, budget
<1>2. Accounts'
  BY DEF IInv, TurnSkipped, NoResult, Results, Failed, TypeOK, Accounts, Turns, session,
     feedback
<1>3. Turns'
  BY DEF IInv, TurnSkipped, NoResult, Results, Failed, TypeOK, Turns, session, feedback
<1>4. Asked'
  BY DEF IInv, TurnSkipped, NoResult, Results, Failed, TypeOK, Turns, Asked, session, talk
<1> QED
  BY <1>1, <1>2, <1>3, <1>4 DEF IInv

\* TurnStarts keeps it: the result and the drain thread are new.
LEMMA StartStep ==
    ASSUME HarnessAssumption, IInv, TurnStarts
    PROVE  IInv'
<1>1. TypeOK'
  BY DEF IInv, TurnStarts, NoResult, Results, Failed, TypeOK, session, feedback, talk,
     tools, budget
<1>2. Accounts'
  BY DEF IInv, TurnStarts, NoResult, Results, Failed, TypeOK, Accounts, Turns, session,
     feedback
<1>3. Turns'
  BY DEF IInv, TurnStarts, NoResult, Results, Failed, TypeOK, Turns, session, feedback
<1>4. Asked'
  BY DEF IInv, TurnStarts, NoResult, Results, Failed, TypeOK, Turns, Asked, session, talk
<1> QED
  BY <1>1, <1>2, <1>3, <1>4 DEF IInv

\* Exit keeps it: an output that was cut is remembered in full.
LEMMA ExitStep ==
    ASSUME HarnessAssumption, IInv, NEW ok \in BOOLEAN, NEW cut \in BOOLEAN,
           NEW stopped \in BOOLEAN, NEW why \in {"none", "transient", "schema"},
           Exit(ok, why, cut, stopped)
    PROVE  IInv'
<1>1. TypeOK'
  <2>1. res' \in Results
    BY DEF Exit, NoResult, Results
  <2>2. full' \in BOOLEAN
    BY DEF Exit
  <2> QED
    BY <2>1, <2>2 DEF IInv, Exit, TypeOK, session, feedback, talk, tools, budget
<1>2. Accounts'
  BY DEF IInv, Exit, NoResult, Results, Failed, TypeOK, Accounts, Turns, session, feedback
<1>3. Turns'
  BY DEF IInv, Exit, NoResult, Results, Failed, TypeOK, Turns, session, feedback
<1>4. Asked'
  BY DEF IInv, Exit, NoResult, Results, Failed, TypeOK, Turns, Asked, session, talk
<1> QED
  BY <1>1, <1>2, <1>3, <1>4 DEF IInv

\* Kill keeps it.
LEMMA KillStep ==
    ASSUME HarnessAssumption, IInv, NEW ok \in BOOLEAN, Kill(ok)
    PROVE  IInv'
<1>1. TypeOK'
  <2>1. res' \in Results
    <3> DEFINE c == (clock = "cancelled")
               t == (clock = "over")
    <3>1. c \in BOOLEAN /\ t \in BOOLEAN
      OBVIOUS
    <3>2. res' = [NoResult EXCEPT !.ok = ok, !.cancelled = c, !.timed = t]
      BY DEF Kill
    <3> HIDE DEF c, t
    <3> QED
      BY <3>1, <3>2 DEF NoResult, Results
  <2> QED
    BY <2>1 DEF IInv, Kill, TypeOK, session, feedback, talk, tools, budget
<1>2. Accounts'
  BY DEF IInv, Kill, NoResult, Results, Failed, TypeOK, Accounts, Turns, session, feedback
<1>3. Turns'
  BY DEF IInv, Kill, NoResult, Results, Failed, TypeOK, Turns, session, feedback
<1>4. Asked'
  BY DEF IInv, Kill, NoResult, Results, Failed, TypeOK, Turns, Asked, session, talk
<1> QED
  BY <1>1, <1>2, <1>3, <1>4 DEF IInv

\* Join keeps it: the drain thread is gone or lags.
LEMMA JoinStep ==
    ASSUME HarnessAssumption, IInv, NEW lags \in BOOLEAN, Join(lags)
    PROVE  IInv'
<1>1. TypeOK'
  BY DEF IInv, Join, Err, TypeOK, session, feedback, talk, tools, budget
<1>2. Accounts'
  BY DEF IInv, Join, Err, TypeOK, Accounts, Turns, session, feedback
<1>3. Turns'
  BY DEF IInv, Join, Err, TypeOK, Turns, session, feedback
<1>4. Asked'
  BY DEF IInv, Join, Err, TypeOK, Turns, Asked, session, talk
<1> QED
  BY <1>1, <1>2, <1>3, <1>4 DEF IInv

\* ObserverRaises keeps it.
LEMMA RaisesStep ==
    ASSUME HarnessAssumption, IInv, ObserverRaises
    PROVE  IInv'
<1>1. TypeOK'
  BY DEF IInv, ObserverRaises, Err, TypeOK, session, feedback, talk, tools, budget
<1>2. Accounts'
  BY DEF IInv, ObserverRaises, Err, TypeOK, Accounts, Turns, session, feedback
<1>3. Turns'
  BY DEF IInv, ObserverRaises, Err, TypeOK, Turns, session, feedback
<1>4. Asked'
  BY DEF IInv, ObserverRaises, Err, TypeOK, Turns, Asked, session, talk
<1> QED
  BY <1>1, <1>2, <1>3, <1>4 DEF IInv

\* The clock keeps it.
LEMMA ClockStep ==
    ASSUME HarnessAssumption, IInv, Deadline \/ Cancel
    PROVE  IInv'
<1>1. TypeOK'
  BY DEF IInv, Deadline, Cancel, TypeOK, session, feedback, talk, tools, budget
<1>2. Accounts'
  BY DEF IInv, Deadline, Cancel, TypeOK, Accounts, Turns, session, feedback
<1>3. Turns'
  BY DEF IInv, Deadline, Cancel, TypeOK, Turns, session, feedback
<1>4. Asked'
  BY DEF IInv, Deadline, Cancel, TypeOK, Turns, Asked, session, talk
<1> QED
  BY <1>1, <1>2, <1>3, <1>4 DEF IInv

\* SessionIdLine keeps it.
LEMMA SessionIdStep ==
    ASSUME HarnessAssumption, IInv, SessionIdLine
    PROVE  IInv'
<1>1. TypeOK'
  BY DEF IInv, SessionIdLine, TypeOK, session, feedback, talk, tools, budget
<1>2. Accounts'
  BY DEF IInv, SessionIdLine, TypeOK, Accounts, Turns, session, feedback
<1>3. Turns'
  BY DEF IInv, SessionIdLine, TypeOK, Turns, session, feedback
<1>4. Asked'
  BY DEF IInv, SessionIdLine, TypeOK, Turns, Asked, session, talk
<1> QED
  BY <1>1, <1>2, <1>3, <1>4 DEF IInv

\* MessageLine keeps it: a message is said whenever a question becomes pending.
LEMMA MessageStep ==
    ASSUME HarnessAssumption, IInv, NEW kind \in Kinds, NEW topics \in SUBSET Topics,
           MessageLine(kind, topics)
    PROVE  IInv'
<1>1. TypeOK'
  BY DEF IInv, MessageLine, Line, Kinds, TypeOK, session, feedback, talk, tools, budget
<1>2. Accounts'
  BY DEF IInv, MessageLine, Line, Kinds, TypeOK, Accounts, Turns, session, feedback
<1>3. Turns'
  BY DEF IInv, MessageLine, Line, Kinds, TypeOK, Turns, session, feedback
<1>4. Asked'
  BY DEF IInv, MessageLine, Line, Kinds, TypeOK, Turns, Asked, session, talk
<1> QED
  BY <1>1, <1>2, <1>3, <1>4 DEF IInv

\* ConfirmAsked keeps it.
LEMMA ConfirmAskedStep ==
    ASSUME HarnessAssumption, IInv, ConfirmAsked
    PROVE  IInv'
<1>1. TypeOK'
  BY DEF IInv, ConfirmAsked, TypeOK, session, feedback, talk, tools, budget
<1>2. Accounts'
  BY DEF IInv, ConfirmAsked, TypeOK, Accounts, Turns, session, feedback
<1>3. Turns'
  BY DEF IInv, ConfirmAsked, TypeOK, Turns, session, feedback
<1>4. Asked'
  BY DEF IInv, ConfirmAsked, TypeOK, Turns, Asked, session, talk
<1> QED
  BY <1>1, <1>2, <1>3, <1>4 DEF IInv

\* ConfirmAnswered keeps it.
LEMMA ConfirmAnsweredStep ==
    ASSUME HarnessAssumption, IInv, NEW approved \in BOOLEAN, ConfirmAnswered(approved)
    PROVE  IInv'
<1>1. TypeOK'
  <2>1. decision' \in [approved : BOOLEAN, repair : BOOLEAN]
    <3>1. CASE approved
      BY <3>1 DEF ConfirmAnswered
    <3>2. CASE ~approved
      BY <3>2 DEF IInv, ConfirmAnswered, TypeOK
    <3> QED
      BY <3>1, <3>2
  <2>2. (confirming \in BOOLEAN)'
    BY DEF ConfirmAnswered
  <2>3. UNCHANGED <<harness, pc, session, feedback, retries, sid, acted, talk,
                    drain, clock, budget>>
    BY DEF ConfirmAnswered
  <2> QED
    BY <2>1, <2>2, <2>3 DEF IInv, TypeOK, session, feedback, talk, budget
<1>2. Accounts'
  BY DEF IInv, ConfirmAnswered, TypeOK, Accounts, Turns, session, feedback
<1>3. Turns'
  BY DEF IInv, ConfirmAnswered, TypeOK, Turns, session, feedback
<1>4. Asked'
  BY DEF IInv, ConfirmAnswered, TypeOK, Turns, Asked, session, talk
<1> QED
  BY <1>1, <1>2, <1>3, <1>4 DEF IInv

\* CreateExperiment keeps it.
LEMMA CreateStep ==
    ASSUME HarnessAssumption, IInv, CreateExperiment
    PROVE  IInv'
<1>1. TypeOK'
  BY DEF IInv, CreateExperiment, TypeOK, session, feedback, talk, tools, budget
<1>2. Accounts'
  BY DEF IInv, CreateExperiment, TypeOK, Accounts, Turns, session, feedback
<1>3. Turns'
  BY DEF IInv, CreateExperiment, TypeOK, Turns, session, feedback
<1>4. Asked'
  BY DEF IInv, CreateExperiment, TypeOK, Turns, Asked, session, talk
<1> QED
  BY <1>1, <1>2, <1>3, <1>4 DEF IInv

\* SubmitResult keeps it.
LEMMA SubmitStep ==
    ASSUME HarnessAssumption, IInv, SubmitResult
    PROVE  IInv'
<1>1. TypeOK'
  BY DEF IInv, SubmitResult, TypeOK, session, feedback, talk, tools, budget
<1>2. Accounts'
  BY DEF IInv, SubmitResult, TypeOK, Accounts, Turns, session, feedback
<1>3. Turns'
  BY DEF IInv, SubmitResult, TypeOK, Turns, session, feedback
<1>4. Asked'
  BY DEF IInv, SubmitResult, TypeOK, Turns, Asked, session, talk
<1> QED
  BY <1>1, <1>2, <1>3, <1>4 DEF IInv

\* CompleteQuietly keeps it: a submitted result settles the questions.
LEMMA QuietStep ==
    ASSUME HarnessAssumption, IInv, CompleteQuietly
    PROVE  IInv'
<1>1. TypeOK'
  BY DEF IInv, CompleteQuietly, Failed, TypeOK, session, feedback, talk, tools, budget
<1>2. Accounts'
  BY DEF IInv, CompleteQuietly, Failed, TypeOK, Accounts, Turns, session, feedback
<1>3. Turns'
  BY DEF IInv, CompleteQuietly, Failed, TypeOK, Turns, session, feedback
<1>4. Asked'
  BY DEF IInv, CompleteQuietly, Failed, TypeOK, Turns, Asked, session, talk
<1> QED
  BY <1>1, <1>2, <1>3, <1>4 DEF IInv

\* TakeStructured keeps it: the questions are to be answered.
LEMMA StructuredStep ==
    ASSUME HarnessAssumption, IInv, TakeStructured
    PROVE  IInv'
<1>1. TypeOK'
  BY DEF IInv, TakeStructured, ToBeRead, Kinds, TypeOK, session, feedback, talk, tools,
     budget
<1>2. Accounts'
  BY DEF IInv, TakeStructured, ToBeRead, Kinds, TypeOK, Accounts, Turns, session, feedback
<1>3. Turns'
  BY DEF IInv, TakeStructured, ToBeRead, Kinds, TypeOK, Turns, session, feedback
<1>4. Asked'
  BY DEF IInv, TakeStructured, ToBeRead, Kinds, TypeOK, Turns, Asked, session, talk
<1> QED
  BY <1>1, <1>2, <1>3, <1>4 DEF IInv

\* ModelFails keeps it: a retry is taken from the budget while there is one.
LEMMA ModelFailsStep ==
    ASSUME HarnessAssumption, IInv, ModelFails
    PROVE  IInv'
<1>1. TypeOK'
  BY DEF IInv, ModelFails, Err, CanRetry, HarnessAssumption, ToBeRead, TypeOK, session,
     feedback, talk, tools, budget
<1>2. Accounts'
  BY DEF IInv, ModelFails, Err, CanRetry, HarnessAssumption, ToBeRead, TypeOK, Accounts,
     Turns, session, feedback
<1>3. Turns'
  BY DEF IInv, ModelFails, Err, CanRetry, HarnessAssumption, ToBeRead, TypeOK, Turns,
     session, feedback
<1>4. Asked'
  BY DEF IInv, ModelFails, Err, CanRetry, HarnessAssumption, ToBeRead, TypeOK, Turns,
     Asked, session, talk
<1> QED
  BY <1>1, <1>2, <1>3, <1>4 DEF IInv

\* Answer keeps it.
LEMMA AnswerStep ==
    ASSUME HarnessAssumption, IInv, NEW topic \in Topics,
           NEW verdict \in {"approve", "reject", "fact"}, Answer(topic, verdict)
    PROVE  IInv'
<1>1. TypeOK'
  BY DEF IInv, Answer, TypeOK, session, feedback, talk, tools, budget
<1>2. Accounts'
  BY DEF IInv, Answer, TypeOK, Accounts, Turns, session, feedback
<1>3. Turns'
  BY DEF IInv, Answer, TypeOK, Turns, session, feedback
<1>4. Asked'
  BY DEF IInv, Answer, TypeOK, Turns, Asked, session, talk
<1> QED
  BY <1>1, <1>2, <1>3, <1>4 DEF IInv

\* Retry keeps it: a turn is run again only when the Agent did nothing.
LEMMA RetryStep ==
    ASSUME HarnessAssumption, IInv, Retry
    PROVE  IInv'
<1>1. TypeOK'
  BY DEF IInv, Retry, Rerun, Untouched, CanRetry, HarnessAssumption, Results, TypeOK,
     session, feedback, talk, tools, budget
<1>2. Accounts'
  BY DEF IInv, Retry, Rerun, Untouched, CanRetry, HarnessAssumption, Results, TypeOK,
     Accounts, Turns, session, feedback
<1>3. Turns'
  BY DEF IInv, Retry, Rerun, Untouched, CanRetry, HarnessAssumption, Results, TypeOK,
     Turns, session, feedback
<1>4. Asked'
  BY DEF IInv, Retry, Rerun, Untouched, CanRetry, HarnessAssumption, Results, TypeOK,
     Turns, Asked, session, talk
<1> QED
  BY <1>1, <1>2, <1>3, <1>4 DEF IInv
-----------------------------------------------------------------------------
(***************************************************************************)
(* Steps that send a feedback, dispatch one or settle it.                  *)
(***************************************************************************)
\* Sending keeps the accounts: the new feedbacks are queued or unsupported.
LEMMA SentAccounts ==
    ASSUME IInv, NEW n \in Nat, Send(n), turn' = turn, full' = full,
           pc \notin {"loop", "done"} \/ (pc' = pc /\ res' = res)
    PROVE  Accounts'
<1>1. /\ \A i \in DOMAIN fb : i \in DOMAIN fb' /\ fb'[i] = fb[i]
      /\ \A i \in DOMAIN fb' \ DOMAIN fb :
           /\ fb'[i] \in {"queued", "unsupported"}
           /\ fb'[i] = "queued" => \E j \in DOMAIN queue' : queue'[j] = i
      /\ \A j \in DOMAIN queue : j \in DOMAIN queue' /\ queue'[j] = queue[j]
  BY Sent DEF IInv
<1> QED
  BY <1>1 DEF IInv, Accounts, Failed

\* FeedbackLine keeps the invariant; a drain thread that lags may still send.
LEMMA FeedbackStep ==
    ASSUME HarnessAssumption, IInv, FeedbackLine
    PROVE  IInv'
<1>1. Send(1) /\ UNCHANGED <<harness, pc, session, retries, sid, talk, tools, drain, clock>>
  BY DEF FeedbackLine
<1>2. fb' \in Seq(Outcomes) /\ queue' \in Seq(DOMAIN fb') /\ Len(fb') = Len(fb) + 1
  BY <1>1, Sent DEF IInv
<1>3. Len(fb) \in Nat
  BY Positions DEF IInv
<1>4. TypeOK'
  BY <1>1, <1>2, <1>3 DEF IInv, FeedbackLine, Line, TypeOK, session, talk, tools
<1>5. Accounts'
  BY <1>1, SentAccounts DEF session
<1>6. Turns'
  BY <1>1 DEF IInv, FeedbackLine, Line, TypeOK, Turns, Failed, session
<1>7. Asked'
  BY <1>1 DEF IInv, FeedbackLine, Line, TypeOK, Asked, Failed, session, talk
<1> QED
  BY <1>4, <1>5, <1>6, <1>7 DEF IInv

\* Interpret keeps it: a repair is asked for only when no question is pending.
LEMMA InterpretStep ==
    ASSUME HarnessAssumption, IInv, NEW assessment \in {"none", "claim"},
           NEW topics \in SUBSET Topics, Interpret(assessment, topics)
    PROVE  IInv'
<1> DEFINE again == assessment = "none" /\ pending' = {} /\ CanRetry
<1>1. /\ ToBeRead /\ said = "prose" /\ report' = assessment
      /\ pending' = pending \cup topics /\ said' = "none"
      /\ UNCHANGED <<harness, session, sid, acted, replies, confirming, drain,
                     clock, budget>>
  BY DEF Interpret
<1>2. pc = "complete" /\ ~Failed(res) /\ Len(fb) \in Nat
  BY <1>1, Positions DEF ToBeRead, IInv
<1>3. CASE again
  <2>1. /\ retries' = retries + 1 /\ repairing' = TRUE /\ Send(1) /\ pc' = "retry"
        /\ decision' = [decision EXCEPT !.repair = TRUE]
    BY <1>3 DEF Interpret
  <2>2. fb' \in Seq(Outcomes) /\ queue' \in Seq(DOMAIN fb') /\ Len(fb') = Len(fb) + 1
    BY <2>1, Sent DEF IInv
  <2>3. decision' \in [approved : BOOLEAN, repair : BOOLEAN]
    BY <2>1 DEF IInv, TypeOK
  <2>4. retries' \in 0..MaxAttempts - 1
    BY <1>3, <2>1 DEF IInv, TypeOK, CanRetry, HarnessAssumption
  <2>5. TypeOK'
    BY <1>1, <1>2, <2>1, <2>2, <2>3, <2>4 DEF IInv, TypeOK, session, budget
  <2>6. Accounts'
    BY <1>1, <1>2, <2>1, SentAccounts DEF session
  <2>7. Turns'
    BY <1>1, <1>2, <2>1 DEF IInv, TypeOK, Turns, Failed, session
  <2>8. Asked'
    BY <1>1, <1>2, <1>3, <2>1 DEF IInv, TypeOK, Asked, session
  <2> QED
    BY <2>5, <2>6, <2>7, <2>8 DEF IInv
<1>4. CASE ~again
  <2>1. pc' = "answer" /\ UNCHANGED <<retries, repairing, decision, feedback>>
    BY <1>4 DEF Interpret
  <2>2. TypeOK'
    BY <1>1, <2>1 DEF IInv, TypeOK, session, feedback, talk, tools, budget
  <2>3. Accounts'
    BY <1>1, <1>2, <2>1 DEF IInv, Accounts, session, feedback
  <2>4. Turns'
    BY <1>1, <1>2, <2>1 DEF IInv, TypeOK, Turns, session, feedback
  <2>5. Asked'
    BY <1>1, <1>2, <2>1 DEF IInv, TypeOK, Asked, session
  <2> QED
    BY <2>2, <2>3, <2>4, <2>5 DEF IInv
<1> QED
  BY <1>3, <1>4

\* AnswerAll keeps it: no question is pending when the answers are sent.
LEMMA AnswerAllStep ==
    ASSUME HarnessAssumption, IInv, NEW n \in 0..Cardinality(Topics) + 1, AnswerAll(n)
    PROVE  IInv'
<1>1. n \in Nat
  BY FS_CardinalityType DEF HarnessAssumption
<1>2. /\ pc = "answer" /\ pending = {} /\ pc' = "retry" /\ replies' = 0 /\ Send(n)
      /\ UNCHANGED <<harness, session, retries, sid, acted, said, pending, report, repairing,
                     tools, drain, clock, budget>>
  BY DEF AnswerAll
<1>3. fb' \in Seq(Outcomes) /\ queue' \in Seq(DOMAIN fb') /\ Len(fb') = Len(fb) + n
  BY <1>1, <1>2, Sent DEF IInv
<1>4. Len(fb) \in Nat
  BY Positions DEF IInv
<1>5. TypeOK'
  BY <1>1, <1>2, <1>3, <1>4 DEF IInv, TypeOK, session, tools, budget
<1>6. Accounts'
  BY <1>1, <1>2, SentAccounts DEF session
<1>7. Turns'
  BY <1>2 DEF IInv, TypeOK, Turns, session
<1>8. Asked'
  BY <1>2 DEF IInv, Asked
<1> QED
  BY <1>5, <1>6, <1>7, <1>8 DEF IInv

\* What NoRetry makes of the turn's result: a failure stays one, and a cut stays one.
LEMMA OverIs ==
    ASSUME TypeOK
    PROVE  /\ Over \in Results
           /\ Failed(res) => Failed(Over)
           /\ Over.cut => res.cut \/ full
           /\ full => Failed(Over) \/ Over.cut
<1>1. CASE Rerun
  <2>1. Over = [NoResult EXCEPT !.ok = FALSE]
    BY <1>1 DEF Over
  <2> QED
    BY <2>1 DEF NoResult, Results, Failed
<1>2. CASE ~Rerun
  <2> DEFINE o == (res.ok /\ res.why # "schema")
             c == (res.cut \/ full)
  <2>1. o \in BOOLEAN /\ c \in BOOLEAN /\ res \in Results
    BY DEF TypeOK
  <2>2. Over = [res EXCEPT !.ok = o, !.cut = c]
    BY <1>2 DEF Over
  <2>3. (o => res.ok) /\ (c <=> res.cut \/ full)
    OBVIOUS
  <2> HIDE DEF o, c
  <2> QED
    BY <2>1, <2>2, <2>3 DEF Results, Failed
<1> QED
  BY <1>1, <1>2

\* NoRetry keeps the invariant: the turn's feedback is settled by the turn's result.
LEMMA NoRetryStep ==
    ASSUME HarnessAssumption, IInv, NoRetry
    PROVE  IInv'
<1> DEFINE o == IF Delivered(res') THEN "delivered" ELSE "failed"
<1>1. /\ pc = "retry" /\ res' = Over /\ turn' = 0 /\ pc' = "loop"
      /\ fb' = IF turn = 0 THEN fb ELSE [fb EXCEPT ![turn] = o]
      /\ UNCHANGED <<harness, schema, full, queue, retries, sid, acted, talk, tools, drain,
                     clock, budget>>
  BY DEF NoRetry
<1>2. /\ o \in {"delivered", "failed"}
      /\ o = "failed" => Failed(res') \/ res'.cut
  BY DEF Delivered
<1> HIDE DEF o
<1>3. /\ res' \in Results /\ (Failed(res) => Failed(res'))
      /\ (res'.cut => res.cut \/ full) /\ (full => Failed(res') \/ res'.cut)
  BY <1>1, OverIs DEF IInv
<1>4. /\ Len(fb) \in Nat /\ DOMAIN fb = 1..Len(fb) /\ fb \in [1..Len(fb) -> Outcomes]
      /\ turn \in 0..Len(fb)
  BY Positions DEF IInv, TypeOK
<1>5. /\ fb' \in [1..Len(fb) -> Outcomes] /\ DOMAIN fb' = DOMAIN fb
      /\ \A i \in DOMAIN fb : fb'[i] = IF i = turn THEN o ELSE fb[i]
  <2>1. o \in Outcomes
    BY <1>2 DEF Outcomes
  <2> QED
    BY <1>1, <1>4, <2>1
<1>6. fb' \in Seq(Outcomes) /\ Len(fb') = Len(fb)
  BY <1>4, <1>5, FunctionIsSeq
<1>7. (queue \in Seq(DOMAIN fb))'
  BY <1>1, <1>5 DEF IInv, TypeOK
<1>8. TypeOK'
  BY <1>1, <1>3, <1>4, <1>6, <1>7 DEF IInv, TypeOK, talk, tools, budget
<1>9. Accounts'
  <2>1. ASSUME NEW i \in DOMAIN fb', fb'[i] = "dispatched" PROVE turn' = i
    BY <1>2, <1>4, <1>5, <2>1 DEF IInv, Accounts
  <2>2. ASSUME NEW i \in DOMAIN fb', fb'[i] = "queued"
        PROVE  \E j \in DOMAIN queue' : queue'[j] = i
    BY <1>1, <1>2, <1>5, <2>2 DEF IInv, Accounts
  <2>3. ASSUME NEW i \in DOMAIN fb', fb'[i] = "failed"
        PROVE  full' \/ (pc' \in {"loop", "done"} /\ Failed(res'))
    BY <1>1, <1>2, <1>3, <1>5, <2>3 DEF IInv, Accounts, Turns
  <2> QED
    BY <2>1, <2>2, <2>3 DEF Accounts
<1>10. Turns'
  BY <1>1, <1>3 DEF IInv, Turns
<1>11. Asked'
  BY <1>1, <1>3 DEF IInv, Asked, talk
<1> QED
  BY <1>8, <1>9, <1>10, <1>11 DEF IInv

\* Dispatch keeps it: the feedback taken from the queue is the only dispatched one, or
\* has no native session to go to.
LEMMA DispatchStep ==
    ASSUME HarnessAssumption, IInv, Dispatch
    PROVE  IInv'
<1> DEFINE o == IF sid THEN "dispatched" ELSE "no_session"
<1>1. /\ pc = "loop" /\ ~Failed(res) /\ queue # <<>> /\ queue' = Tail(queue)
      /\ fb' = [fb EXCEPT ![Head(queue)] = o]
      /\ \/ sid /\ turn' = Head(queue) /\ schema' = (harness = "codex") /\ pc' = "turn"
         \/ ~sid /\ UNCHANGED <<turn, schema, pc>>
      /\ UNCHANGED <<harness, res, full, retries, sid, acted, talk, tools, drain, clock, budget>>
  BY DEF Dispatch, Pop, Rest
<1>2. o \in Outcomes /\ o # "queued" /\ o # "failed" /\ (o = "dispatched" <=> sid)
  BY DEF Outcomes
<1> HIDE DEF o
<1>3. /\ Len(fb) \in Nat /\ DOMAIN fb = 1..Len(fb) /\ fb \in [1..Len(fb) -> Outcomes]
      /\ Len(queue) \in Nat /\ DOMAIN queue = 1..Len(queue) /\ queue \in Seq(DOMAIN fb)
  BY Positions DEF IInv, TypeOK
<1>4. /\ Head(queue) \in DOMAIN fb /\ Tail(queue) \in Seq(DOMAIN fb)
      /\ Len(Tail(queue)) = Len(queue) - 1 /\ Len(queue) > 0
      /\ \A i \in 1..Len(Tail(queue)) : Tail(queue)[i] = queue[i + 1]
  BY <1>1, <1>3, HeadTailProperties, EmptySeq
<1>5. DOMAIN Tail(queue) = 1..(Len(queue) - 1) /\ Head(queue) = queue[1]
  BY <1>1, <1>3, <1>4, LenProperties
<1>6. /\ fb' \in [1..Len(fb) -> Outcomes] /\ DOMAIN fb' = DOMAIN fb
      /\ \A i \in DOMAIN fb : fb'[i] = IF i = Head(queue) THEN o ELSE fb[i]
  BY <1>1, <1>2, <1>3, <1>4
<1>7. fb' \in Seq(Outcomes) /\ Len(fb') = Len(fb)
  BY <1>3, <1>6, FunctionIsSeq
<1>8. turn = 0 /\ \A i \in DOMAIN fb : fb[i] # "dispatched"
  BY <1>1, <1>3 DEF IInv, Turns, Accounts
<1>9. TypeOK'
  <2>1. (turn \in 0..Len(fb))' /\ (queue \in Seq(DOMAIN fb))'
    BY <1>1, <1>3, <1>4, <1>6, <1>7, <1>8
  <2>2. (pc \in Pcs)' /\ (schema \in BOOLEAN)'
    BY <1>1 DEF IInv, TypeOK, Pcs
  <2> QED
    BY <1>1, <1>7, <2>1, <2>2 DEF IInv, TypeOK, Pcs, talk, tools, budget
<1>10. Accounts'
  <2>1. ASSUME NEW i \in DOMAIN fb', fb'[i] = "dispatched" PROVE turn' = i
    BY <1>1, <1>2, <1>6, <1>8, <2>1
  <2>2. ASSUME NEW i \in DOMAIN fb', fb'[i] = "queued"
        PROVE  \E j \in DOMAIN queue' : queue'[j] = i
    <3>1. i \in DOMAIN fb /\ i # Head(queue) /\ fb[i] = "queued"
      BY <1>2, <1>6, <2>2
    <3>2. PICK j \in DOMAIN queue : queue[j] = i
      BY <3>1 DEF IInv, Accounts
    <3>3. j - 1 \in 1..(Len(queue) - 1) /\ (j - 1) + 1 = j
      BY <1>3, <1>5, <3>1, <3>2
    <3>4. Tail(queue)[j - 1] = i
      BY <1>4, <3>2, <3>3
    <3> QED
      BY <1>1, <1>5, <3>3, <3>4
  <2>3. ASSUME NEW i \in DOMAIN fb', fb'[i] = "failed" PROVE full'
    BY <1>1, <1>2, <1>6, <2>3 DEF IInv, Accounts
  <2> QED
    BY <2>1, <2>2, <2>3 DEF Accounts
<1>11. Turns'
  BY <1>1, <1>8 DEF IInv, Turns
<1>12. Asked'
  BY <1>1 DEF IInv, Asked, talk
<1> QED
  BY <1>9, <1>10, <1>11, <1>12 DEF IInv

\* Finish keeps it: what is still queued has failed, and is only there after a failure.
LEMMA FinishStep ==
    ASSUME HarnessAssumption, IInv, Finish
    PROVE  IInv'
<1>1. /\ pc = "loop" /\ (Failed(res) \/ queue = <<>>) /\ pc' = "done" /\ fb' = PendingFailed
      /\ queue' = <<>>
      /\ UNCHANGED <<harness, session, retries, sid, acted, talk, decision, drain,
                     clock, budget>>
  BY DEF Finish
<1>2. /\ Len(fb) \in Nat /\ DOMAIN fb = 1..Len(fb) /\ fb \in [1..Len(fb) -> Outcomes]
  BY Positions DEF IInv, TypeOK
<1>3. /\ fb' \in [1..Len(fb) -> Outcomes] /\ DOMAIN fb' = DOMAIN fb
      /\ \A i \in DOMAIN fb : fb'[i] = IF fb[i] = "queued" THEN "failed" ELSE fb[i]
  BY <1>1, <1>2 DEF PendingFailed, Outcomes
<1>4. fb' \in Seq(Outcomes) /\ Len(fb') = Len(fb) /\ queue' \in Seq(DOMAIN fb')
  BY <1>1, <1>2, <1>3, FunctionIsSeq
<1>5. TypeOK'
  <2>1. (confirming \in BOOLEAN)'
    BY DEF Finish
  <2> QED
    BY <1>1, <1>4, <2>1 DEF IInv, TypeOK, session, talk, budget
<1>6. Accounts'
  <2>1. ASSUME NEW i \in DOMAIN fb', fb'[i] = "dispatched" PROVE turn' = i
    BY <1>1, <1>3, <2>1 DEF IInv, Accounts, session
  <2>2. \A i \in DOMAIN fb' : fb'[i] # "queued"
    BY <1>3
  <2>3. ASSUME NEW i \in DOMAIN fb', fb'[i] = "failed" PROVE full' \/ Failed(res')
    <3>1. CASE fb[i] = "queued"
      <4>1. queue # <<>>
        BY <1>3, <3>1 DEF IInv, Accounts
      <4> QED
        BY <1>1, <4>1 DEF session
    <3>2. CASE fb[i] # "queued"
      BY <1>1, <1>3, <2>3, <3>2 DEF IInv, Accounts, session
    <3> QED
      BY <3>1, <3>2
  <2> QED
    BY <1>1, <2>1, <2>2, <2>3 DEF Accounts
<1>7. Turns'
  BY <1>1, <1>3 DEF IInv, Turns, session
<1>8. Asked'
  BY <1>1 DEF IInv, Asked, session, talk
<1> QED
  BY <1>5, <1>6, <1>7, <1>8 DEF IInv
-----------------------------------------------------------------------------
(***************************************************************************)
(* The theorems.                                                           *)
(***************************************************************************)
\* Init establishes the invariant.
LEMMA InitInv ==
    ASSUME HarnessAssumption, Init
    PROVE  IInv
<1>1. fb = <<>> /\ queue = <<>>
  BY DEF Init
<1>2. fb \in Seq(Outcomes) /\ Len(fb) = 0 /\ DOMAIN fb = {} /\ queue \in Seq(DOMAIN fb)
  <2>1. fb \in Seq(Outcomes) /\ Len(fb) = 0 /\ queue \in Seq(DOMAIN fb)
    BY <1>1, EmptySeq
  <2> QED
    BY <2>1, LenProperties
<1>3. TypeOK
  <2>1. res \in Results /\ decision \in [approved : BOOLEAN, repair : BOOLEAN]
    BY DEF Init, NoResult, Results
  <2>2. retries \in 0..MaxAttempts - 1 /\ lines \in 0..MaxLines /\ errors \in 0..MaxErrors
    BY DEF Init, HarnessAssumption
  <2>3. /\ schema \in BOOLEAN /\ full \in BOOLEAN /\ sid \in BOOLEAN /\ acted \in BOOLEAN
        /\ repairing \in BOOLEAN /\ confirming \in BOOLEAN
    BY DEF Init
  <2>4. /\ harness \in Harnesses /\ pc = "turn" /\ turn = 0 /\ said = "none" /\ pending = {}
        /\ replies = 0 /\ report = "none" /\ drain = "off" /\ clock = "open"
    BY DEF Init
  <2> QED
    BY <1>2, <2>1, <2>2, <2>3, <2>4 DEF TypeOK
<1>4. Accounts /\ Turns /\ Asked
  BY <1>2 DEF Init, Accounts, Turns, Asked, NoResult
<1> QED
  BY <1>3, <1>4 DEF IInv

\* A stuttering step keeps it.
LEMMA StutterStep ==
    ASSUME IInv, UNCHANGED vars
    PROVE  IInv'
<1>1. TypeOK'
  BY DEF IInv, TypeOK, vars, session, feedback, talk, tools, budget
<1>2. Accounts' /\ Turns' /\ Asked'
  BY DEF IInv, Accounts, Turns, Asked, Failed, vars, session, feedback, talk, tools,
     budget
<1> QED
  BY <1>1, <1>2 DEF IInv

\* Every step keeps it.
LEMMA NextInv ==
    ASSUME HarnessAssumption, IInv, [Next]_vars
    PROVE  IInv'
<1>1. CASE Wait
  BY <1>1, SkippedStep, StartStep, QuietStep, StructuredStep, RetryStep, NoRetryStep,
     DispatchStep, FinishStep, ModelFailsStep, KillStep, JoinStep, InterpretStep, AnswerStep,
     AnswerAllStep DEF Wait
<1>2. CASE Agent
  BY <1>2, ExitStep, SessionIdStep, FeedbackStep, MessageStep, RaisesStep, ConfirmAskedStep,
     CreateStep, SubmitStep, ConfirmAnsweredStep DEF Agent
<1>3. CASE Deadline \/ Cancel
  BY <1>3, ClockStep
<1>4. CASE Ended \/ UNCHANGED vars
  BY <1>4, StutterStep DEF Ended
<1> QED
  BY <1>1, <1>2, <1>3, <1>4 DEF Next

\* The inductive invariant holds in every state.
LEMMA AlwaysIInv == Spec => []IInv
<1>1. Init => IInv
  BY InitInv, HarnessAssumption
<1>2. IInv /\ [Next]_vars => IInv'
  BY NextInv, HarnessAssumption
<1> QED
  BY <1>1, <1>2, PTL DEF Spec

\* Type correctness, for any number of lines, errors, questions and feedbacks; the
\* retries of all kinds together stay below MaxAttempts (session.py RetryBudget).
THEOREM TypeCorrect == Spec => []TypeOK
<1>1. IInv => TypeOK
  BY DEF IInv
<1> QED
  BY <1>1, AlwaysIInv, PTL

\* Every feedback has an outcome on record when wait() returns, and a completed session
\* lost none but for want of a native session id (session.py 214-314).
THEOREM FeedbackIsAccounted == Spec => []FeedbackAccounted
<1>1. IInv => FeedbackAccounted
  <2>1. SUFFICES ASSUME IInv, pc = "done", drain # "lags", NEW i \in DOMAIN fb
                 PROVE  fb[i] \in Settled /\ (Completed => fb[i] # "failed")
    BY DEF FeedbackAccounted
  <2>2. fb[i] \in Outcomes /\ i \in 1..Len(fb)
    BY <2>1, Positions DEF IInv
  <2>3. turn = 0 /\ fb[i] # "queued" /\ fb[i] # "dispatched"
    BY <2>1, <2>2, Positions DEF IInv, Turns, Accounts
  <2>4. ASSUME Completed PROVE fb[i] # "failed"
    BY <2>1, <2>4 DEF IInv, Turns, Accounts, Completed, Delivered
  <2> QED
    BY <2>2, <2>3, <2>4 DEF Outcomes, Settled
<1> QED
  BY <1>1, AlwaysIInv, PTL

\* A completed session left no question of the Agent unanswered
\* (harness_runtime.py observe_turn_complete).
THEOREM QuestionsAreSettled == Spec => []QuestionsSettled
<1>1. IInv => QuestionsSettled
  BY DEF IInv, Asked, QuestionsSettled, Completed, Delivered
<1> QED
  BY <1>1, AlwaysIInv, PTL
=============================================================================
