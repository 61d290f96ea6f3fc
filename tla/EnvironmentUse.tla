--------------------------- MODULE EnvironmentUse ---------------------------
(***************************************************************************)
(* What the Controller promises of the one live environment it tests       *)
(* against, without saying how: campaigns use it one at a time.  A user is *)
(* granted the environment, works in it and gives it back; only a user     *)
(* that is working changes it; somebody outside the Controller may hold it *)
(* instead.  TaskControl implements this with futures, a runtime lock and  *)
(* the threads that share them.                                            *)
(***************************************************************************)
CONSTANTS Users, Outside, Nobody

VARIABLES
    holder,     \* who has the environment
    phase,      \* how far each user is with it
    dirty       \* the users whose change is still in it

Phases == {"idle", "granted", "working", "over"}

Init ==
    /\ holder = Nobody
    /\ phase = [u \in Users |-> "idle"]
    /\ dirty = {}

Grant(u) ==
    /\ holder = Nobody /\ phase[u] = "idle"
    /\ holder' = u
    /\ phase' = [phase EXCEPT ![u] = "granted"]
    /\ UNCHANGED dirty

Begin(u) ==
    /\ holder = u /\ phase[u] = "granted"
    /\ phase' = [phase EXCEPT ![u] = "working"]
    /\ UNCHANGED <<holder, dirty>>

Change(u) ==
    /\ holder = u /\ phase[u] = "working"
    /\ dirty' = dirty \cup {u}
    /\ UNCHANGED <<holder, phase>>

Undo(u) ==
    /\ holder = u /\ phase[u] = "working"
    /\ dirty' = dirty \ {u}
    /\ UNCHANGED <<holder, phase>>

GiveBack(u) ==
    /\ holder = u /\ phase[u] = "working"
    /\ holder' = Nobody
    /\ phase' = [phase EXCEPT ![u] = "over"]
    /\ UNCHANGED dirty

\* A user withdrawn before it began never gives the environment back.
Withdraw(u) ==
    /\ holder = u /\ phase[u] = "granted"
    /\ phase' = [phase EXCEPT ![u] = "over"]
    /\ UNCHANGED <<holder, dirty>>

\* The operator's reset asks nobody: it may come while a user is working.
Reset ==
    /\ dirty' = {}
    /\ UNCHANGED <<holder, phase>>

Outsider ==
    /\ \/ holder = Nobody /\ holder' = Outside
       \/ holder = Outside /\ holder' = Nobody
    /\ UNCHANGED <<phase, dirty>>

\* The Controller restarts: nobody inside has the environment any more, what
\* was changed in it stays.
Forget ==
    /\ holder' = IF holder = Outside THEN Outside ELSE Nobody
    /\ phase' = [u \in Users |-> "idle"]
    /\ UNCHANGED dirty

Next ==
    \/ \E u \in Users : \/ Grant(u) \/ Begin(u) \/ Change(u) \/ Undo(u)
                        \/ GiveBack(u) \/ Withdraw(u)
    \/ Reset \/ Outsider \/ Forget

Spec == Init /\ [][Next]_<<holder, phase, dirty>>
=============================================================================
