------------------------ MODULE FleetDispatchProofs ------------------------
(***************************************************************************)
(* Proofs about the dispatcher, for any items, batches, slots and bounds:  *)
(* the types, and, as long as no operator stops a batch, that the loop and *)
(* the submitting thread never take a slot or a row from each other and    *)
(* that no failure is blamed on an agent without cause.                    *)
(***************************************************************************)
EXTENDS FleetDispatch, TLAPS

(* What a dispatching thread remembers are rows of items that are stored.  *)
Remembers(t) ==
    th[t] \in DispatchStates =>
        /\ \A i \in th[t].left : th[t].snap[i] \in Rows /\ item[i] \in Rows
        /\ th[t].pc \in {"call", "reply"} =>
              /\ th[t].i \in Items
              /\ th[t].snap[th[t].i] \in Rows /\ item[th[t].i] \in Rows
        /\ th[t].pc # "batch" => th[t].b \in Batches

StopRemembers ==
    th["stop"] \in StopStates =>
        \A i \in th["stop"].left : th["stop"].snap[i] \in Rows /\ item[i] \in Rows

Remembered == (\A t \in Dispatchers : Remembers(t)) /\ StopRemembers

(* The types in the groups that the steps change together.                 *)
ThreadsTyped ==
    /\ th \in [Threads -> {Idle} \cup DispatchStates \cup StopStates \cup RefreshStates]
    /\ \A t \in Dispatchers : th[t] \in {Idle} \cup DispatchStates
    /\ th["stop"] \in {Idle} \cup StopStates
    /\ th["refresh"] \in {Idle} \cup RefreshStates
StoreTyped ==
    /\ item \in Tables
    /\ batch \in [Batches -> {"none", "Scheduled", "Running", "Completed", "Stopped"}]
    /\ phase \in [Slots -> Phases]
    /\ pin \in [Items -> Slots \cup {None}]
RestTyped ==
    /\ stopped \subseteq Batches
    /\ run \in [Items -> Outcomes \cup {"none", "live", "refused"}]
    /\ faults \in 0..MaxFaults
    /\ restarts \in 0..MaxRestarts
Typed == ThreadsTyped /\ StoreTyped /\ RestTyped /\ Remembered

USE FleetAssumption DEF store, counters

LEMMA TypedIsTypeOK == Typed => TypeOK
BY DEF Typed, TypeOK, ThreadsTyped, StoreTyped, RestTyped
----------------------------------------------------------------------------
(***************************************************************************)
(* Threads and rows                                                        *)
(***************************************************************************)

(* The thread states are told apart by their program counters.             *)
LEMMA ThreadKinds ==
    ASSUME ThreadsTyped, NEW t \in Dispatchers, th[t] # Idle
    PROVE  th[t] \in DispatchStates
BY DEF ThreadsTyped

LEMMA IdleIsNoState == Idle \notin DispatchStates /\ Idle \notin StopStates
BY DEF Idle, DispatchStates, StopStates

(* A dispatching thread that goes on keeps all threads typed.              *)
LEMMA DispatcherTyped ==
    ASSUME ThreadsTyped, NEW t \in Dispatchers, NEW o \in {Idle} \cup DispatchStates,
           th' = [th EXCEPT ![t] = o]
    PROVE  ThreadsTyped'
BY DEF ThreadsTyped, Dispatchers, Threads

(* A new thread state that has read nothing.                               *)
LEMMA WorkingTyped ==
    ASSUME NEW p \in BOOLEAN, NEW todo \in SUBSET Batches
    PROVE  Working(p, todo) \in DispatchStates
BY DEF Working, DispatchStates, NoRows, Tables

(* Reading rows yields a table, whose rows are those asked for.            *)
LEMMA ReadTyped ==
    ASSUME StoreTyped, NEW b \in Batches, NEW S \in SUBSET (OpenStates \cup Settled)
    PROVE  /\ IdsIn(b, S) \subseteq Items
           /\ Read(IdsIn(b, S)) \in Tables
           /\ \A i \in IdsIn(b, S) : /\ item[i] \in Rows
                                     /\ Read(IdsIn(b, S))[i] = item[i]
<1>1. \A i \in Items : item[i] \in Rows \cup {NoRow}
  BY DEF StoreTyped, Tables
<1>2. IdsIn(b, S) \subseteq Items
  BY DEF IdsIn, ItemsOf
<1>3. "none" \notin S
  BY DEF OpenStates, Settled
<1>4. \A i \in IdsIn(b, S) : item[i] \in Rows
  BY <1>1, <1>3 DEF IdsIn, ItemsOf, NoRow
<1>5. Read(IdsIn(b, S)) \in Tables
  BY <1>1 DEF Read, Tables
<1> QED  BY <1>2, <1>4, <1>5 DEF Read

(* Rows are written one at a time, and a row stays one.                    *)
Writes(i) == item'[i] \in Rows /\ item' = [item EXCEPT ![i] = item'[i]]

LEMMA SetWrites ==
    ASSUME StoreTyped, NEW i \in Items, NEW row \in Rows, Set(i, row)
    PROVE  Writes(i) /\ item'[i] = row
BY DEF StoreTyped, Tables, Writes, Set

LEMMA WriteTyped ==
    ASSUME StoreTyped, NEW i \in Items, Writes(i), UNCHANGED <<batch, phase, pin>>
    PROVE  StoreTyped' /\ \A j \in Items : item[j] \in Rows => item'[j] \in Rows
BY DEF StoreTyped, Tables, Writes

(* What a poll or a reply may make of an item in flight: it keeps its slot  *)
(* or leaves it, and is settled only by a trial that is not running, unless *)
(* the platform gave it up.                                                 *)
Resolved(i) ==
    /\ Writes(i)
    /\ item'[i].state # "Assigned"
    /\ item'[i].state = "Running" => item'[i].slot = item[i].slot
    /\ item'[i].state = "Queued" => ~item'[i].run
    /\ item'[i].state = "Done" => run[i] = "done"
    /\ item'[i].state = "Failed" /\ item'[i].owner = "agent" =>
          run[i] \in {"agent", "recovery"}
    /\ run[i] = "live" => \/ item'[i].state \in OpenStates
                          \/ item'[i].state = "Failed" /\ item'[i].owner = "platform"

LEMMA FinishFailedResolves ==
    ASSUME StoreTyped, NEW i \in Items, item[i] \in Rows, NEW r \in Rows, NEW d \in Nat,
           NEW owner \in {"platform", "agent"}, FinishFailed(i, r, owner, d)
    PROVE  /\ Writes(i)
           /\ (owner = "agent" => run[i] \in {"agent", "recovery"}) => Resolved(i)
<1> DEFINE Again == [item[i] EXCEPT !.state = "Queued", !.slot = None, !.run = FALSE,
                                    !.retries = r.retries + 1, !.defer = d,
                                    !.stop = FALSE, !.owner = owner]
           Over  == [item[i] EXCEPT !.state = "Failed", !.defer = d, !.stop = FALSE,
                                    !.owner = owner]
<1>0. r.retries + 1 \in Nat
  BY DEF Rows
<1>1. Again \in Rows /\ Again.state = "Queued" /\ Again.run = FALSE
  BY <1>0 DEF Rows, OpenStates
<1>2. Over \in Rows /\ Over.state = "Failed" /\ Over.owner = owner
  BY DEF Rows, Settled
<1>3. CASE Set(i, Again)
  <2>1. Writes(i) /\ item'[i] = Again
    BY <1>1, <1>3, SetWrites
  <2> HIDE DEF Again
  <2> QED  BY <2>1, <1>1 DEF Resolved, OpenStates
<1>4. CASE Set(i, Over)
  <2>1. Writes(i) /\ item'[i] = Over
    BY <1>2, <1>4, SetWrites
  <2> HIDE DEF Over
  <2> QED  BY <2>1, <1>2 DEF Resolved
<1> QED  BY <1>3, <1>4 DEF FinishFailed

(* Polling a running trial, or one that ended, resolves its item.          *)
LEMMA PolledResolves ==
    ASSUME StoreTyped, NEW i \in Items, item[i] \in Rows, NEW r \in Rows, Polled(i, r)
    PROVE  Writes(i) /\ (item[i].state = "Running" => Resolved(i))
<1> DEFINE Kept == [item[i] EXCEPT !.state = IF r.state = "Running" THEN @ ELSE "Running"]
           Stopped == [item[i] EXCEPT !.state = "Invalid", !.stop = FALSE, !.defer = 0,
                                      !.owner = "operator"]
           Done == [item[i] EXCEPT !.state = "Done", !.stop = FALSE, !.defer = 0,
                                   !.owner = "none"]
<1>1. /\ Kept \in Rows /\ Kept.slot = item[i].slot
      /\ item[i].state = "Running" => Kept.state = "Running"
  BY DEF Rows, OpenStates
<1>2. Stopped \in Rows /\ Stopped.state = "Invalid"
  BY DEF Rows, Settled
<1>3. Done \in Rows /\ Done.state = "Done"
  BY DEF Rows, Settled
<1>4. CASE Set(i, Kept)
  <2>1. Writes(i) /\ item'[i] = Kept
    BY <1>1, <1>4, SetWrites
  <2> HIDE DEF Kept
  <2> QED  BY <2>1, <1>1 DEF Resolved, OpenStates
<1>5. CASE run[i] \in Outcomes /\ Set(i, Stopped)
  <2>1. Writes(i) /\ item'[i] = Stopped
    BY <1>2, <1>5, SetWrites
  <2> HIDE DEF Stopped
  <2> QED  BY <2>1, <1>2, <1>5 DEF Resolved, Outcomes
<1>6. CASE run[i] = "done" /\ Set(i, Done)
  <2>1. Writes(i) /\ item'[i] = Done
    BY <1>3, <1>6, SetWrites
  <2> HIDE DEF Done
  <2> QED  BY <2>1, <1>3, <1>6 DEF Resolved
<1>7. CASE run[i] \in {"platform", "agent"} /\ FinishFailed(i, r, run[i], 0)
  BY <1>7, FinishFailedResolves
<1>8. CASE /\ run[i] = "recovery"
           /\ \E owner \in {"platform", "agent"} : FinishFailed(i, r, owner, 0)
  BY <1>8, FinishFailedResolves
<1> QED  BY <1>4, <1>5, <1>6, <1>7, <1>8 DEF Polled

(* So does recording the Controller's answer for an assigned item, if an   *)
(* item whose trial runs was not rejected.                                 *)
LEMMA RecordedResolves ==
    ASSUME StoreTyped, NEW i \in Items, item[i] \in Rows, NEW r \in Rows,
           NEW a, Recorded(i, r, a)
    PROVE  /\ Writes(i)
           /\ ~item[i].run /\ ~(a = "rejected" /\ run[i] = "live") => Resolved(i)
<1> DEFINE Again(n) == [item[i] EXCEPT !.state = "Queued", !.slot = None, !.defer = n,
                                       !.stop = FALSE, !.owner = "none"]
           Refused == [item[i] EXCEPT !.state = "Invalid", !.defer = 0, !.stop = FALSE,
                                      !.owner = "agent"]
           Started == [item[i] EXCEPT !.state = "Running", !.run = TRUE, !.defer = 0,
                                      !.stop = FALSE, !.owner = "none"]
<1>0. r.defer + 1 \in Nat
  BY DEF Rows
<1>1. ASSUME NEW n \in Nat
      PROVE  Again(n) \in Rows /\ Again(n).state = "Queued" /\ Again(n).run = item[i].run
  BY DEF Rows, OpenStates
<1>2. Refused \in Rows /\ Refused.state = "Invalid"
  BY DEF Rows, Settled
<1>3. Started \in Rows /\ Started.state = "Running" /\ Started.slot = item[i].slot
  BY DEF Rows, OpenStates
<1>4. ASSUME NEW n \in Nat, Set(i, Again(n))
      PROVE  Writes(i) /\ (~item[i].run => Resolved(i))
  <2>1. Writes(i) /\ item'[i] = Again(n)
    BY <1>1, <1>4, SetWrites
  <2>2. Again(n).state = "Queued" /\ Again(n).run = item[i].run
    BY <1>1
  <2> HIDE DEF Again
  <2> QED  BY <2>1, <2>2 DEF Resolved, OpenStates
<1>5. CASE a = "rejected" /\ Set(i, Refused)
  <2>1. Writes(i) /\ item'[i] = Refused
    BY <1>2, <1>5, SetWrites
  <2> HIDE DEF Refused
  <2> QED  BY <2>1, <1>2, <1>5 DEF Resolved
<1>6. CASE Set(i, Started)
  <2>1. Writes(i) /\ item'[i] = Started
    BY <1>3, <1>6, SetWrites
  <2> HIDE DEF Started
  <2> QED  BY <2>1, <1>3 DEF Resolved, OpenStates
<1>7. CASE FinishFailed(i, r, "platform", r.defer + 1) \/ FinishFailed(i, r, "platform", 0)
  BY <1>0, <1>7, FinishFailedResolves
<1> QED  BY <1>0, <1>4, <1>5, <1>6, <1>7 DEF Recorded
----------------------------------------------------------------------------
(***************************************************************************)
(* Types                                                                   *)
(***************************************************************************)

(* What the threads that did not move remember survives every write.       *)
LEMMA OthersRemember ==
    ASSUME Typed, NEW t \in Dispatchers, th'[t] = th[t],
           \A j \in Items : item[j] \in Rows => item'[j] \in Rows
    PROVE  Remembers(t)'
<1>1. Remembers(t) /\ (th[t] \in DispatchStates => th[t].left \subseteq Items)
  BY DEF Typed, Remembered, DispatchStates
<1> QED  BY <1>1 DEF Remembers

LEMMA StopStillRemembers ==
    ASSUME Typed, th'["stop"] = th["stop"],
           \A j \in Items : item[j] \in Rows => item'[j] \in Rows
    PROVE  StopRemembers'
<1>1. StopRemembers /\ (th["stop"] \in StopStates => th["stop"].left \subseteq Items)
  BY DEF Typed, Remembered, StopStates
<1> QED  BY <1>1 DEF StopRemembers

(* A step of dispatcher t that leaves it in state o.                       *)
LEMMA DispatcherStepTyped ==
    ASSUME Typed, NEW t \in Dispatchers, NEW o \in {Idle} \cup DispatchStates,
           th' = [th EXCEPT ![t] = o], StoreTyped', RestTyped',
           \A j \in Items : item[j] \in Rows => item'[j] \in Rows,
           Remembers(t)'
    PROVE  Typed'
<1>1. ThreadsTyped'
  BY DispatcherTyped DEF Typed
<1>2. \A u \in Threads : u # t => th'[u] = th[u]
  BY DEF Typed, ThreadsTyped
<1>3. \A u \in Dispatchers : Remembers(u)'
  <2> TAKE u \in Dispatchers
  <2>1. CASE u = t
    BY <2>1
  <2>2. CASE u # t
    BY <1>2, <2>2, OthersRemember DEF Threads
  <2> QED  BY <2>1, <2>2
<1>4. StopRemembers'
  BY <1>2, StopStillRemembers DEF Threads, Dispatchers
<1> QED  BY <1>1, <1>3, <1>4 DEF Typed, Remembered

LEMMA InitTyped == Init => Typed
<1> SUFFICES ASSUME Init PROVE Typed
  OBVIOUS
<1>1. StoreTyped
  BY DEF Init, StoreTyped, Tables, NoRows, Phases
<1>2. ThreadsTyped
  BY DEF Init, ThreadsTyped, Threads, Dispatchers
<1>3. RestTyped
  BY DEF Init, RestTyped
<1>4. Remembered
  <2>1. \A t \in Threads : th[t] = Idle
    BY DEF Init
  <2> QED  BY <2>1, IdleIsNoState DEF Remembered, Remembers, StopRemembers, Threads, Dispatchers
<1> QED  BY <1>1, <1>2, <1>3, <1>4 DEF Typed

LEMMA SubmitTyped ==
    ASSUME Typed, NEW b \in Batches, Submit(b)
    PROVE  Typed'
<1>1. Working(TRUE, {}) \in DispatchStates
  BY WorkingTyped
<1>2. StoreTyped' /\ \A j \in Items : item[j] \in Rows => item'[j] \in Rows
  <2>1. NewRow \in Rows
    BY DEF NewRow, Rows, OpenStates
  <2>2. PICK f \in Plans(b) :
            /\ pin' = [i \in Items |-> IF i \in DOMAIN f THEN f[i] ELSE pin[i]]
            /\ item' = [i \in Items |-> IF i \in DOMAIN f THEN NewRow ELSE item[i]]
    BY DEF Submit
  <2>3. \A i \in DOMAIN f : f[i] \in Slots
    BY DEF Plans
  <2>4. batch' = [batch EXCEPT ![b] = "Scheduled"] /\ phase' = phase
    BY DEF Submit
  <2>5. item' \in Tables /\ \A j \in Items : item[j] \in Rows => item'[j] \in Rows
    BY <2>1, <2>2 DEF Typed, StoreTyped, Tables
  <2> QED  BY <2>2, <2>3, <2>4, <2>5 DEF Typed, StoreTyped
<1>3. th' = [th EXCEPT !["submit"] = Working(TRUE, {})] /\ "submit" \in Dispatchers
  BY DEF Submit, Dispatchers
<1>4. RestTyped'
  BY DEF Submit, Typed, RestTyped
<1>5. Remembers("submit")'
  <2>1. th'["submit"] = Working(TRUE, {})
    BY <1>3 DEF Typed, ThreadsTyped, Threads
  <2> QED  BY <2>1 DEF Remembers, Working
<1> QED  BY <1>1, <1>2, <1>3, <1>4, <1>5, DispatcherStepTyped

LEMMA TickTyped ==
    ASSUME Typed, Tick
    PROVE  Typed'
<1>1. Working(TRUE, Known) \in DispatchStates
  BY WorkingTyped DEF Known
<1>2. StoreTyped' /\ RestTyped' /\ item' = item
  BY DEF Tick, Typed, StoreTyped, RestTyped
<1>3. th' = [th EXCEPT !["loop"] = Working(TRUE, Known)] /\ "loop" \in Dispatchers
  BY DEF Tick, Dispatchers
<1>4. Remembers("loop")'
  <2>1. th'["loop"] = Working(TRUE, Known)
    BY <1>3 DEF Typed, ThreadsTyped, Threads
  <2> QED  BY <2>1 DEF Remembers, Working
<1> QED  BY <1>1, <1>2, <1>3, <1>4, DispatcherStepTyped

LEMMA PassEndsTyped ==
    ASSUME Typed, NEW t \in Dispatchers, PassEnds(t)
    PROVE  Typed'
<1> DEFINE o == IF th[t].poll THEN Working(FALSE, OpenBatches) ELSE Idle
<1>1. Working(FALSE, OpenBatches) \in DispatchStates
  BY WorkingTyped DEF OpenBatches, Known
<1>2. StoreTyped' /\ RestTyped' /\ item' = item
  BY DEF PassEnds, Typed, StoreTyped, RestTyped
<1>3. o \in {Idle} \cup DispatchStates /\ th' = [th EXCEPT ![t] = o]
  BY <1>1 DEF PassEnds
<1>4. Remembers(t)'
  <2>1. th'[t] = o
    BY <1>3 DEF Typed, ThreadsTyped, Threads
  <2> QED  BY <2>1, IdleIsNoState DEF Remembers, Working
<1> HIDE DEF o
<1> QED  BY <1>2, <1>3, <1>4, DispatcherStepTyped

LEMMA NextBatchTyped ==
    ASSUME Typed, NEW t \in Dispatchers, NEW b \in Batches, NextBatch(t, b)
    PROVE  Typed'
<1> DEFINE o == [th[t] EXCEPT !.todo = @ \ {b}]
           ids == IdsIn(b, IF o.poll THEN InFlight ELSE {"Queued"})
           read == [o EXCEPT !.pc = "items", !.b = b, !.snap = Read(ids), !.left = ids,
                             !.ready = {s \in Slots : phase[s] = "Ready"}]
<1>1. th[t] \in DispatchStates /\ th[t].pc = "batch"
  BY ThreadKinds DEF NextBatch, Typed
<1>2. /\ ids \subseteq Items /\ Read(ids) \in Tables
      /\ \A i \in ids : item[i] \in Rows /\ Read(ids)[i] = item[i]
  <2>1. (IF o.poll THEN InFlight ELSE {"Queued"}) \in SUBSET (OpenStates \cup Settled)
    BY DEF InFlight, OpenStates
  <2> QED  BY <2>1, ReadTyped DEF Typed
<1>3. o \in DispatchStates /\ o.pc = "batch" /\ o.left = th[t].left /\ o.snap = th[t].snap
  BY <1>1 DEF DispatchStates
<1>4. /\ read \in DispatchStates
      /\ read.pc = "items" /\ read.left = ids /\ read.snap = Read(ids) /\ read.b = b
  <2> HIDE DEF o, ids
  <2> QED  BY <1>2, <1>3 DEF DispatchStates
<1>5. th' = [th EXCEPT ![t] = o] \/ th' = [th EXCEPT ![t] = read]
  BY DEF NextBatch
<1>6. StoreTyped' /\ RestTyped' /\ item' = item
  BY DEF NextBatch, Typed, StoreTyped, RestTyped
<1>7. CASE th' = [th EXCEPT ![t] = o]
  <2>1. th'[t] = o
    BY <1>7 DEF Typed, ThreadsTyped, Threads
  <2> HIDE DEF o
  <2>2. Remembers(t)'
    BY <1>1, <1>3, <1>6, <2>1 DEF Typed, Remembered, Remembers
  <2> QED  BY <1>3, <1>6, <1>7, <2>2, DispatcherStepTyped
<1>8. CASE th' = [th EXCEPT ![t] = read]
  <2>1. th'[t] = read
    BY <1>8 DEF Typed, ThreadsTyped, Threads
  <2> HIDE DEF read, ids, o
  <2>2. Remembers(t)'
    BY <1>2, <1>4, <1>6, <2>1 DEF Remembers
  <2> QED  BY <1>4, <1>6, <1>8, <2>2, DispatcherStepTyped
<1> QED  BY <1>5, <1>7, <1>8

(* A dispatcher that has dealt with a row of its snapshot.                  *)
LEMMA DropTyped ==
    ASSUME Typed, NEW t \in Dispatchers, th[t] \in DispatchStates, NEW i
    PROVE  /\ Drop(t, i) \in DispatchStates
           /\ Drop(t, i).left \subseteq th[t].left
           /\ \A f \in {"pc", "poll", "todo", "b", "snap", "ready", "i", "ans", "st"} :
                 Drop(t, i)[f] = th[t][f]
BY DEF Drop, DispatchStates

LEMMA PollItemTyped ==
    ASSUME Typed, NEW i \in Items, PollItem(i)
    PROVE  Typed'
<1>0. "loop" \in Dispatchers /\ "loop" \in Threads
  BY DEF Dispatchers, Threads
<1>1. th["loop"] \in DispatchStates /\ th["loop"].pc = "items" /\ i \in th["loop"].left
  BY <1>0, ThreadKinds DEF PollItem, At, Typed
<1>2. th["loop"].snap[i] \in Rows /\ item[i] \in Rows
  BY <1>0, <1>1 DEF Typed, Remembered, Remembers
<1>3. item' = item \/ Writes(i)
  <2>1. Polled(i, th["loop"].snap[i]) => Writes(i)
    BY <1>2, PolledResolves DEF Typed
  <2>2. FinishFailed(i, th["loop"].snap[i], "platform", 0) => Writes(i)
    BY <1>2, FinishFailedResolves DEF Typed
  <2> QED  BY <2>1, <2>2 DEF PollItem
<1>4. StoreTyped' /\ \A j \in Items : item[j] \in Rows => item'[j] \in Rows
  <2>1. UNCHANGED <<batch, phase, pin>>
    BY DEF PollItem
  <2>2. CASE item' = item
    BY <2>1, <2>2 DEF Typed, StoreTyped
  <2>3. CASE Writes(i)
    BY <2>1, <2>3, WriteTyped DEF Typed
  <2> QED  BY <1>3, <2>2, <2>3
<1>5. RestTyped'
  BY DEF PollItem, Typed, RestTyped, Fault
<1>6. /\ Drop("loop", i) \in DispatchStates
      /\ Drop("loop", i).left \subseteq th["loop"].left
      /\ Drop("loop", i).pc = "items" /\ Drop("loop", i).snap = th["loop"].snap
      /\ Drop("loop", i).b = th["loop"].b
  BY <1>0, <1>1, DropTyped
<1>7. th' = [th EXCEPT !["loop"] = Drop("loop", i)]
  BY DEF PollItem
<1>8. Remembers("loop")'
  <2>1. th'["loop"] = Drop("loop", i)
    BY <1>0, <1>7 DEF Typed, ThreadsTyped
  <2>2. th["loop"].left \subseteq Items /\ Remembers("loop")
    BY <1>0, <1>1 DEF Typed, Remembered, DispatchStates
  <2> QED  BY <1>1, <1>4, <1>6, <2>1, <2>2 DEF Remembers
<1> QED  BY <1>0, <1>4, <1>5, <1>6, <1>7, <1>8, DispatcherStepTyped

LEMMA ClaimTyped ==
    ASSUME Typed, NEW t \in Dispatchers, NEW i \in Items, Claim(t, i)
    PROVE  Typed'
<1> DEFINE o == [Drop(t, i) EXCEPT !.pc = "call", !.i = i]
<1>1. th[t] \in DispatchStates /\ th[t].pc = "items" /\ i \in th[t].left
  BY ThreadKinds DEF Claim, At, Typed
<1>2. th[t].snap[i] \in Rows /\ item[i] \in Rows
  BY <1>1 DEF Typed, Remembered, Remembers
<1>3. item' = item \/ Writes(i)
  <2>1. [item[i] EXCEPT !.state = "Assigned", !.slot = pin[i]] \in Rows
    BY <1>2 DEF Typed, StoreTyped, Rows, OpenStates
  <2>2. Set(i, [item[i] EXCEPT !.state = "Assigned", !.slot = pin[i]]) => Writes(i)
    BY <2>1, SetWrites DEF Typed
  <2> QED  BY <2>2 DEF Claim
<1>4. StoreTyped' /\ \A j \in Items : item[j] \in Rows => item'[j] \in Rows
  <2>1. UNCHANGED <<batch, phase, pin>>
    BY DEF Claim
  <2>2. CASE item' = item
    BY <2>1, <2>2 DEF Typed, StoreTyped
  <2>3. CASE Writes(i)
    BY <2>1, <2>3, WriteTyped DEF Typed
  <2> QED  BY <1>3, <2>2, <2>3
<1>5. RestTyped'
  BY DEF Claim, Typed, RestTyped
<1>6. /\ Drop(t, i) \in DispatchStates
      /\ Drop(t, i).left \subseteq th[t].left
      /\ Drop(t, i).pc = "items" /\ Drop(t, i).snap = th[t].snap /\ Drop(t, i).b = th[t].b
  BY <1>1, DropTyped
<1>7. /\ o \in DispatchStates /\ o.left \subseteq th[t].left /\ o.pc = "call"
      /\ o.snap = th[t].snap /\ o.b = th[t].b /\ o.i = i
  BY <1>6 DEF DispatchStates
<1>8. th[t].left \subseteq Items /\ Remembers(t)
  BY <1>1 DEF Typed, Remembered, DispatchStates
<1>9. CASE th' = [th EXCEPT ![t] = Drop(t, i)]
  <2>1. th'[t] = Drop(t, i)
    BY <1>9 DEF Typed, ThreadsTyped, Threads
  <2>2. Remembers(t)'
    BY <1>1, <1>4, <1>6, <1>8, <2>1 DEF Remembers
  <2> QED  BY <1>4, <1>5, <1>6, <1>9, <2>2, DispatcherStepTyped
<1>10. CASE th' = [th EXCEPT ![t] = o]
  <2>1. th'[t] = o
    BY <1>10 DEF Typed, ThreadsTyped, Threads
  <2> HIDE DEF o
  <2>2. Remembers(t)'
    BY <1>1, <1>2, <1>4, <1>7, <1>8, <2>1 DEF Remembers
  <2> QED  BY <1>4, <1>5, <1>7, <1>10, <2>2, DispatcherStepTyped
<1> QED  BY <1>9, <1>10 DEF Claim

(* What the Controller's answers do to the tasks and to the thread.         *)
LEMMA CreateRunEffect ==
    ASSUME Typed, NEW t \in Dispatchers, CreateRun(t)
    PROVE  /\ th[t] \in DispatchStates /\ th[t].pc = "call" /\ th[t].i \in Items
           /\ \E a \in Answers :
                 /\ th' = [th EXCEPT ![t] = [th[t] EXCEPT !.pc = "reply", !.ans = a]]
                 /\ a = "rejected" => run'[th[t].i] \in {"none", "refused"}
           /\ \/ run' = run
              \/ /\ run[th[t].i] = "none"
                 /\ run' = [run EXCEPT ![th[t].i] = "live"]
              \/ /\ run[th[t].i] \in {"none", "refused"}
                 /\ run' = [run EXCEPT ![th[t].i] = "refused"]
           /\ faults' \in 0..MaxFaults
           /\ UNCHANGED <<store, stopped, restarts>>
<1>1. th[t] \in DispatchStates /\ th[t].pc = "call"
  BY ThreadKinds DEF CreateRun, At, Typed
<1>2. th[t].i \in Items
  BY <1>1 DEF Typed, Remembered, Remembers
<1>3. ASSUME NEW a \in Answers, Answer(t, a)
      PROVE  th' = [th EXCEPT ![t] = [th[t] EXCEPT !.pc = "reply", !.ans = a]]
  BY <1>3, <1>1 DEF Answer, Typed, ThreadsTyped, Threads
<1>4. faults' \in 0..MaxFaults
  BY DEF CreateRun, Fault, Typed, RestTyped
<1>5. UNCHANGED <<store, stopped, restarts>>
  BY DEF CreateRun
<1>6. \/ run' = run
      \/ /\ run[th[t].i] = "none"
         /\ run' = [run EXCEPT ![th[t].i] = "live"]
      \/ /\ run[th[t].i] \in {"none", "refused"}
         /\ run' = [run EXCEPT ![th[t].i] = "refused"]
  BY DEF CreateRun
<1>7. \E a \in Answers :
         /\ Answer(t, a)
         /\ a = "rejected" => run'[th[t].i] \in {"none", "refused"}
  BY <1>2 DEF CreateRun, Answers, Typed, RestTyped
<1> QED  BY <1>1, <1>2, <1>3, <1>4, <1>5, <1>6, <1>7

LEMMA CreateRunTyped ==
    ASSUME Typed, NEW t \in Dispatchers, CreateRun(t)
    PROVE  Typed'
<1>1. /\ th[t] \in DispatchStates /\ th[t].pc = "call" /\ th[t].i \in Items
      /\ faults' \in 0..MaxFaults
      /\ UNCHANGED <<store, stopped, restarts>>
  BY CreateRunEffect
<1>2. PICK a \in Answers :
         th' = [th EXCEPT ![t] = [th[t] EXCEPT !.pc = "reply", !.ans = a]]
  BY CreateRunEffect
<1> DEFINE o == [th[t] EXCEPT !.pc = "reply", !.ans = a]
<1>3. /\ o \in DispatchStates /\ o.pc = "reply" /\ o.left = th[t].left
      /\ o.snap = th[t].snap /\ o.b = th[t].b /\ o.i = th[t].i
  BY <1>1 DEF DispatchStates
<1>4. run' \in [Items -> Outcomes \cup {"none", "live", "refused"}]
  <2>1. \/ run' = run
        \/ run' = [run EXCEPT ![th[t].i] = "live"]
        \/ run' = [run EXCEPT ![th[t].i] = "refused"]
    BY CreateRunEffect
  <2> QED  BY <2>1 DEF Typed, RestTyped
<1>5. StoreTyped' /\ RestTyped' /\ item' = item
  BY <1>1, <1>4 DEF Typed, StoreTyped, RestTyped
<1>6. th'[t] = o
  BY <1>2 DEF Typed, ThreadsTyped, Threads
<1>7. th' = [th EXCEPT ![t] = o]
  BY <1>2
<1> HIDE DEF o
<1>8. Remembers(t)'
  BY <1>1, <1>3, <1>5, <1>6 DEF Typed, Remembered, Remembers
<1> QED  BY <1>3, <1>5, <1>7, <1>8, DispatcherStepTyped

LEMMA RecordReplyTyped ==
    ASSUME Typed, NEW t \in Dispatchers, RecordReply(t)
    PROVE  Typed'
<1> DEFINE o == [th[t] EXCEPT !.pc = "items", !.i = None, !.ans = "none"]
           i == th[t].i
<1>1. th[t] \in DispatchStates /\ th[t].pc = "reply"
  BY ThreadKinds DEF RecordReply, At, Typed
<1>2. i \in Items /\ th[t].snap[i] \in Rows /\ item[i] \in Rows
  BY <1>1 DEF Typed, Remembered, Remembers
<1>3. Writes(i)
  BY <1>2, RecordedResolves DEF RecordReply, Typed
<1>4. StoreTyped' /\ \A j \in Items : item[j] \in Rows => item'[j] \in Rows
  BY <1>2, <1>3, WriteTyped DEF RecordReply, Typed
<1>5. RestTyped'
  BY DEF RecordReply, Typed, RestTyped
<1>6. /\ o \in DispatchStates /\ o.pc = "items" /\ o.left = th[t].left
      /\ o.snap = th[t].snap /\ o.b = th[t].b
  BY <1>1 DEF DispatchStates
<1>7. th' = [th EXCEPT ![t] = o]
  BY <1>1 DEF RecordReply, Typed, ThreadsTyped, Threads
<1>8. th'[t] = o
  BY <1>7 DEF Typed, ThreadsTyped, Threads
<1>9. th[t].left \subseteq Items /\ Remembers(t)
  BY <1>1 DEF Typed, Remembered, DispatchStates
<1> HIDE DEF o
<1>10. Remembers(t)'
  BY <1>1, <1>4, <1>6, <1>8, <1>9 DEF Remembers
<1> QED  BY <1>4, <1>5, <1>6, <1>7, <1>10, DispatcherStepTyped

LEMMA RefreshBatchTyped ==
    ASSUME Typed, NEW t \in Dispatchers, RefreshBatch(t)
    PROVE  Typed'
<1> DEFINE o == [th[t] EXCEPT !.pc = "write", !.st = BatchState(th[t].b),
                              !.snap = NoRows, !.ready = {}]
<1>1. th[t] \in DispatchStates /\ th[t].pc = "items" /\ th[t].left = {}
  BY ThreadKinds DEF RefreshBatch, At, Typed
<1>2. BatchState(th[t].b) \in {"none", "Running", "Completed", "Stopped"}
  BY DEF BatchState
<1>3. /\ o \in DispatchStates /\ o.pc = "write" /\ o.left = {} /\ o.b = th[t].b
  BY <1>1, <1>2 DEF DispatchStates, NoRows, Tables
<1>4. StoreTyped' /\ RestTyped' /\ item' = item
  BY DEF RefreshBatch, Typed, StoreTyped, RestTyped
<1>5. th' = [th EXCEPT ![t] = o]
  BY <1>1 DEF RefreshBatch, Typed, ThreadsTyped, Threads
<1>6. th'[t] = o
  BY <1>5 DEF Typed, ThreadsTyped, Threads
<1> HIDE DEF o
<1>7. Remembers(t)'
  BY <1>1, <1>3, <1>6 DEF Typed, Remembered, Remembers
<1> QED  BY <1>3, <1>4, <1>5, <1>7, DispatcherStepTyped

LEMMA WriteBatchTyped ==
    ASSUME Typed, NEW t \in Dispatchers, WriteBatch(t)
    PROVE  Typed'
<1>1. th[t] \in DispatchStates /\ th[t].pc = "write"
  BY ThreadKinds DEF WriteBatch, At, Typed
<1>2. /\ th[t].b \in Batches /\ th[t].todo \in SUBSET Batches /\ th[t].poll \in BOOLEAN
      /\ th[t].st \in {"none", "Running", "Completed", "Stopped"}
  BY <1>1 DEF Typed, Remembered, Remembers, DispatchStates
<1>3. Working(th[t].poll, th[t].todo) \in DispatchStates
  BY <1>2, WorkingTyped
<1>4. StoreTyped' /\ RestTyped' /\ item' = item
  BY <1>2 DEF WriteBatch, Typed, StoreTyped, RestTyped
<1>5. th' = [th EXCEPT ![t] = Working(th[t].poll, th[t].todo)]
  BY DEF WriteBatch
<1>6. Remembers(t)'
  <2>1. th'[t] = Working(th[t].poll, th[t].todo)
    BY <1>5 DEF Typed, ThreadsTyped, Threads
  <2> QED  BY <2>1 DEF Remembers, Working
<1> QED  BY <1>3, <1>4, <1>5, <1>6, DispatcherStepTyped

(* A step of the thread of stop_batch that leaves it in state o.           *)
LEMMA StopStepTyped ==
    ASSUME Typed, NEW o \in {Idle} \cup StopStates, th' = [th EXCEPT !["stop"] = o],
           StoreTyped', RestTyped',
           \A j \in Items : item[j] \in Rows => item'[j] \in Rows,
           o \in StopStates => \A i \in o.left : o.snap[i] \in Rows /\ item'[i] \in Rows
    PROVE  Typed'
<1>1. ThreadsTyped'
  BY DEF Typed, ThreadsTyped, Dispatchers, Threads
<1>2. th'["stop"] = o /\ \A u \in Dispatchers : th'[u] = th[u]
  BY DEF Typed, ThreadsTyped, Dispatchers, Threads
<1>3. \A u \in Dispatchers : Remembers(u)'
  BY <1>2, OthersRemember
<1>4. StopRemembers'
  BY <1>2 DEF StopRemembers
<1> QED  BY <1>1, <1>3, <1>4 DEF Typed, Remembered

LEMMA StopBeginTyped ==
    ASSUME Typed, NEW b \in Batches, StopBegin(b)
    PROVE  Typed'
<1> DEFINE o == [pc |-> "read", b |-> b, snap |-> NoRows, left |-> {}]
<1>1. o \in StopStates /\ o.left = {}
  BY DEF StopStates, NoRows, Tables
<1>2. th' = [th EXCEPT !["stop"] = o]
  BY DEF StopBegin
<1>3. StoreTyped' /\ RestTyped' /\ item' = item
  BY DEF StopBegin, Typed, StoreTyped, RestTyped
<1> HIDE DEF o
<1> QED  BY <1>1, <1>2, <1>3, StopStepTyped

LEMMA StopReadTyped ==
    ASSUME Typed, StopRead
    PROVE  Typed'
<1> DEFINE ids == IdsIn(th["stop"].b, OpenStates)
           o == [th["stop"] EXCEPT !.pc = "items", !.snap = Read(ids), !.left = ids]
<1>1. th["stop"] \in StopStates /\ th["stop"].b \in Batches
  BY DEF StopRead, At, Typed, ThreadsTyped, StopStates
<1>2. /\ ids \subseteq Items /\ Read(ids) \in Tables
      /\ \A i \in ids : item[i] \in Rows /\ Read(ids)[i] = item[i]
  BY <1>1, ReadTyped DEF Typed
<1>3. o \in StopStates /\ o.left = ids /\ o.snap = Read(ids)
  <2> HIDE DEF ids
  <2> QED  BY <1>1, <1>2 DEF StopStates
<1>4. th' = [th EXCEPT !["stop"] = o]
  BY <1>1 DEF StopRead, Typed, ThreadsTyped, Threads
<1>5. StoreTyped' /\ RestTyped' /\ item' = item
  BY DEF StopRead, Typed, StoreTyped, RestTyped
<1> HIDE DEF ids, o
<1> QED  BY <1>2, <1>3, <1>4, <1>5, StopStepTyped

LEMMA StopItemTyped ==
    ASSUME Typed, NEW i \in Items, StopItem(i)
    PROVE  Typed'
<1>1. th["stop"] \in StopStates /\ i \in th["stop"].left
  BY DEF StopItem, At, Typed, ThreadsTyped
<1>2. /\ item[i] \in Rows /\ th["stop"].left \subseteq Items
      /\ \A j \in th["stop"].left : th["stop"].snap[j] \in Rows /\ item[j] \in Rows
  BY <1>1 DEF Typed, Remembered, StopRemembers, StopStates
<1>3. item' = item \/ Writes(i)
  <2> DEFINE Dequeued == [item[i] EXCEPT !.state = "Invalid", !.defer = 0, !.stop = FALSE,
                                         !.owner = "platform"]
             Marked == [item[i] EXCEPT !.stop = TRUE, !.defer = 0, !.owner = "operator"]
  <2>1. Dequeued \in Rows /\ Marked \in Rows
    BY <1>2 DEF Rows, Settled
  <2>2. Set(i, Dequeued) \/ Set(i, Marked) => Writes(i)
    BY <2>1, SetWrites DEF Typed
  <2> QED  BY <2>2 DEF StopItem
<1>4. StoreTyped' /\ \A j \in Items : item[j] \in Rows => item'[j] \in Rows
  <2>1. UNCHANGED <<batch, phase, pin>>
    BY DEF StopItem
  <2>2. CASE item' = item
    BY <2>1, <2>2 DEF Typed, StoreTyped
  <2>3. CASE Writes(i)
    BY <2>1, <2>3, WriteTyped DEF Typed
  <2> QED  BY <1>3, <2>2, <2>3
<1>5. RestTyped'
  BY DEF StopItem, Typed, RestTyped, Fault
<1>6. /\ Drop("stop", i) \in StopStates
      /\ Drop("stop", i).left \subseteq th["stop"].left
      /\ Drop("stop", i).snap = th["stop"].snap
  BY <1>1 DEF Drop, StopStates
<1>7. th' = [th EXCEPT !["stop"] = Drop("stop", i)]
  BY DEF StopItem
<1> QED  BY <1>2, <1>4, <1>5, <1>6, <1>7, StopStepTyped

LEMMA StopEndTyped ==
    ASSUME Typed, StopEnd
    PROVE  Typed'
<1>1. th["stop"] \in StopStates /\ th["stop"].b \in Batches
  BY DEF StopEnd, At, Typed, ThreadsTyped, StopStates
<1>2. StoreTyped' /\ RestTyped' /\ item' = item
  BY <1>1 DEF StopEnd, Typed, StoreTyped, RestTyped
<1>3. th' = [th EXCEPT !["stop"] = Idle]
  BY DEF StopEnd
<1> QED  BY <1>2, <1>3, IdleIsNoState, StopStepTyped

(* Operators, trials and restarts touch no dispatcher's state, or end all.  *)
LEMMA OutsideTyped ==
    ASSUME Typed,
           \/ \E s \in Slots : RefreshRead(s) \/ Drain(s)
           \/ RefreshWrite
           \/ \E i \in Items : RunEnds(i)
    PROVE  /\ Typed' /\ UNCHANGED <<item, batch, pin, stopped>>
           /\ \A t \in Dispatchers \cup {"stop"} : th'[t] = th[t]
<1>1. UNCHANGED <<item, batch, pin, stopped>>
  BY DEF RefreshRead, Drain, RefreshWrite, RunEnds
<1>2. \A t \in Dispatchers \cup {"stop"} : th'[t] = th[t]
  BY DEF RefreshRead, Drain, RefreshWrite, RunEnds, Typed, ThreadsTyped, Threads, Dispatchers
<1>3. ThreadsTyped'
  <2>1. ASSUME NEW s \in Slots, RefreshRead(s)
        PROVE  ThreadsTyped'
    <3>1. PICK p \in Phases : th' = [th EXCEPT !["refresh"] = [pc |-> "phase", s |-> s, p |-> p]]
      BY <2>1 DEF RefreshRead, Phases, Typed, StoreTyped
    <3>2. [pc |-> "phase", s |-> s, p |-> p] \in RefreshStates
      BY DEF RefreshStates
    <3> QED  BY <3>1, <3>2 DEF Typed, ThreadsTyped, Threads, Dispatchers
  <2>2. CASE RefreshWrite
    BY <2>2 DEF RefreshWrite, Typed, ThreadsTyped, Threads, Dispatchers
  <2>3. CASE th' = th
    BY <2>3 DEF Typed, ThreadsTyped
  <2> QED  BY <2>1, <2>2, <2>3 DEF Drain, RunEnds
<1>4. StoreTyped'
  <2>1. CASE RefreshWrite
    <3>1. th["refresh"] \in RefreshStates
      BY <2>1 DEF RefreshWrite, At, Typed, ThreadsTyped
    <3> QED  BY <2>1, <3>1 DEF RefreshWrite, RefreshStates, Typed, StoreTyped
  <2>2. CASE phase' = phase
    BY <1>1, <2>2 DEF Typed, StoreTyped
  <2>3. ASSUME NEW s \in Slots, Drain(s)
        PROVE  StoreTyped'
    BY <2>3 DEF Drain, Typed, StoreTyped, Phases
  <2> QED  BY <2>1, <2>2, <2>3 DEF RefreshRead, RunEnds
<1>5. RestTyped'
  BY DEF RefreshRead, Drain, RefreshWrite, RunEnds, Fault, Typed, RestTyped
<1>6. Remembered'
  BY <1>1, <1>2, OthersRemember, StopStillRemembers DEF Remembered
<1> QED  BY <1>1, <1>2, <1>3, <1>4, <1>5, <1>6 DEF Typed

LEMMA RestartTyped ==
    ASSUME Typed, Restart
    PROVE  Typed'
<1>1. ThreadsTyped' /\ \A t \in Threads : th'[t] = Idle
  BY DEF Restart, ThreadsTyped, Threads, Dispatchers
<1>2. StoreTyped' /\ RestTyped'
  BY DEF Restart, Typed, StoreTyped, RestTyped
<1>3. Remembered'
  BY <1>1, IdleIsNoState DEF Remembered, Remembers, StopRemembers, Threads, Dispatchers
<1> QED  BY <1>1, <1>2, <1>3 DEF Typed

LEMMA NextTyped == Typed /\ [Next]_vars => Typed'
<1> SUFFICES ASSUME Typed, [Next]_vars PROVE Typed'
  OBVIOUS
<1>1. CASE UNCHANGED vars
  BY <1>1 DEF vars, Typed, ThreadsTyped, StoreTyped, RestTyped, Remembered, Remembers,
              StopRemembers
<1>2. ASSUME NEW b \in Batches, Submit(b) \/ StopBegin(b)
      PROVE  Typed'
  BY <1>2, SubmitTyped, StopBeginTyped
<1>3. ASSUME NEW t \in Dispatchers, DispatchStep(t)
      PROVE  Typed'
  BY <1>3, PassEndsTyped, NextBatchTyped, ClaimTyped, CreateRunTyped, RecordReplyTyped,
     RefreshBatchTyped, WriteBatchTyped DEF DispatchStep
<1>4. CASE StopStep
  BY <1>4, StopReadTyped, StopItemTyped, StopEndTyped DEF StopStep
<1> QED
  BY <1>1, <1>2, <1>3, <1>4, TickTyped, PollItemTyped, OutsideTyped, RestartTyped DEF Next

(* Whatever the threads, operators and restarts do, the tables, the        *)
(* Controllers' tasks and the snapshots keep their types, and a thread     *)
(* works on rows that are stored.                                          *)
THEOREM TypeCorrect == Spec => []TypeOK
<1>1. Spec => []Typed
  BY InitTyped, NextTyped, PTL DEF Spec
<1> QED  BY <1>1, TypedIsTypeOK, PTL
----------------------------------------------------------------------------
(***************************************************************************)
(* Without stops                                                           *)
(***************************************************************************)

(* No batch is being stopped.                                              *)
Quiet == th["stop"] = Idle /\ stopped = {}

(* The items of a batch are stored with it.                                *)
Stored == \A i \in Items : batch[BatchOf[i]] # "none" <=> item[i] \in Rows

(* run_id is set only once the Controller accepted the item.               *)
Unstarted == \A i \in Items : item[i].state \in {"Queued", "Assigned"} => item[i].run = FALSE

(* What holds of the tables between any two steps.                         *)
Sound ==
    /\ Stored /\ Unstarted
    /\ SlotExclusive /\ CompletedMeansSettled /\ EveryTrialIsFollowed

(* What a dispatching thread may rely on although it has let go of the     *)
(* store: the item it submits is still assigned, and not running if it was *)
(* rejected; what it counted as settled still is.                          *)
Submitting(t) == th[t] \in DispatchStates /\ th[t].pc \in {"call", "reply"}
Tracks(t) ==
    th[t] \in DispatchStates =>
        /\ th[t].todo \subseteq Known
        /\ th[t].pc # "batch" => th[t].b \in Known
        /\ th[t].pc \in {"call", "reply"} =>
              ~th[t].poll /\ item[th[t].i].state = "Assigned"
        /\ th[t].pc = "reply" /\ th[t].ans = "rejected" => run[th[t].i] # "live"
        /\ th[t].pc = "write" =>
              /\ th[t].st # "none"
              /\ th[t].st = "Completed" =>
                    \A i \in ItemsOf(th[t].b) : item[i].state \in Settled

(* The two threads submit different items.                                 *)
Apart == Submitting("loop") /\ Submitting("submit") => th["loop"].i # th["submit"].i

(* An item the loop is about to poll runs, if its run_id was set.          *)
Polls ==
    th["loop"] \in DispatchStates /\ th["loop"].pc = "items" /\ th["loop"].poll =>
        \A i \in th["loop"].left : th["loop"].snap[i].run => item[i].state = "Running"

Inductive ==
    /\ Typed /\ Quiet /\ Sound /\ Apart /\ Polls
    /\ \A t \in Dispatchers : Tracks(t)

(* What a step leaves of the settled items.                                *)
KeepsSettled ==
    \A i \in Items : item[i].state \in Settled =>
        item'[i].state = item[i].state /\ item'[i].owner = item[i].owner

LEMMA TwoDispatchers ==
    ASSUME NEW t \in Dispatchers, NEW u \in Dispatchers, t # u
    PROVE  {t, u} = {"loop", "submit"} /\ t \in Threads /\ u \in Threads
BY DEF Dispatchers, Threads

(* An item in flight that is resolved leaves the tables sound.             *)
LEMMA ResolvedKeepsSound ==
    ASSUME Typed, Sound, NEW i \in Items, item[i].state \in InFlight, item[i] \in Rows,
           Resolved(i), UNCHANGED <<batch, run>>
    PROVE  Sound' /\ KeepsSettled
<1>1. /\ item'[i] \in Rows
      /\ \A j \in Items : j # i => item'[j] = item[j]
  BY DEF Resolved, Writes, Typed, StoreTyped, Tables
<1>2. KeepsSettled
  BY <1>1 DEF KeepsSettled, InFlight, Settled
<1>3. Stored'
  <2>1. \A j \in Items : item'[j] \in Rows <=> item[j] \in Rows
    BY <1>1
  <2> QED  BY <2>1 DEF Sound, Stored
<1>4. Unstarted'
  <2>1. item'[i].run \in BOOLEAN
    BY <1>1 DEF Rows
  <2> QED  BY <1>1, <2>1 DEF Sound, Unstarted, Resolved
<1>6. SlotExclusive'
  <2>1. \A j \in Items : item'[j].state \in InFlight =>
           item[j].state \in InFlight /\ item'[j].slot = item[j].slot
    BY <1>1 DEF Resolved, InFlight
  <2> QED  BY <2>1 DEF Sound, SlotExclusive
<1>7. CompletedMeansSettled'
  BY <1>2 DEF Sound, CompletedMeansSettled, KeepsSettled, ItemsOf
<1>9. EveryTrialIsFollowed'
  BY <1>1 DEF Sound, EveryTrialIsFollowed, Resolved
<1> QED  BY <1>2, <1>3, <1>4, <1>6, <1>7, <1>9 DEF Sound

(* A thread that did not move still may rely on what it knew.              *)
LEMMA OthersTrack ==
    ASSUME Inductive, NEW u \in Dispatchers, th'[u] = th[u],
           \A b \in Batches : batch[b] # "none" => batch'[b] # "none",
           KeepsSettled,
           Submitting(u) => /\ item'[th[u].i].state = "Assigned"
                            /\ run[th[u].i] # "live" => run'[th[u].i] # "live"
    PROVE  Tracks(u)'
<1> SUFFICES ASSUME th[u] \in DispatchStates PROVE Tracks(u)'
  BY DEF Tracks
<1>1. Known \subseteq Known'
  BY DEF Known
<1>2. Tracks(u)
  BY DEF Inductive
<1>3. \A b \in Batches : (\A i \in ItemsOf(b) : item[i].state \in Settled) =>
                          \A i \in ItemsOf(b) : item'[i].state \in Settled
  BY DEF KeepsSettled, ItemsOf
<1> QED  BY <1>1, <1>2, <1>3 DEF Tracks, Submitting, Known

(* A step of dispatcher t, to state o, that leaves rows and runs alone.    *)
LEMMA QuietStep ==
    ASSUME Inductive, Typed', NEW t \in Dispatchers, NEW o \in {Idle} \cup DispatchStates,
           th' = [th EXCEPT ![t] = o], UNCHANGED <<item, run, stopped>>,
           \A b \in Batches : batch[b] # "none" <=> batch'[b] # "none",
           CompletedMeansSettled', Tracks(t)', Polls',
           o \in DispatchStates => o.pc \notin {"call", "reply"}
    PROVE  Inductive' /\ KeepsSettled
<1>1. th'[t] = o /\ \A u \in Threads : u # t => th'[u] = th[u]
  BY DEF Inductive, Typed, ThreadsTyped, Threads, Dispatchers
<1>2. KeepsSettled
  BY DEF KeepsSettled
<1>3. Quiet'
  BY <1>1 DEF Inductive, Quiet, Threads, Dispatchers
<1>4. Sound'
  BY DEF Inductive, Sound, Stored, Unstarted, SlotExclusive,
         EveryTrialIsFollowed
<1>5. \A u \in Dispatchers : Tracks(u)'
  <2> TAKE u \in Dispatchers
  <2>1. CASE u = t
    BY <2>1
  <2>2. CASE u # t
    <3>1. th'[u] = th[u]
      BY <1>1, <2>2 DEF Threads
    <3>2. Submitting(u) => item'[th[u].i].state = "Assigned"
      BY DEF Inductive, Tracks, Submitting
    <3> QED  BY <1>2, <3>1, <3>2, OthersTrack
  <2> QED  BY <2>1, <2>2
<1>6. Apart'
  BY <1>1 DEF Apart, Submitting, Dispatchers
<1> QED  BY <1>2, <1>3, <1>4, <1>5, <1>6 DEF Inductive

(* A dispatcher that starts a pass, or ends one, has nothing to remember.  *)
LEMMA FreshTracks ==
    ASSUME NEW t \in Dispatchers, NEW p \in BOOLEAN, NEW todo \in SUBSET Known',
           th'[t] = Working(p, todo) \/ th'[t] = Idle
    PROVE  Tracks(t)' /\ (t = "loop" => Polls')
BY IdleIsNoState DEF Tracks, Polls, Working

(* The loop's reading stands while the other thread moves.                 *)
LEMMA LoopStillPolls ==
    ASSUME Inductive, th'["loop"] = th["loop"],
           \A i \in Items : item[i].state = "Running" => item'[i].state = "Running"
    PROVE  Polls'
<1>1. th["loop"] \in DispatchStates => th["loop"].left \subseteq Items
  BY DEF DispatchStates
<1> QED  BY <1>1 DEF Inductive, Polls

LEMMA TickKeeps ==
    ASSUME Inductive, Tick
    PROVE  Inductive' /\ KeepsSettled
<1>1. "loop" \in Dispatchers /\ "loop" \in Threads
  BY DEF Dispatchers, Threads
<1>2. Typed'
  BY TickTyped DEF Inductive
<1>3. UNCHANGED <<item, run, stopped, batch>> /\ Known' = Known
  BY DEF Tick, Known
<1>4. th' = [th EXCEPT !["loop"] = Working(TRUE, Known)] /\ th'["loop"] = Working(TRUE, Known)
  BY <1>1 DEF Tick, Inductive, Typed, ThreadsTyped
<1>5. Working(TRUE, Known) \in DispatchStates /\ Working(TRUE, Known).pc = "batch"
  BY WorkingTyped DEF Known, Working
<1>6. Tracks("loop")' /\ Polls'
  BY <1>1, <1>3, <1>4, FreshTracks
<1>7. CompletedMeansSettled'
  BY <1>3 DEF Inductive, Sound, CompletedMeansSettled
<1> QED  BY <1>1, <1>2, <1>3, <1>4, <1>5, <1>6, <1>7, QuietStep

LEMMA PassEndsKeeps ==
    ASSUME Inductive, NEW t \in Dispatchers, PassEnds(t)
    PROVE  Inductive' /\ KeepsSettled
<1> DEFINE o == IF th[t].poll THEN Working(FALSE, OpenBatches) ELSE Idle
<1>1. t \in Threads
  BY DEF Threads
<1>2. Typed'
  BY PassEndsTyped DEF Inductive
<1>3. UNCHANGED <<item, run, stopped, batch>> /\ Known' = Known
  BY DEF PassEnds, Known
<1>4. th' = [th EXCEPT ![t] = o] /\ th'[t] = o /\ \A u \in Threads : u # t => th'[u] = th[u]
  BY <1>1 DEF PassEnds, Inductive, Typed, ThreadsTyped
<1>5. o \in {Idle} \cup DispatchStates /\ (o # Idle => o.pc = "batch")
  BY WorkingTyped DEF OpenBatches, Known, Working
<1>6. Tracks(t)' /\ (t = "loop" => Polls')
  <2>1. OpenBatches \in SUBSET Known'
    BY <1>3 DEF OpenBatches
  <2> QED  BY <1>4, <2>1, FreshTracks
<1>7. Polls'
  <2>1. CASE t = "loop"
    BY <1>6, <2>1
  <2>2. CASE t # "loop"
    BY <1>3, <1>4, <2>2, LoopStillPolls DEF Threads, Dispatchers
  <2> QED  BY <2>1, <2>2
<1>8. CompletedMeansSettled'
  BY <1>3 DEF Inductive, Sound, CompletedMeansSettled
<1> HIDE DEF o
<1> QED  BY <1>2, <1>3, <1>4, <1>5, <1>6, <1>7, <1>8, IdleIsNoState, QuietStep

LEMMA NextBatchKeeps ==
    ASSUME Inductive, NEW t \in Dispatchers, NEW b \in Batches, NextBatch(t, b)
    PROVE  Inductive' /\ KeepsSettled
<1> DEFINE o == [th[t] EXCEPT !.todo = @ \ {b}]
           ids == IdsIn(b, IF o.poll THEN InFlight ELSE {"Queued"})
           read == [o EXCEPT !.pc = "items", !.b = b, !.snap = Read(ids), !.left = ids,
                             !.ready = {s \in Slots : phase[s] = "Ready"}]
<1>1. /\ th[t] \in DispatchStates /\ th[t].pc = "batch" /\ b \in th[t].todo
      /\ th[t].todo \subseteq Known
  BY ThreadKinds DEF NextBatch, Inductive, Typed, Tracks
<1>2. Typed'
  BY NextBatchTyped DEF Inductive
<1>3. UNCHANGED <<item, run, stopped, batch>> /\ Known' = Known
  BY DEF NextBatch, Known
<1>4. /\ o \in DispatchStates /\ o.pc = "batch" /\ o.todo \subseteq Known
      /\ o.poll = th[t].poll
  BY <1>1 DEF DispatchStates
<1>5. /\ ids \subseteq Items /\ Read(ids) \in Tables
      /\ \A i \in ids : item[i] \in Rows /\ Read(ids)[i] = item[i]
  <2>1. (IF o.poll THEN InFlight ELSE {"Queued"}) \in SUBSET (OpenStates \cup Settled)
    BY DEF InFlight, OpenStates
  <2> QED  BY <2>1, ReadTyped DEF Inductive, Typed
<1>6. /\ read \in DispatchStates /\ read.pc = "items" /\ read.b = b /\ read.left = ids
      /\ read.snap = Read(ids) /\ read.todo = o.todo /\ read.poll = o.poll
  <2> HIDE DEF o, ids
  <2> QED  BY <1>4, <1>5 DEF DispatchStates
<1>7. o.poll => \A i \in ids : item[i].run => item[i].state = "Running"
  BY <1>5 DEF IdsIn, ItemsOf, InFlight, Inductive, Sound, Unstarted
<1>8. CompletedMeansSettled'
  BY <1>3 DEF Inductive, Sound, CompletedMeansSettled
<1>9. th' = [th EXCEPT ![t] = o] \/ th' = [th EXCEPT ![t] = read]
  BY DEF NextBatch
<1> HIDE DEF o, ids, read
<1>10. ASSUME t # "loop"
       PROVE  Polls'
  <2>1. th'["loop"] = th["loop"]
    BY <1>9, <1>10 DEF Inductive, Typed, ThreadsTyped, Threads, Dispatchers
  <2> QED  BY <1>3, <2>1, LoopStillPolls
<1>11. CASE th' = [th EXCEPT ![t] = o]
  <2>1. th'[t] = o
    BY <1>11 DEF Inductive, Typed, ThreadsTyped, Threads
  <2>2. Tracks(t)' /\ (t = "loop" => Polls')
    BY <1>3, <1>4, <2>1 DEF Tracks, Polls
  <2> QED  BY <1>2, <1>3, <1>4, <1>8, <1>10, <1>11, <2>2, QuietStep
<1>12. CASE th' = [th EXCEPT ![t] = read]
  <2>1. th'[t] = read
    BY <1>12 DEF Inductive, Typed, ThreadsTyped, Threads
  <2>2. Tracks(t)'
    BY <1>1, <1>3, <1>4, <1>6, <2>1 DEF Tracks
  <2>3. t = "loop" => Polls'
    BY <1>3, <1>5, <1>6, <1>7, <2>1 DEF Polls
  <2> QED  BY <1>2, <1>3, <1>6, <1>8, <1>10, <1>12, <2>2, <2>3, QuietStep
<1> QED  BY <1>9, <1>11, <1>12

LEMMA RefreshBatchKeeps ==
    ASSUME Inductive, NEW t \in Dispatchers, RefreshBatch(t)
    PROVE  Inductive' /\ KeepsSettled
<1> DEFINE o == [th[t] EXCEPT !.pc = "write", !.st = BatchState(th[t].b),
                              !.snap = NoRows, !.ready = {}]
<1>1. /\ th[t] \in DispatchStates /\ th[t].pc = "items" /\ th[t].b \in Known
      /\ th[t].todo \subseteq Known
  BY ThreadKinds DEF RefreshBatch, At, Inductive, Typed, Tracks
<1>2. Typed'
  BY RefreshBatchTyped DEF Inductive
<1>3. UNCHANGED <<item, run, stopped, batch>> /\ Known' = Known
  BY DEF RefreshBatch, Known
<1>4. /\ o \in DispatchStates /\ o.pc = "write" /\ o.b = th[t].b /\ o.todo = th[t].todo
      /\ o.st = BatchState(th[t].b)
  <2>1. BatchState(th[t].b) \in {"none", "Running", "Completed", "Stopped"}
    BY DEF BatchState
  <2> QED  BY <1>1, <2>1 DEF DispatchStates, NoRows, Tables
<1>5. /\ BatchState(th[t].b) # "none"
      /\ BatchState(th[t].b) = "Completed" =>
            \A i \in ItemsOf(th[t].b) : item[i].state \in Settled
  <2>1. \A i \in ItemsOf(th[t].b) : item[i].state \in OpenStates \cup Settled
    BY <1>1 DEF ItemsOf, Known, Inductive, Sound, Stored, Rows
  <2> QED  BY <2>1 DEF BatchState
<1>6. th' = [th EXCEPT ![t] = o]
  BY <1>1 DEF RefreshBatch, Inductive, Typed, ThreadsTyped, Threads
<1>7. th'[t] = o /\ \A u \in Threads : u # t => th'[u] = th[u]
  BY <1>6 DEF Inductive, Typed, ThreadsTyped, Threads
<1> HIDE DEF o
<1>8. Tracks(t)' /\ (t = "loop" => Polls')
  BY <1>1, <1>3, <1>4, <1>5, <1>7 DEF Tracks, Polls, ItemsOf
<1>9. Polls'
  <2>1. CASE t = "loop"
    BY <1>8, <2>1
  <2>2. CASE t # "loop"
    BY <1>3, <1>7, <2>2, LoopStillPolls DEF Threads, Dispatchers
  <2> QED  BY <2>1, <2>2
<1>10. CompletedMeansSettled'
  BY <1>3 DEF Inductive, Sound, CompletedMeansSettled
<1> QED  BY <1>2, <1>3, <1>4, <1>6, <1>8, <1>9, <1>10, QuietStep

LEMMA WriteBatchKeeps ==
    ASSUME Inductive, NEW t \in Dispatchers, WriteBatch(t)
    PROVE  Inductive' /\ KeepsSettled
<1>1. /\ th[t] \in DispatchStates /\ th[t].pc = "write" /\ th[t].b \in Known
      /\ th[t].todo \subseteq Known /\ th[t].st # "none" /\ th[t].poll \in BOOLEAN
      /\ th[t].st = "Completed" =>
            \A i \in ItemsOf(th[t].b) : item[i].state \in Settled
  BY ThreadKinds DEF WriteBatch, At, Inductive, Typed, Tracks, DispatchStates
<1>2. Typed'
  BY WriteBatchTyped DEF Inductive
<1>3. /\ UNCHANGED <<item, run, stopped>>
      /\ batch' = [batch EXCEPT ![th[t].b] = th[t].st]
  BY DEF WriteBatch
<1>4. /\ \A b \in Batches : batch[b] # "none" <=> batch'[b] # "none"
      /\ Known' = Known
  BY <1>1, <1>3 DEF Known, Inductive, Typed, StoreTyped
<1>5. CompletedMeansSettled'
  BY <1>1, <1>3 DEF Inductive, Typed, StoreTyped, Sound, CompletedMeansSettled, ItemsOf
<1> DEFINE o == Working(th[t].poll, th[t].todo)
<1>6. o \in DispatchStates /\ o.pc = "batch"
  BY <1>1, WorkingTyped DEF Known, Working
<1>7. th' = [th EXCEPT ![t] = o]
  BY DEF WriteBatch
<1>8. th'[t] = o /\ \A u \in Threads : u # t => th'[u] = th[u]
  BY <1>7 DEF Inductive, Typed, ThreadsTyped, Threads
<1>9. Tracks(t)' /\ (t = "loop" => Polls')
  BY <1>1, <1>4, <1>8, FreshTracks
<1>10. Polls'
  <2>1. CASE t = "loop"
    BY <1>9, <2>1
  <2>2. CASE t # "loop"
    BY <1>3, <1>8, <2>2, LoopStillPolls DEF Threads, Dispatchers
  <2> QED  BY <2>1, <2>2
<1> HIDE DEF o
<1> QED  BY <1>2, <1>3, <1>4, <1>5, <1>6, <1>7, <1>9, <1>10, QuietStep

(* A batch is submitted: its items were not stored before, so no thread    *)
(* has read them.                                                          *)
LEMMA SubmitKeeps ==
    ASSUME Inductive, NEW b \in Batches, Submit(b)
    PROVE  Inductive' /\ KeepsSettled
<1>1. Typed'
  BY SubmitTyped DEF Inductive
<1>2. PICK f \in Plans(b) :
         item' = [i \in Items |-> IF i \in DOMAIN f THEN NewRow ELSE item[i]]
  BY DEF Submit
<1>3. DOMAIN f = ItemsOf(b)
  BY DEF Plans
<1>4. /\ batch[b] = "none" /\ batch' = [batch EXCEPT ![b] = "Scheduled"]
      /\ UNCHANGED <<run, stopped>>
  BY DEF Submit
<1>5. /\ NewRow \in Rows /\ NewRow.state = "Queued" /\ NewRow.run = FALSE
  BY DEF NewRow, Rows, OpenStates
<1>6. \A i \in Items : BatchOf[i] = b => item[i] = NoRow
  BY <1>4 DEF Inductive, Typed, StoreTyped, Tables, Sound, Stored
<1>7. \A i \in Items : /\ BatchOf[i] = b => item'[i] = NewRow
                       /\ BatchOf[i] # b => item'[i] = item[i]
  BY <1>2, <1>3 DEF ItemsOf
<1>8. \A i \in Items : item[i].state \in OpenStates \cup Settled => item'[i] = item[i]
  BY <1>6, <1>7 DEF NoRow, OpenStates, Settled
<1>9. KeepsSettled
  BY <1>8 DEF KeepsSettled
<1>10. \A c \in Batches : /\ c # b => batch'[c] = batch[c]
                          /\ batch'[b] = "Scheduled"
  BY <1>4 DEF Inductive, Typed, StoreTyped
<1>11. Sound'
  <2>1. Stored'
    BY <1>5, <1>7, <1>10 DEF Inductive, Sound, Stored
  <2>2. Unstarted'
    BY <1>5, <1>7 DEF Inductive, Sound, Unstarted
  <2>4. SlotExclusive'
    <3>1. \A i \in Items : item'[i].state \in InFlight => item'[i] = item[i]
      BY <1>5, <1>7 DEF InFlight
    <3> QED  BY <3>1 DEF Inductive, Sound, SlotExclusive
  <2>5. CompletedMeansSettled'
    BY <1>9, <1>10 DEF Inductive, Sound, CompletedMeansSettled, KeepsSettled, ItemsOf
  <2>7. EveryTrialIsFollowed'
    BY <1>4, <1>5, <1>7 DEF Inductive, Sound, EveryTrialIsFollowed, OpenStates
  <2> QED  BY <2>1, <2>2, <2>4, <2>5, <2>7 DEF Sound
<1>12. /\ th'["submit"] = Working(TRUE, {})
       /\ th'["loop"] = th["loop"] /\ th'["stop"] = th["stop"]
  BY DEF Submit, Inductive, Typed, ThreadsTyped, Threads, Dispatchers
<1>13. Tracks("submit")'
  BY <1>12 DEF Tracks, Working
<1>14. Tracks("loop")'
  <2>1. Submitting("loop") => item'[th["loop"].i].state = "Assigned"
    <3>1. Submitting("loop") => /\ th["loop"].i \in Items
                                /\ item[th["loop"].i].state = "Assigned"
      BY DEF Submitting, Inductive, Typed, Remembered, Remembers, Tracks, Dispatchers
    <3> QED  BY <1>8, <3>1 DEF OpenStates
  <2>2. \A c \in Batches : batch[c] # "none" => batch'[c] # "none"
    BY <1>10
  <2> QED  BY <1>4, <1>9, <1>12, <2>1, <2>2, OthersTrack DEF Dispatchers
<1>15. Polls'
  BY <1>8, <1>12, LoopStillPolls DEF OpenStates
<1>16. Apart'
  BY <1>12 DEF Apart, Submitting, Working
<1>17. Quiet'
  BY <1>4, <1>12 DEF Inductive, Quiet
<1> QED  BY <1>1, <1>9, <1>11, <1>13, <1>14, <1>15, <1>16, <1>17 DEF Inductive, Dispatchers

(* A poll acts on an item that still runs: nobody else resolves it.        *)
LEMMA PollItemKeeps ==
    ASSUME Inductive, NEW i \in Items, PollItem(i)
    PROVE  Inductive' /\ KeepsSettled
<1>0. "loop" \in Dispatchers /\ "submit" \in Dispatchers
  BY DEF Dispatchers
<1>1. Typed'
  BY PollItemTyped DEF Inductive
<1>2. /\ th["loop"] \in DispatchStates /\ th["loop"].pc = "items" /\ th["loop"].poll
      /\ i \in th["loop"].left
  BY <1>0, ThreadKinds DEF PollItem, At, Inductive, Typed
<1>3. th["loop"].snap[i] \in Rows /\ item[i] \in Rows
  BY <1>0, <1>2 DEF Inductive, Typed, Remembered, Remembers
<1>4. UNCHANGED <<batch, run, stopped>>
  BY DEF PollItem
<1>5. item' = item \/ (item[i].state = "Running" /\ Resolved(i))
  <2>1. th["loop"].snap[i].run => item[i].state = "Running"
    BY <1>2 DEF Inductive, Polls
  <2>2. Polled(i, th["loop"].snap[i]) /\ item[i].state = "Running" => Resolved(i)
    BY <1>3, PolledResolves DEF Inductive, Typed
  <2>3. FinishFailed(i, th["loop"].snap[i], "platform", 0) => Resolved(i)
    BY <1>3, FinishFailedResolves DEF Inductive, Typed
  <2> QED  BY <2>1, <2>2, <2>3 DEF PollItem
<1>6. Sound' /\ KeepsSettled
  <2>1. CASE item' = item
    BY <2>1, <1>4 DEF Inductive, Sound, Stored, Unstarted, SlotExclusive,
       CompletedMeansSettled, EveryTrialIsFollowed, KeepsSettled
  <2>2. CASE item[i].state = "Running" /\ Resolved(i)
    BY <2>2, <1>3, <1>4, ResolvedKeepsSound DEF Inductive, InFlight
  <2> QED  BY <1>5, <2>1, <2>2
<1>7. \A j \in Items : (item[j].state = "Running" /\ j = i) \/ item'[j] = item[j]
  BY <1>5 DEF Resolved, Writes, Inductive, Typed, StoreTyped, Tables
<1>8. /\ th'["loop"] = Drop("loop", i)
      /\ th'["submit"] = th["submit"] /\ th'["stop"] = th["stop"]
  BY DEF PollItem, Inductive, Typed, ThreadsTyped, Threads, Dispatchers
<1>9. /\ Drop("loop", i) \in DispatchStates
      /\ Drop("loop", i).pc = "items" /\ Drop("loop", i).poll
      /\ Drop("loop", i).snap = th["loop"].snap
      /\ Drop("loop", i).b = th["loop"].b /\ Drop("loop", i).todo = th["loop"].todo
      /\ Drop("loop", i).left = th["loop"].left \ {i}
  BY <1>2 DEF Drop, DispatchStates
<1>10. Tracks("loop")'
  <2>1. Known' = Known /\ Tracks("loop")
    BY <1>0, <1>4 DEF Known, Inductive
  <2> QED  BY <1>2, <1>8, <1>9, <2>1 DEF Tracks
<1>11. Polls'
  <2>1. th["loop"].left \subseteq Items
    BY <1>2 DEF DispatchStates
  <2>2. \A j \in th["loop"].left \ {i} : item'[j] = item[j]
    BY <1>7, <2>1
  <2> QED  BY <1>2, <1>8, <1>9, <2>2 DEF Inductive, Polls
<1>12. Tracks("submit")'
  <2>1. Submitting("submit") => item'[th["submit"].i].state = "Assigned"
    <3>1. Submitting("submit") => /\ th["submit"].i \in Items
                                  /\ item[th["submit"].i].state = "Assigned"
      BY <1>0 DEF Submitting, Inductive, Typed, Remembered, Remembers, Tracks
    <3> QED  BY <1>7, <3>1
  <2> QED  BY <1>0, <1>4, <1>6, <1>8, <2>1, OthersTrack
<1>13. Apart'
  BY <1>8, <1>9 DEF Apart, Submitting
<1>14. Quiet'
  BY <1>4, <1>8 DEF Inductive, Quiet
<1> QED  BY <1>1, <1>6, <1>10, <1>11, <1>12, <1>13, <1>14 DEF Inductive, Dispatchers

(* A claim sees the row and the slot as they are, in one transaction.      *)
LEMMA ClaimKeeps ==
    ASSUME Inductive, NEW t \in Dispatchers, NEW i \in Items, Claim(t, i)
    PROVE  Inductive' /\ KeepsSettled
<1> DEFINE o == [Drop(t, i) EXCEPT !.pc = "call", !.i = i]
<1>0. t \in Threads
  BY DEF Threads
<1>1. Typed'
  BY ClaimTyped DEF Inductive
<1>2. th[t] \in DispatchStates /\ th[t].pc = "items" /\ ~th[t].poll /\ i \in th[t].left
  BY ThreadKinds DEF Claim, At, Inductive, Typed
<1>3. UNCHANGED <<batch, run, stopped>> /\ Known' = Known
  BY DEF Claim, Known
<1>4. item[i] \in Rows /\ Tracks(t)
  BY <1>2 DEF Inductive, Typed, Remembered, Remembers
<1>5. /\ Drop(t, i) \in DispatchStates /\ Drop(t, i).pc = "items" /\ ~Drop(t, i).poll
      /\ Drop(t, i).b = th[t].b /\ Drop(t, i).todo = th[t].todo
  BY <1>2 DEF Drop, DispatchStates
<1>6. /\ o \in DispatchStates /\ o.pc = "call" /\ o.i = i /\ ~o.poll
      /\ o.b = th[t].b /\ o.todo = th[t].todo
  BY <1>5 DEF DispatchStates
<1>7. CASE ~Claimable(t, i)
  <2>1. item' = item /\ th' = [th EXCEPT ![t] = Drop(t, i)]
    BY <1>7 DEF Claim
  <2>2. th'[t] = Drop(t, i) /\ \A u \in Threads : u # t => th'[u] = th[u]
    BY <1>0, <2>1 DEF Inductive, Typed, ThreadsTyped
  <2>3. Tracks(t)'
    BY <1>2, <1>3, <1>4, <1>5, <2>2 DEF Tracks
  <2>4. Polls'
    <3>1. CASE t = "loop"
      BY <1>5, <2>2, <3>1 DEF Polls
    <3>2. CASE t # "loop"
      BY <2>1, <2>2, <3>2, LoopStillPolls DEF Threads, Dispatchers
    <3> QED  BY <3>1, <3>2
  <2>5. CompletedMeansSettled'
    BY <1>3, <2>1 DEF Inductive, Sound, CompletedMeansSettled
  <2> QED  BY <1>1, <1>3, <1>5, <2>1, <2>3, <2>4, <2>5, QuietStep
<1>8. CASE Claimable(t, i)
  <2> DEFINE row == [item[i] EXCEPT !.state = "Assigned", !.slot = pin[i]]
  <2>1. item[i].state = "Queued" /\ ~SlotBusy(pin[i])
    BY <1>8 DEF Claimable
  <2>2. Set(i, row) /\ th' = [th EXCEPT ![t] = o]
    BY <1>8 DEF Claim
  <2>3. row \in Rows /\ row.state = "Assigned" /\ row.slot = pin[i] /\ row.run = item[i].run
    BY <1>4 DEF Rows, OpenStates, Inductive, Typed, StoreTyped
  <2>4. item'[i] = row /\ \A j \in Items : j # i => item'[j] = item[j]
    BY <2>2 DEF Set, Inductive, Typed, StoreTyped, Tables
  <2> HIDE DEF row, o
  <2>5. KeepsSettled
    BY <2>1, <2>4 DEF KeepsSettled, Settled
  <2>6. Sound'
    <3>1. Stored'
      BY <1>3, <1>4, <2>3, <2>4 DEF Inductive, Sound, Stored
    <3>2. Unstarted'
      BY <2>1, <2>3, <2>4 DEF Inductive, Sound, Unstarted
    <3>4. SlotExclusive'
      <4>1. \A j \in Items : item[j].state \in InFlight => item[j].slot # pin[i]
        BY <2>1 DEF SlotBusy
      <4> QED  BY <2>3, <2>4, <4>1 DEF Inductive, Sound, SlotExclusive
    <3>5. CompletedMeansSettled'
      BY <1>3, <2>5 DEF Inductive, Sound, CompletedMeansSettled, KeepsSettled, ItemsOf
    <3>7. EveryTrialIsFollowed'
      BY <1>3, <2>3, <2>4 DEF Inductive, Sound, EveryTrialIsFollowed, OpenStates
    <3> QED  BY <3>1, <3>2, <3>4, <3>5, <3>7 DEF Sound
  <2>7. th'[t] = o /\ \A u \in Threads : u # t => th'[u] = th[u]
    BY <1>0, <2>2 DEF Inductive, Typed, ThreadsTyped
  <2>8. Tracks(t)'
    BY <1>2, <1>3, <1>4, <1>6, <2>3, <2>4, <2>7 DEF Tracks
  <2>9. ASSUME NEW u \in Dispatchers, Submitting(u)
        PROVE  /\ th[u].i \in Items /\ th[u].i # i
               /\ item'[th[u].i].state = "Assigned"
    <3>1. th[u].i \in Items /\ item[th[u].i].state = "Assigned"
      BY <2>9 DEF Submitting, Inductive, Typed, Remembered, Remembers, Tracks
    <3> QED  BY <3>1, <2>1, <2>4
  <2>10. \A u \in Dispatchers : Tracks(u)'
    <3> TAKE u \in Dispatchers
    <3>1. CASE u = t
      BY <3>1, <2>8
    <3>2. CASE u # t
      <4>1. th'[u] = th[u]
        BY <2>7, <3>2 DEF Threads
      <4> QED  BY <1>3, <2>5, <2>9, <4>1, OthersTrack
    <3> QED  BY <3>1, <3>2
  <2>11. Polls'
    <3>1. CASE t = "loop"
      BY <1>6, <2>7, <3>1 DEF Polls
    <3>2. CASE t # "loop"
      <4>1. th'["loop"] = th["loop"]
        BY <2>7, <3>2 DEF Threads, Dispatchers
      <4> QED  BY <2>1, <2>4, <4>1, LoopStillPolls
    <3> QED  BY <3>1, <3>2
  <2>12. Apart'
    <3>1. \A u \in Dispatchers : u # t /\ Submitting(u) => th'[u].i # th'[t].i
      BY <1>6, <2>7, <2>9 DEF Threads
    <3>2. \A u \in Dispatchers : u # t => th'[u] = th[u]
      BY <2>7 DEF Threads
    <3> QED  BY <3>1, <3>2 DEF Apart, Submitting, Dispatchers
  <2>13. Quiet'
    BY <1>3, <2>7 DEF Inductive, Quiet, Threads, Dispatchers
  <2> QED  BY <1>1, <2>5, <2>6, <2>10, <2>11, <2>12, <2>13 DEF Inductive
<1> QED  BY <1>7, <1>8

(* The answer to a reply is recorded for an item that is still assigned.   *)
LEMMA RecordReplyKeeps ==
    ASSUME Inductive, NEW t \in Dispatchers, RecordReply(t)
    PROVE  Inductive' /\ KeepsSettled
<1> DEFINE o == [th[t] EXCEPT !.pc = "items", !.i = None, !.ans = "none"]
           i == th[t].i
<1>0. t \in Threads
  BY DEF Threads
<1>1. Typed'
  BY RecordReplyTyped DEF Inductive
<1>2. th[t] \in DispatchStates /\ th[t].pc = "reply"
  BY ThreadKinds DEF RecordReply, At, Inductive, Typed
<1>3. UNCHANGED <<batch, run, stopped>> /\ Known' = Known
  BY DEF RecordReply, Known
<1>4. i \in Items /\ th[t].snap[i] \in Rows /\ item[i] \in Rows
  BY <1>2 DEF Inductive, Typed, Remembered, Remembers
<1>5. /\ item[i].state = "Assigned" /\ item[i].run = FALSE
      /\ ~(th[t].ans = "rejected" /\ run[i] = "live")
  BY <1>2, <1>4 DEF Inductive, Tracks, Sound, Unstarted
<1>6. Resolved(i)
  BY <1>4, <1>5, RecordedResolves DEF RecordReply, Inductive, Typed
<1>7. Sound' /\ KeepsSettled
  BY <1>3, <1>4, <1>5, <1>6, ResolvedKeepsSound DEF Inductive, InFlight
<1>8. \A j \in Items : j # i => item'[j] = item[j]
  BY <1>4, <1>6 DEF Resolved, Writes, Inductive, Typed, StoreTyped, Tables
<1>9. /\ o \in DispatchStates /\ o.pc = "items" /\ o.b = th[t].b /\ o.todo = th[t].todo
      /\ o.poll = th[t].poll /\ o.left = th[t].left /\ o.snap = th[t].snap
  BY <1>2 DEF DispatchStates
<1>10. th'[t] = o /\ \A u \in Threads : u # t => th'[u] = th[u]
  BY <1>0, <1>2 DEF RecordReply, Inductive, Typed, ThreadsTyped
<1> HIDE DEF o, i
<1>11. Tracks(t)'
  BY <1>2, <1>3, <1>9, <1>10 DEF Inductive, Tracks
<1>12. ASSUME NEW u \in Dispatchers, u # t, Submitting(u)
       PROVE  item'[th[u].i].state = "Assigned"
  <2>1. th[u].i \in Items /\ item[th[u].i].state = "Assigned"
    BY <1>12 DEF Submitting, Inductive, Typed, Remembered, Remembers, Tracks
  <2>2. th[u].i # i
    BY <1>2, <1>12 DEF Inductive, Apart, Submitting, Dispatchers, i
  <2> QED  BY <1>8, <2>1, <2>2
<1>13. \A u \in Dispatchers : Tracks(u)'
  <2> TAKE u \in Dispatchers
  <2>1. CASE u = t
    BY <2>1, <1>11
  <2>2. CASE u # t
    <3>1. th'[u] = th[u]
      BY <1>10, <2>2 DEF Threads
    <3> QED  BY <1>3, <1>7, <1>12, <2>2, <3>1, OthersTrack
  <2> QED  BY <2>1, <2>2
<1>14. Polls'
  <2>1. CASE t = "loop"
    <3>1. ~o.poll
      BY <1>2, <1>9 DEF Inductive, Tracks
    <3> QED  BY <1>10, <2>1, <3>1 DEF Polls
  <2>2. CASE t # "loop"
    <3>1. th'["loop"] = th["loop"]
      BY <1>10, <2>2 DEF Threads, Dispatchers
    <3>2. \A j \in Items : item[j].state = "Running" => item'[j].state = "Running"
      BY <1>5, <1>8
    <3> QED  BY <3>1, <3>2, LoopStillPolls
  <2> QED  BY <2>1, <2>2
<1>15. Apart'
  BY <1>9, <1>10 DEF Apart, Submitting, Dispatchers
<1>16. Quiet'
  BY <1>3, <1>10 DEF Inductive, Quiet, Threads, Dispatchers
<1> QED  BY <1>1, <1>7, <1>13, <1>14, <1>15, <1>16 DEF Inductive

(* The Controller starts a trial only for the item of the thread that asks.  *)
LEMMA CreateRunKeeps ==
    ASSUME Inductive, NEW t \in Dispatchers, CreateRun(t)
    PROVE  Inductive' /\ KeepsSettled
<1> DEFINE i == th[t].i
<1>0. t \in Threads
  BY DEF Threads
<1>1. Typed'
  BY CreateRunTyped DEF Inductive
<1>2. /\ th[t] \in DispatchStates /\ th[t].pc = "call" /\ i \in Items
      /\ UNCHANGED <<store, stopped, restarts>>
      /\ \/ run' = run
         \/ run[i] = "none" /\ run' = [run EXCEPT ![i] = "live"]
         \/ run[i] \in {"none", "refused"} /\ run' = [run EXCEPT ![i] = "refused"]
  BY CreateRunEffect DEF Inductive
<1>3. UNCHANGED <<item, batch, stopped>> /\ Known' = Known
  BY <1>2 DEF Known
<1>4. PICK a \in Answers :
         /\ th' = [th EXCEPT ![t] = [th[t] EXCEPT !.pc = "reply", !.ans = a]]
         /\ a = "rejected" => run'[i] \in {"none", "refused"}
  BY CreateRunEffect DEF Inductive
<1> DEFINE o == [th[t] EXCEPT !.pc = "reply", !.ans = a]
<1>5. /\ o \in DispatchStates /\ o.pc = "reply" /\ o.i = i /\ o.ans = a /\ o.b = th[t].b
      /\ o.todo = th[t].todo /\ o.poll = th[t].poll
  BY <1>2 DEF DispatchStates
<1>6. th'[t] = o /\ \A u \in Threads : u # t => th'[u] = th[u]
  BY <1>0, <1>4 DEF Inductive, Typed, ThreadsTyped
<1>7. item[i].state = "Assigned" /\ Tracks(t)
  BY <1>2 DEF Inductive, Tracks
<1>8. \A j \in Items : /\ j # i => run'[j] = run[j]
                       /\ \/ run'[i] = run[i]
                          \/ run[i] = "none" /\ run'[i] = "live"
                          \/ run'[i] = "refused"
  BY <1>2 DEF Inductive, Typed, RestTyped
<1> HIDE DEF o, i
<1>9. KeepsSettled
  BY <1>3 DEF KeepsSettled
<1>10. Sound'
  <2>1. Stored' /\ Unstarted' /\ SlotExclusive' /\ CompletedMeansSettled'
    BY <1>3 DEF Inductive, Sound, Stored, Unstarted, SlotExclusive, CompletedMeansSettled
  <2>4. EveryTrialIsFollowed'
    BY <1>3, <1>7, <1>8 DEF Inductive, Sound, EveryTrialIsFollowed, OpenStates
  <2> QED  BY <2>1, <2>4 DEF Sound
<1>11. a = "rejected" => run'[i] # "live"
  BY <1>4
<1>12. Tracks(t)'
  BY <1>2, <1>3, <1>5, <1>6, <1>7, <1>11 DEF Tracks
<1>13. ASSUME NEW u \in Dispatchers, u # t, Submitting(u)
       PROVE  /\ th[u].i # i /\ item'[th[u].i].state = "Assigned"
              /\ run'[th[u].i] = run[th[u].i]
  <2>1. th[u].i \in Items /\ item[th[u].i].state = "Assigned"
    BY <1>13 DEF Submitting, Inductive, Typed, Remembered, Remembers, Tracks
  <2>2. th[u].i # i
    BY <1>2, <1>13 DEF Inductive, Apart, Submitting, Dispatchers, i
  <2> QED  BY <1>3, <1>8, <2>1, <2>2
<1>14. \A u \in Dispatchers : Tracks(u)'
  <2> TAKE u \in Dispatchers
  <2>1. CASE u = t
    BY <2>1, <1>12
  <2>2. CASE u # t
    <3>1. th'[u] = th[u]
      BY <1>6, <2>2 DEF Threads
    <3> QED  BY <1>3, <1>9, <1>13, <2>2, <3>1, OthersTrack
  <2> QED  BY <2>1, <2>2
<1>15. Polls'
  <2>1. CASE t = "loop"
    BY <1>5, <1>6, <2>1 DEF Polls
  <2>2. CASE t # "loop"
    BY <1>3, <1>6, <2>2, LoopStillPolls DEF Threads, Dispatchers
  <2> QED  BY <2>1, <2>2
<1>16. Apart'
  <2>1. \A u \in Dispatchers : u # t => th'[u] = th[u]
    BY <1>6 DEF Threads
  <2>2. \A u \in Dispatchers : u # t /\ Submitting(u) => th'[u].i # th'[t].i
    BY <1>5, <1>6, <1>13, <2>1
  <2> QED  BY <2>1, <2>2 DEF Apart, Submitting, Dispatchers
<1>17. Quiet'
  BY <1>3, <1>6 DEF Inductive, Quiet, Threads, Dispatchers
<1> QED  BY <1>1, <1>9, <1>10, <1>14, <1>15, <1>16, <1>17 DEF Inductive

(* Slots and trials that end do not touch what the dispatchers rely on.     *)
LEMMA OutsideKeeps ==
    ASSUME Inductive,
           \/ \E s \in Slots : RefreshRead(s) \/ Drain(s)
           \/ RefreshWrite
           \/ \E i \in Items : RunEnds(i)
    PROVE  Inductive' /\ KeepsSettled
<1>1. /\ Typed' /\ UNCHANGED <<item, batch, pin, stopped>>
      /\ \A t \in Dispatchers \cup {"stop"} : th'[t] = th[t]
  BY OutsideTyped DEF Inductive
<1>2. \A i \in Items : run'[i] = run[i] \/ (run[i] = "live" /\ run'[i] \in Outcomes)
  BY DEF RefreshRead, Drain, RefreshWrite, RunEnds, Inductive, Typed, RestTyped
<1>3. KeepsSettled
  BY <1>1 DEF KeepsSettled
<1>4. Sound'
  <2>1. Stored' /\ Unstarted' /\ SlotExclusive' /\ CompletedMeansSettled'
    BY <1>1 DEF Inductive, Sound, Stored, Unstarted, SlotExclusive, CompletedMeansSettled
  <2>4. EveryTrialIsFollowed'
    BY <1>1, <1>2 DEF Inductive, Sound, EveryTrialIsFollowed, Outcomes
  <2> QED  BY <2>1, <2>4 DEF Sound
<1>5. \A u \in Dispatchers : Tracks(u)'
  <2> TAKE u \in Dispatchers
  <2>1. Submitting(u) => /\ item'[th[u].i].state = "Assigned"
                         /\ run[th[u].i] # "live" => run'[th[u].i] # "live"
    <3>1. Submitting(u) => th[u].i \in Items /\ item[th[u].i].state = "Assigned"
      BY DEF Submitting, Inductive, Typed, Remembered, Remembers, Tracks
    <3> QED  BY <1>1, <1>2, <3>1
  <2> QED  BY <1>1, <1>3, <2>1, OthersTrack
<1>6. Polls' /\ Apart' /\ Quiet'
  BY <1>1 DEF Inductive, Polls, Apart, Submitting, Quiet, Dispatchers
<1> QED  BY <1>1, <1>3, <1>4, <1>5, <1>6 DEF Inductive

(* A restart forgets the threads; the store was sound without them.         *)
LEMMA RestartKeeps ==
    ASSUME Inductive, Restart
    PROVE  Inductive' /\ KeepsSettled
<1>1. Typed'
  BY RestartTyped DEF Inductive
<1>2. UNCHANGED <<item, batch, run>> /\ stopped' = {} /\ \A t \in Threads : th'[t] = Idle
  BY DEF Restart
<1>3. KeepsSettled
  BY <1>2 DEF KeepsSettled
<1>4. Sound'
  BY <1>2 DEF Inductive, Sound, Stored, Unstarted, SlotExclusive,
     CompletedMeansSettled, EveryTrialIsFollowed
<1>5. (\A u \in Dispatchers : Tracks(u)') /\ Polls' /\ Apart' /\ Quiet'
  BY <1>2, IdleIsNoState DEF Tracks, Polls, Apart, Submitting, Quiet, Dispatchers, Threads
<1> QED  BY <1>1, <1>3, <1>4, <1>5 DEF Inductive

LEMMA InitInductive == Init => Inductive
<1> SUFFICES ASSUME Init PROVE Inductive
  OBVIOUS
<1>1. Typed
  BY InitTyped
<1>2. \A i \in Items : item[i] = NoRow /\ item[i] \notin Rows /\ run[i] = "none"
  BY DEF Init, NoRows, NoRow, Rows, OpenStates, Settled
<1>3. \A b \in Batches : batch[b] = "none"
  BY DEF Init
<1>4. Sound
  BY <1>2, <1>3 DEF Sound, Stored, Unstarted, SlotExclusive, CompletedMeansSettled,
     EveryTrialIsFollowed, NoRow, InFlight
<1>5. \A t \in Threads : th[t] = Idle
  BY DEF Init
<1>6. (\A u \in Dispatchers : Tracks(u)) /\ Polls /\ Apart /\ Quiet
  BY <1>5, IdleIsNoState DEF Init, Tracks, Polls, Apart, Submitting, Quiet, Dispatchers, Threads
<1> QED  BY <1>1, <1>4, <1>6 DEF Inductive

LEMMA NextKeeps ==
    ASSUME CanStop = {}, Inductive, [Next]_vars
    PROVE  Inductive' /\ KeepsSettled
<1>1. CASE UNCHANGED vars
  <2>1. UNCHANGED <<item, batch, phase, pin, stopped, run, th, faults, restarts>>
    BY <1>1 DEF vars
  <2>2. Typed'
    BY <1>1, NextTyped DEF Inductive
  <2>3. Sound' /\ KeepsSettled
    BY <2>1 DEF Inductive, Sound, Stored, Unstarted, SlotExclusive,
       CompletedMeansSettled, EveryTrialIsFollowed, KeepsSettled
  <2>4. Quiet' /\ Apart' /\ Polls' /\ \A t \in Dispatchers : Tracks(t)'
    BY <2>1 DEF Inductive, Quiet, Apart, Polls, Tracks, Submitting, Known
  <2> QED  BY <2>2, <2>3, <2>4 DEF Inductive
<1>2. ASSUME NEW b \in Batches, Submit(b) \/ StopBegin(b)
      PROVE  Inductive' /\ KeepsSettled
  BY <1>2, SubmitKeeps DEF StopBegin
<1>3. ASSUME NEW t \in Dispatchers, DispatchStep(t)
      PROVE  Inductive' /\ KeepsSettled
  BY <1>3, PassEndsKeeps, NextBatchKeeps, ClaimKeeps, CreateRunKeeps, RecordReplyKeeps,
     RefreshBatchKeeps, WriteBatchKeeps DEF DispatchStep
<1>4. ~StopStep
  BY DEF StopStep, StopRead, StopItem, StopEnd, At, Inductive, Quiet
<1> QED
  BY <1>1, <1>2, <1>3, <1>4, TickKeeps, PollItemKeeps, OutsideKeeps, RestartKeeps DEF Next

LEMMA InductiveHolds ==
    ASSUME CanStop = {}
    PROVE  Spec => []Inductive
BY InitInductive, NextKeeps, PTL DEF Spec
----------------------------------------------------------------------------
(***************************************************************************)
(* Whom a failure is blamed on                                             *)
(***************************************************************************)

(* The Controller has started a trial for the item.                        *)
Ran(i) == run[i] \in Outcomes \cup {"live"}

(* An item in flight is on the slot it was planned onto.                   *)
Planned == \A i \in Items : item[i].state \in InFlight => item[i].slot = pin[i]
(* The Controllers know stored items only.                                 *)
Asked == \A i \in Items : run[i] # "none" => item[i] \in Rows
(* An item that is queued although its trial ran has used up a retry.      *)
Requeued == \A i \in Items : item[i].state = "Queued" /\ Ran(i) => item[i].retries > 0

(* What an answer says still holds when it is recorded.                    *)
Heard(t) ==
    th[t] \in DispatchStates /\ th[t].pc = "reply" =>
        /\ th[t].ans \in {"notready", "upstream"} => ~Ran(th[t].i)
        /\ th[t].ans = "rejected" => run[th[t].i] = "refused" \/ SlotLost(th[t].i)

Blame ==
    /\ Planned /\ Asked /\ Requeued /\ AgentBlamedFairly
    /\ \A t \in Dispatchers : Heard(t)

(* What no step makes of a row: a retry is not forgotten, a slot is the    *)
(* planned one, and a queued or blamed item has a reason to be so.         *)
KeepsRow(i) ==
    /\ item[i] \in Rows => /\ item'[i] \in Rows
                           /\ item[i].retries > 0 => item'[i].retries > 0
    /\ item'[i].state \in InFlight =>
          /\ item[i] \in Rows
          /\ \/ item[i].state \in InFlight /\ item'[i].slot = item[i].slot
             \/ item'[i].slot = pin[i]
    /\ item'[i].state = "Queued" => \/ item[i].state = "Queued" /\ item'[i] = item[i]
                                    \/ item'[i].retries > 0
                                    \/ ~Ran(i) /\ run'[i] = run[i]
    /\ item'[i].state \in {"Failed", "Invalid"} /\ item'[i].owner = "agent" =>
          /\ item[i] \in Rows
          /\ \/ item[i].state = item'[i].state /\ item[i].owner = "agent"
             \/ run[i] \in {"agent", "recovery", "refused"}
             \/ SlotLost(i)

(* What no step makes of a trial.                                          *)
KeepsRun(i) ==
    \/ run'[i] = run[i]
    \/ run[i] = "live" /\ run'[i] \in Outcomes
    \/ /\ run[i] \in {"none", "refused"} /\ run'[i] \in {"live", "refused"}
       /\ run[i] = "refused" => run'[i] = "refused"
       /\ item[i].state = "Assigned" /\ item'[i] = item[i]

KeepsPlan(i) == item[i] \in Rows => pin'[i] = pin[i]

(* A slot that is lost to another trial stays lost.                        *)
LEMMA LostStays ==
    ASSUME Inductive, Blame, KeepsSettled, NEW i \in Items, item[i] \in Rows, SlotLost(i),
           \A j \in Items : KeepsRow(j) /\ KeepsRun(j) /\ KeepsPlan(j)
    PROVE  SlotLost(i)'
<1>1. PICK j \in Items \ {i} :
         /\ pin[j] = pin[i]
         /\ run[j] = "recovery" \/ (Ran(j) /\ LetGo(j))
  BY DEF SlotLost, Ran
<1>2. item[j] \in Rows
  BY <1>1 DEF Blame, Asked, Ran, Outcomes
<1>3. pin'[j] = pin'[i]
  BY <1>1, <1>2 DEF KeepsPlan
<1>4. run[j] = "recovery" => run'[j] = "recovery"
  BY <1>1 DEF KeepsRun
<1>5. Ran(j) => run'[j] \in Outcomes \cup {"live"}
  BY <1>1 DEF KeepsRun, Ran, Outcomes
<1>6. LetGo(j) => LetGo(j)'
  BY <1>1, <1>2 DEF LetGo, KeepsRow, KeepsSettled, Settled
<1> QED  BY <1>1, <1>3, <1>4, <1>5, <1>6 DEF SlotLost

(* So rows and trials that change as they may leave the blame fair.        *)
LEMMA BlameStays ==
    ASSUME Inductive, Blame, KeepsSettled,
           \A j \in Items : KeepsRow(j) /\ KeepsRun(j) /\ KeepsPlan(j)
    PROVE  Planned' /\ Asked' /\ Requeued' /\ AgentBlamedFairly'
<1>1. Planned'
  BY DEF Planned, KeepsRow, KeepsPlan, Blame
<1>2. Asked'
  <2>1. \A j \in Items : item[j].state = "Assigned" => item[j] \in Rows
    BY DEF Inductive, Typed, StoreTyped, Tables, NoRow
  <2> QED  BY <2>1 DEF Asked, KeepsRow, KeepsRun, Blame
<1>3. Requeued'
  <2> SUFFICES ASSUME NEW j \in Items, item'[j].state = "Queued", Ran(j)'
               PROVE  item'[j].retries > 0
    BY DEF Requeued
  <2>1. CASE item[j].state = "Queued" /\ item'[j] = item[j]
    <3>1. Ran(j)
      BY <2>1 DEF KeepsRun, Ran
    <3> QED  BY <2>1, <3>1 DEF Blame, Requeued
  <2>2. CASE ~Ran(j) /\ run'[j] = run[j]
    BY <2>2 DEF Ran
  <2> QED  BY <2>1, <2>2 DEF KeepsRow
<1>4. AgentBlamedFairly'
  <2> SUFFICES ASSUME NEW j \in Items, item'[j].state \in {"Failed", "Invalid"},
                      item'[j].owner = "agent"
               PROVE  run'[j] \in {"agent", "recovery", "refused"} \/ SlotLost(j)'
    BY DEF AgentBlamedFairly
  <2>1. run[j] \in {"agent", "recovery", "refused"} \/ SlotLost(j)
    BY DEF KeepsRow, Blame, AgentBlamedFairly
  <2>2. CASE run[j] \in {"agent", "recovery", "refused"}
    BY <2>2 DEF KeepsRun
  <2>3. item[j] \in Rows
    BY DEF KeepsRow
  <2> QED  BY <2>1, <2>2, <2>3, LostStays
<1> QED  BY <1>1, <1>2, <1>3, <1>4

Kept == KeepsSettled /\ \A j \in Items : KeepsRow(j) /\ KeepsRun(j) /\ KeepsPlan(j)

LEMMA BlameKept ==
    ASSUME Inductive, Blame, Kept, \A t \in Dispatchers : Heard(t)'
    PROVE  Blame'
BY BlameStays DEF Blame, Kept

(* Only stored rows have a state.                                          *)
LEMMA StoredRows ==
    ASSUME Typed, NEW j \in Items, item[j].state \in OpenStates \cup InFlight \cup Settled
    PROVE  item[j] \in Rows
BY DEF Typed, StoreTyped, Tables, NoRow, OpenStates, InFlight, Settled

(* A thread that did not move still may trust the answer it was given.     *)
LEMMA HeardStays ==
    ASSUME Inductive, Blame, Kept, NEW t \in Dispatchers, th'[t] = th[t],
           Submitting(t) => \/ run'[th[t].i] = run[th[t].i]
                            \/ run[th[t].i] = "live" /\ Ran(th[t].i)'
    PROVE  Heard(t)'
<1> SUFFICES ASSUME th[t] \in DispatchStates, th[t].pc = "reply"
             PROVE  Heard(t)'
  BY DEF Heard
<1>1. Submitting(t) /\ Heard(t)
  BY DEF Submitting, Blame
<1>2. th[t].i \in Items /\ item[th[t].i] \in Rows
  BY <1>1 DEF Submitting, Inductive, Typed, Remembered, Remembers
<1>3. th[t].ans \in {"notready", "upstream"} => ~Ran(th[t].i)'
  BY <1>1 DEF Heard, Ran
<1>4. th[t].ans = "rejected" => (run[th[t].i] = "refused" \/ SlotLost(th[t].i))'
  <2>1. CASE SlotLost(th[t].i)
    BY <1>2, <2>1, LostStays DEF Kept
  <2>2. CASE run[th[t].i] = "refused"
    BY <1>1, <2>2
  <2> QED  BY <1>1, <2>1, <2>2 DEF Heard
<1> QED  BY <1>3, <1>4 DEF Heard

(* A step that leaves the rows and the trials alone and reads no answer.   *)
LEMMA AsideKept ==
    ASSUME Inductive, UNCHANGED <<item, run, pin>>
    PROVE  Kept
<1>1. \A j \in Items : item[j].state \in InFlight \cup Settled => item[j] \in Rows
  BY StoredRows DEF Inductive
<1>2. \A j \in Items : KeepsRow(j)
  BY <1>1 DEF KeepsRow, Settled
<1> QED  BY <1>2 DEF Kept, KeepsSettled, KeepsRun, KeepsPlan

LEMMA AsideBlames ==
    ASSUME Inductive, Blame, UNCHANGED <<item, run, pin>>,
           \A t \in Dispatchers : th'[t] = th[t] \/ ~(th'[t] \in DispatchStates /\ th'[t].pc = "reply")
    PROVE  Blame'
<1>1. Kept
  BY AsideKept
<1>2. ASSUME NEW t \in Dispatchers
      PROVE  Heard(t)'
  <2>1. CASE th'[t] = th[t]
    BY <1>1, <2>1, HeardStays
  <2>2. CASE ~(th'[t] \in DispatchStates /\ th'[t].pc = "reply")
    BY <2>2 DEF Heard
  <2> QED  BY <2>1, <2>2
<1> QED  BY <1>1, <1>2, BlameKept

(* The steps that neither write a row nor ask a Controller.                *)
LEMMA PassesBlame ==
    ASSUME Inductive, Blame, NEW t \in Dispatchers,
           \/ t = "loop" /\ Tick
           \/ PassEnds(t) \/ (\E b \in Batches : NextBatch(t, b))
           \/ RefreshBatch(t) \/ WriteBatch(t)
    PROVE  Blame'
<1>0. t \in Threads /\ ThreadsTyped
  BY DEF Threads, Inductive, Typed
<1>1. UNCHANGED <<item, run, pin>>
  BY DEF Tick, PassEnds, NextBatch, RefreshBatch, WriteBatch
<1>2. \A u \in Dispatchers : u # t => th'[u] = th[u]
  BY <1>0 DEF ThreadsTyped, Threads, Tick, PassEnds, NextBatch, RefreshBatch, WriteBatch
<1>3. ~(th'[t] \in DispatchStates /\ th'[t].pc = "reply")
  <2>1. CASE Tick /\ t = "loop"
    BY <1>0, <2>1 DEF Tick, ThreadsTyped, Working
  <2>2. CASE PassEnds(t)
    BY <1>0, <2>2, IdleIsNoState DEF PassEnds, ThreadsTyped, Working
  <2>3. CASE WriteBatch(t)
    BY <1>0, <2>3 DEF WriteBatch, ThreadsTyped, Working
  <2>4. CASE RefreshBatch(t)
    <3>1. th[t] \in DispatchStates
      BY <1>0, <2>4, ThreadKinds DEF RefreshBatch, At
    <3> QED  BY <1>0, <2>4, <3>1 DEF RefreshBatch, ThreadsTyped, DispatchStates
  <2>5. ASSUME NEW b \in Batches, NextBatch(t, b)
        PROVE  th'[t].pc # "reply"
    <3>1. th[t] \in DispatchStates /\ th[t].pc = "batch"
      BY <1>0, <2>5, ThreadKinds DEF NextBatch
    <3> DEFINE o == [th[t] EXCEPT !.todo = @ \ {b}]
               ids == IdsIn(b, IF o.poll THEN InFlight ELSE {"Queued"})
               n == [o EXCEPT !.pc = "items", !.b = b, !.snap = Read(ids), !.left = ids,
                              !.ready = {s \in Slots : phase[s] = "Ready"}]
    <3>2. o.pc = "batch" /\ n.pc = "items"
      BY <3>1 DEF DispatchStates
    <3>3. th'[t] = o \/ th'[t] = n
      BY <1>0, <2>5 DEF NextBatch, ThreadsTyped
    <3> QED  BY <3>2, <3>3
  <2> QED  BY <2>1, <2>2, <2>3, <2>4, <2>5
<1> QED  BY <1>1, <1>2, <1>3, AsideBlames

LEMMA OutsideBlames ==
    ASSUME Inductive, Blame,
           \/ \E s \in Slots : RefreshRead(s) \/ Drain(s)
           \/ RefreshWrite
           \/ \E i \in Items : RunEnds(i)
    PROVE  Blame'
<1>1. UNCHANGED <<item, pin>> /\ \A t \in Dispatchers : th'[t] = th[t]
  BY OutsideTyped DEF Inductive
<1>2. \A j \in Items : run'[j] = run[j] \/ (run[j] = "live" /\ run'[j] \in Outcomes)
  BY DEF RefreshRead, Drain, RefreshWrite, RunEnds, Inductive, Typed, RestTyped
<1>3. Kept
  <2>1. \A j \in Items : item[j].state \in InFlight \cup Settled => item[j] \in Rows
    BY StoredRows DEF Inductive
  <2>2. \A j \in Items : KeepsRow(j)
    BY <1>1, <2>1 DEF KeepsRow, Settled
  <2> QED  BY <1>1, <1>2, <2>2 DEF Kept, KeepsSettled, KeepsRun, KeepsPlan
<1>4. ASSUME NEW t \in Dispatchers
      PROVE  Heard(t)'
  <2>1. Submitting(t) => th[t].i \in Items
    BY DEF Submitting, Inductive, Typed, Remembered, Remembers
  <2> QED  BY <1>1, <1>2, <1>3, <2>1, HeardStays DEF Ran
<1> QED  BY <1>3, <1>4, BlameKept

(* A new batch has no trials, and its items are on no slot.                *)
LEMMA SubmitBlames ==
    ASSUME Inductive, Blame, NEW b \in Batches, Submit(b)
    PROVE  Blame'
<1>1. PICK f \in Plans(b) :
         /\ item' = [i \in Items |-> IF i \in DOMAIN f THEN NewRow ELSE item[i]]
         /\ pin' = [i \in Items |-> IF i \in DOMAIN f THEN f[i] ELSE pin[i]]
  BY DEF Submit
<1>2. DOMAIN f = ItemsOf(b) /\ batch[b] = "none" /\ run' = run
  BY DEF Plans, Submit
<1>3. \A j \in Items : item[j] \in Rows => j \notin DOMAIN f
  BY <1>2 DEF ItemsOf, Inductive, Sound, Stored
<1>4. NewRow \in Rows /\ NewRow.state = "Queued"
  BY DEF NewRow, Rows, OpenStates
<1>5. Kept
  <2>1. \A j \in Items : item[j].state \in InFlight \cup Settled => item[j] \in Rows
    BY StoredRows DEF Inductive
  <2>2. \A j \in Items : item[j] \in Rows => item'[j] = item[j] /\ pin'[j] = pin[j]
    BY <1>1, <1>3
  <2>3. \A j \in Items : item'[j] = item[j] \/ (item[j] \notin Rows /\ item'[j] = NewRow)
    BY <1>1, <1>3
  <2>4. \A j \in Items : item[j] \notin Rows => ~Ran(j)
    BY DEF Blame, Asked, Ran, Outcomes
  <2>5. ASSUME NEW j \in Items
        PROVE  KeepsRow(j)
    <3>1. CASE item'[j] = item[j]
      BY <2>1, <3>1 DEF KeepsRow, Settled
    <3>2. CASE item[j] \notin Rows /\ item'[j] = NewRow
      BY <1>2, <1>4, <2>4, <3>2 DEF KeepsRow, InFlight
    <3> QED  BY <2>3, <3>1, <3>2
  <2> QED  BY <1>2, <2>1, <2>2, <2>5 DEF Kept, KeepsSettled, KeepsRun, KeepsPlan
<1>6. th'["loop"] = th["loop"] /\ th'["submit"] = Working(TRUE, {})
  BY DEF Submit, Inductive, Typed, ThreadsTyped, Threads, Dispatchers
<1>7. \A t \in Dispatchers : Heard(t)'
  <2>1. Heard("loop")'
    BY <1>2, <1>5, <1>6, HeardStays DEF Dispatchers
  <2>2. Heard("submit")'
    BY <1>6 DEF Heard, Working
  <2> QED  BY <2>1, <2>2 DEF Dispatchers
<1> QED  BY <1>5, <1>7, BlameKept

(* A step that writes one row.                                             *)
LEMMA OneRowKept ==
    ASSUME Inductive, KeepsSettled, NEW i \in Items, KeepsRow(i), UNCHANGED <<run, pin>>,
           \A j \in Items : j # i => item'[j] = item[j]
    PROVE  Kept
<1>1. \A j \in Items : item[j].state \in InFlight \cup Settled => item[j] \in Rows
  BY StoredRows DEF Inductive
<1>2. \A j \in Items : KeepsRow(j)
  BY <1>1 DEF KeepsRow, Settled
<1> QED  BY <1>2 DEF Kept, KeepsRun, KeepsPlan

(* A failed item is requeued for a retry, or blamed on whom the trial says. *)
LEMMA FinishFailedKeepsRow ==
    ASSUME StoreTyped, NEW i \in Items, item[i] \in Rows, NEW r \in Rows, NEW d \in Nat,
           NEW owner \in {"platform", "agent"}, FinishFailed(i, r, owner, d),
           owner = "agent" => run[i] \in {"agent", "recovery"}
    PROVE  KeepsRow(i)
<1> DEFINE Again == [item[i] EXCEPT !.state = "Queued", !.slot = None, !.run = FALSE,
                                    !.retries = r.retries + 1, !.defer = d,
                                    !.stop = FALSE, !.owner = owner]
           Over  == [item[i] EXCEPT !.state = "Failed", !.defer = d, !.stop = FALSE,
                                    !.owner = owner]
<1>0. r.retries + 1 \in Nat /\ r.retries + 1 > 0
  BY DEF Rows
<1>1. Again \in Rows /\ Again.state = "Queued" /\ Again.retries > 0
  BY <1>0 DEF Rows, OpenStates
<1>2. Over \in Rows /\ Over.state = "Failed" /\ Over.owner = owner
      /\ Over.retries = item[i].retries
  BY DEF Rows, Settled
<1>3. CASE Set(i, Again)
  <2>1. item'[i] = Again
    BY <1>1, <1>3, SetWrites
  <2> HIDE DEF Again
  <2> QED  BY <2>1, <1>1 DEF KeepsRow, InFlight
<1>4. CASE Set(i, Over)
  <2>1. item'[i] = Over
    BY <1>2, <1>4, SetWrites
  <2> HIDE DEF Over
  <2> QED  BY <2>1, <1>2 DEF KeepsRow, InFlight
<1> QED  BY <1>3, <1>4 DEF FinishFailed

LEMMA PolledKeepsRow ==
    ASSUME StoreTyped, NEW i \in Items, item[i] \in Rows, item[i].state = "Running",
           NEW r \in Rows, Polled(i, r)
    PROVE  KeepsRow(i)
<1> DEFINE Going == [item[i] EXCEPT !.state = IF r.state = "Running" THEN @ ELSE "Running"]
           Stopped == [item[i] EXCEPT !.state = "Invalid", !.stop = FALSE, !.defer = 0,
                                      !.owner = "operator"]
           Done == [item[i] EXCEPT !.state = "Done", !.stop = FALSE, !.defer = 0,
                                   !.owner = "none"]
<1>1. /\ Going \in Rows /\ Going.slot = item[i].slot /\ Going.state = "Running"
      /\ Going.retries = item[i].retries
  BY DEF Rows, OpenStates
<1>2. /\ Stopped \in Rows /\ Stopped.state = "Invalid" /\ Stopped.owner = "operator"
      /\ Stopped.retries = item[i].retries
  BY DEF Rows, Settled
<1>3. Done \in Rows /\ Done.state = "Done" /\ Done.retries = item[i].retries
  BY DEF Rows, Settled
<1>4. CASE Set(i, Going)
  <2>1. item'[i] = Going
    BY <1>1, <1>4, SetWrites
  <2> HIDE DEF Going
  <2> QED  BY <2>1, <1>1 DEF KeepsRow, InFlight
<1>5. CASE Set(i, Stopped)
  <2>1. item'[i] = Stopped
    BY <1>2, <1>5, SetWrites
  <2> HIDE DEF Stopped
  <2> QED  BY <2>1, <1>2 DEF KeepsRow, InFlight
<1>6. CASE Set(i, Done)
  <2>1. item'[i] = Done
    BY <1>3, <1>6, SetWrites
  <2> HIDE DEF Done
  <2> QED  BY <2>1, <1>3 DEF KeepsRow, InFlight
<1>7. CASE run[i] \in {"platform", "agent"} /\ FinishFailed(i, r, run[i], 0)
  BY <1>7, FinishFailedKeepsRow
<1>8. CASE /\ run[i] = "recovery"
           /\ \E owner \in {"platform", "agent"} : FinishFailed(i, r, owner, 0)
  BY <1>8, FinishFailedKeepsRow
<1> QED  BY <1>4, <1>5, <1>6, <1>7, <1>8 DEF Polled

(* An answer is recorded as one that still holds.                          *)
LEMMA RecordedKeepsRow ==
    ASSUME StoreTyped, NEW i \in Items, item[i] \in Rows, item[i].state = "Assigned",
           NEW r \in Rows, NEW a, Recorded(i, r, a), run' = run,
           a \in {"notready", "upstream"} => ~Ran(i),
           a = "rejected" => run[i] = "refused" \/ SlotLost(i)
    PROVE  KeepsRow(i)
<1> DEFINE Again(n) == [item[i] EXCEPT !.state = "Queued", !.slot = None, !.defer = n,
                                       !.stop = FALSE, !.owner = "none"]
           Refused == [item[i] EXCEPT !.state = "Invalid", !.defer = 0, !.stop = FALSE,
                                      !.owner = "agent"]
           Started == [item[i] EXCEPT !.state = "Running", !.run = TRUE, !.defer = 0,
                                      !.stop = FALSE, !.owner = "none"]
<1>0. r.defer + 1 \in Nat
  BY DEF Rows
<1>1. ASSUME NEW n \in Nat
      PROVE  /\ Again(n) \in Rows /\ Again(n).state = "Queued"
             /\ Again(n).retries = item[i].retries
  BY DEF Rows, OpenStates
<1>2. Refused \in Rows /\ Refused.state = "Invalid" /\ Refused.retries = item[i].retries
  BY DEF Rows, Settled
<1>3. /\ Started \in Rows /\ Started.state = "Running" /\ Started.slot = item[i].slot
      /\ Started.retries = item[i].retries
  BY DEF Rows, OpenStates
<1>4. ASSUME NEW n \in Nat, a \in {"notready", "upstream"}, Set(i, Again(n))
      PROVE  KeepsRow(i)
  <2>1. item'[i] = Again(n)
    BY <1>1, <1>4, SetWrites
  <2>2. /\ Again(n) \in Rows /\ Again(n).state = "Queued"
        /\ Again(n).retries = item[i].retries
    BY <1>1
  <2> HIDE DEF Again
  <2> QED  BY <1>4, <2>1, <2>2 DEF KeepsRow, InFlight
<1>5. CASE a = "rejected" /\ Set(i, Refused)
  <2>1. item'[i] = Refused
    BY <1>2, <1>5, SetWrites
  <2> HIDE DEF Refused
  <2> QED  BY <2>1, <1>2, <1>5 DEF KeepsRow, InFlight
<1>6. CASE Set(i, Started)
  <2>1. item'[i] = Started
    BY <1>3, <1>6, SetWrites
  <2> HIDE DEF Started
  <2> QED  BY <2>1, <1>3 DEF KeepsRow, InFlight
<1>7. CASE FinishFailed(i, r, "platform", r.defer + 1) \/ FinishFailed(i, r, "platform", 0)
  BY <1>0, <1>7, FinishFailedKeepsRow
<1> QED  BY <1>0, <1>4, <1>5, <1>6, <1>7 DEF Recorded

LEMMA PollItemBlames ==
    ASSUME Inductive, Blame, NEW i \in Items, PollItem(i)
    PROVE  Blame'
<1>0. "loop" \in Dispatchers /\ "submit" \in Dispatchers
  BY DEF Dispatchers
<1>1. /\ th["loop"] \in DispatchStates /\ th["loop"].pc = "items" /\ th["loop"].poll
      /\ i \in th["loop"].left
  BY <1>0, ThreadKinds DEF PollItem, At, Inductive, Typed
<1>2. th["loop"].snap[i] \in Rows /\ item[i] \in Rows /\ StoreTyped
  BY <1>0, <1>1 DEF Inductive, Typed, Remembered, Remembers
<1>3. KeepsSettled
  BY PollItemKeeps
<1>4. th["loop"].snap[i].run => item[i].state = "Running"
  BY <1>1 DEF Inductive, Polls
<1>5. UNCHANGED <<run, pin>>
  BY DEF PollItem
<1>6. ASSUME item' = item
      PROVE  Kept
  BY <1>5, <1>6, AsideKept
<1>7. ASSUME \/ item[i].state = "Running" /\ Polled(i, th["loop"].snap[i])
             \/ FinishFailed(i, th["loop"].snap[i], "platform", 0)
      PROVE  Kept
  <2>1. KeepsRow(i)
    BY <1>2, <1>7, PolledKeepsRow, FinishFailedKeepsRow
  <2>2. Writes(i)
    BY <1>2, <1>7, PolledResolves, FinishFailedResolves
  <2>3. \A j \in Items : j # i => item'[j] = item[j]
    BY <1>2, <2>2 DEF Writes, StoreTyped, Tables
  <2> QED  BY <1>3, <1>5, <2>1, <2>3, OneRowKept
<1>8. Kept
  BY <1>4, <1>6, <1>7 DEF PollItem
<1>9. th'["loop"] = Drop("loop", i) /\ th'["submit"] = th["submit"]
  BY DEF PollItem, Inductive, Typed, ThreadsTyped, Threads, Dispatchers
<1>10. Heard("loop")'
  BY <1>1, <1>9 DEF Heard, Drop, DispatchStates
<1>11. Heard("submit")'
  BY <1>0, <1>5, <1>8, <1>9, HeardStays
<1> QED  BY <1>8, <1>10, <1>11, BlameKept DEF Dispatchers

LEMMA ClaimBlames ==
    ASSUME Inductive, Blame, NEW t \in Dispatchers, NEW i \in Items, Claim(t, i)
    PROVE  Blame'
<1>0. t \in Threads /\ ThreadsTyped
  BY DEF Threads, Inductive, Typed
<1>1. th[t] \in DispatchStates /\ th[t].pc = "items" /\ i \in th[t].left
  BY <1>0, ThreadKinds DEF Claim, At
<1>2. item[i] \in Rows
  BY <1>1 DEF Inductive, Typed, Remembered, Remembers
<1>3. KeepsSettled /\ UNCHANGED <<run, pin>>
  BY ClaimKeeps DEF Claim
<1>4. Kept
  <2>1. CASE ~Claimable(t, i)
    BY <1>3, <2>1, AsideKept DEF Claim
  <2>2. CASE Claimable(t, i)
    <3> DEFINE row == [item[i] EXCEPT !.state = "Assigned", !.slot = pin[i]]
    <3>1. /\ row \in Rows /\ row.state = "Assigned" /\ row.slot = pin[i]
          /\ row.retries = item[i].retries
      BY <1>2 DEF Rows, OpenStates, Inductive, Typed, StoreTyped
    <3>2. Set(i, row)
      BY <2>2 DEF Claim
    <3>3. item'[i] = row /\ \A j \in Items : j # i => item'[j] = item[j]
      BY <3>2 DEF Set, Inductive, Typed, StoreTyped, Tables
    <3> HIDE DEF row
    <3>4. KeepsRow(i)
      BY <1>2, <3>1, <3>3 DEF KeepsRow
    <3> QED  BY <1>3, <3>3, <3>4, OneRowKept
  <2> QED  BY <2>1, <2>2
<1>5. /\ th'[t].pc # "reply"
      /\ \A u \in Dispatchers : u # t => th'[u] = th[u]
  <2> DEFINE d == Drop(t, i)
             o == [Drop(t, i) EXCEPT !.pc = "call", !.i = i]
  <2>1. d.pc = "items" /\ o.pc = "call"
    BY <1>1 DEF Drop, DispatchStates
  <2>2. th'[t] = d \/ th'[t] = o
    BY <1>0 DEF Claim, ThreadsTyped
  <2>3. \A u \in Dispatchers : u # t => th'[u] = th[u]
    BY <1>0 DEF Claim, ThreadsTyped, Threads
  <2> QED  BY <2>1, <2>2, <2>3
<1>6. \A u \in Dispatchers : Heard(u)'
  BY <1>3, <1>4, <1>5, HeardStays DEF Heard
<1> QED  BY <1>4, <1>6, BlameKept

LEMMA RecordReplyBlames ==
    ASSUME Inductive, Blame, NEW t \in Dispatchers, RecordReply(t)
    PROVE  Blame'
<1> DEFINE i == th[t].i
<1>0. t \in Threads /\ ThreadsTyped /\ StoreTyped
  BY DEF Threads, Inductive, Typed
<1>1. th[t] \in DispatchStates /\ th[t].pc = "reply"
  BY <1>0, ThreadKinds DEF RecordReply, At
<1>2. i \in Items /\ th[t].snap[i] \in Rows /\ item[i] \in Rows
  BY <1>1 DEF Inductive, Typed, Remembered, Remembers
<1>3. item[i].state = "Assigned"
  BY <1>1 DEF Inductive, Tracks
<1>4. Heard(t) /\ KeepsSettled /\ UNCHANGED <<run, pin>>
  BY RecordReplyKeeps DEF Blame, RecordReply
<1>5. Recorded(i, th[t].snap[i], th[t].ans)
  BY DEF RecordReply
<1>6. KeepsRow(i)
  BY <1>0, <1>1, <1>2, <1>3, <1>4, <1>5, RecordedKeepsRow DEF Heard
<1>7. \A j \in Items : j # i => item'[j] = item[j]
  <2>1. Writes(i)
    BY <1>0, <1>2, <1>5, RecordedResolves
  <2> QED  BY <1>0, <2>1 DEF Writes, StoreTyped, Tables
<1>8. Kept
  BY <1>2, <1>4, <1>6, <1>7, OneRowKept
<1>9. /\ th'[t].pc = "items"
      /\ \A u \in Dispatchers : u # t => th'[u] = th[u]
  BY <1>0, <1>1 DEF RecordReply, ThreadsTyped, Threads, DispatchStates
<1>10. \A u \in Dispatchers : Heard(u)'
  BY <1>4, <1>8, <1>9, HeardStays DEF Heard
<1> QED  BY <1>8, <1>10, BlameKept

(* A Controller that holds another trial is lost to the item that asks: no *)
(* trial in flight is on its slot.                                         *)
LEMMA ConflictIsLoss ==
    ASSUME Inductive, Blame, NEW i \in Items, item[i].state = "Assigned", run[i] = "none",
           LiveAt(pin[i]) \cup Unrecovered(pin[i]) # {}
    PROVE  SlotLost(i)
<1>1. PICK j \in Items : run[j] \in {"live", "recovery"} /\ pin[j] = pin[i]
  BY DEF LiveAt, Unrecovered
<1>2. j \in Items \ {i}
  BY <1>1
<1>3. CASE run[j] = "recovery"
  BY <1>1, <1>2, <1>3 DEF SlotLost
<1>4. CASE run[j] = "live"
  <2>1. \/ item[j].state \in OpenStates
        \/ item[j].state = "Failed" /\ item[j].owner = "platform"
    BY <1>4 DEF Inductive, Sound, EveryTrialIsFollowed
  <2>2. item[j].state \notin InFlight
    <3>1. item[j].state \in InFlight => item[j].slot = item[i].slot
      BY <1>1 DEF Blame, Planned, InFlight
    <3> QED  BY <1>2, <3>1 DEF Inductive, Sound, SlotExclusive, InFlight
  <2>3. item[j].state = "Queued" => item[j].retries > 0
    BY <1>4 DEF Blame, Requeued, Ran
  <2>4. LetGo(j)
    BY <2>1, <2>2, <2>3 DEF LetGo, OpenStates, InFlight
  <2> QED  BY <1>1, <1>2, <1>4, <2>4 DEF SlotLost
<1> QED  BY <1>1, <1>3, <1>4

LEMMA CreateRunBlames ==
    ASSUME Inductive, Blame, NEW t \in Dispatchers, CreateRun(t)
    PROVE  Blame'
<1>i. PICK i : i = th[t].i
  OBVIOUS
<1>0. t \in Threads /\ ThreadsTyped
  BY DEF Threads, Inductive, Typed
<1>1. /\ th[t] \in DispatchStates /\ th[t].pc = "call" /\ i \in Items
      /\ UNCHANGED <<item, pin>>
      /\ \/ run' = run
         \/ run[i] = "none" /\ run' = [run EXCEPT ![i] = "live"]
         \/ run[i] \in {"none", "refused"} /\ run' = [run EXCEPT ![i] = "refused"]
  BY <1>i, CreateRunEffect DEF Inductive
<1>2. item[i].state = "Assigned"
  BY <1>1, <1>i DEF Inductive, Tracks
<1>3. \A j \in Items : j # i => run'[j] = run[j]
  BY <1>1 DEF Inductive, Typed, RestTyped
<1>4. KeepsRun(i)
  BY <1>1, <1>2 DEF KeepsRun, Inductive, Typed, RestTyped
<1>5. Kept
  <2>1. \A j \in Items : item[j].state \in InFlight \cup Settled => item[j] \in Rows
    BY StoredRows DEF Inductive
  <2>2. item[i].state # "Queued"
    BY <1>2
  <2>3. \A j \in Items : KeepsRow(j)
    BY <1>1, <2>1 DEF KeepsRow, Settled
  <2> QED  BY <1>1, <1>3, <1>4, <2>3 DEF Kept, KeepsSettled, KeepsRun, KeepsPlan
<1>6. PICK a \in Answers :
         /\ Answer(t, a)
         /\ a \in {"notready", "upstream"} => run' = run /\ run[i] = "none"
         /\ a = "rejected" =>
               \/ run'[i] = "refused"
               \/ /\ run' = run /\ run[i] = "none"
                  /\ LiveAt(pin[i]) \cup Unrecovered(pin[i]) # {}
  BY <1>1, <1>i DEF CreateRun, Answers, Inductive, Typed, RestTyped
<1>7. /\ th'[t].i = i /\ th'[t].ans = a
      /\ \A u \in Dispatchers : u # t => th'[u] = th[u]
  BY <1>0, <1>1, <1>6, <1>i DEF Answer, ThreadsTyped, Threads, DispatchStates
<1>8. Heard(t)'
  <2>1. a \in {"notready", "upstream"} => ~Ran(i)'
    BY <1>6 DEF Ran, Outcomes
  <2>2. a = "rejected" => (run'[i] = "refused" \/ SlotLost(i)')
    <3>1. CASE run' = run /\ run[i] = "none" /\ LiveAt(pin[i]) \cup Unrecovered(pin[i]) # {}
      <4>1. SlotLost(i)
        BY <1>1, <1>2, <3>1, ConflictIsLoss
      <4>2. item[i] \in Rows
        BY <1>1, <1>i DEF Inductive, Typed, Remembered, Remembers
      <4> QED  BY <1>1, <1>5, <4>1, <4>2, LostStays DEF Kept
    <3> QED  BY <1>6, <3>1
  <2> QED  BY <1>7, <2>1, <2>2 DEF Heard
<1>9. ASSUME NEW u \in Dispatchers, u # t
      PROVE  Heard(u)'
  <2>1. Submitting(u) => th[u].i \in Items /\ th[u].i # i
    BY <1>1, <1>9, <1>i DEF Inductive, Apart, Submitting, Dispatchers, Typed, Remembered, Remembers
  <2> QED  BY <1>3, <1>5, <1>7, <1>9, <2>1, HeardStays
<1> QED  BY <1>5, <1>8, <1>9, BlameKept

LEMMA NextBlames ==
    ASSUME CanStop = {}, Inductive, Blame, [Next]_vars
    PROVE  Blame'
<1>1. CASE UNCHANGED vars
  BY <1>1, AsideBlames DEF vars
<1>2. ASSUME NEW b \in Batches, Submit(b) \/ StopBegin(b)
      PROVE  Blame'
  BY <1>2, SubmitBlames DEF StopBegin
<1>3. ASSUME NEW t \in Dispatchers, DispatchStep(t)
      PROVE  Blame'
  BY <1>3, PassesBlame, ClaimBlames, CreateRunBlames, RecordReplyBlames DEF DispatchStep
<1>4. ~StopStep
  BY DEF StopStep, StopRead, StopItem, StopEnd, At, Inductive, Quiet
<1>5. CASE Tick
  BY <1>5, PassesBlame DEF Dispatchers
<1>6. CASE Restart
  <2>1. UNCHANGED <<item, run, pin>> /\ \A t \in Dispatchers : th'[t] = Idle
    BY <1>6 DEF Restart, Dispatchers, Threads
  <2> QED  BY <2>1, AsideBlames, IdleIsNoState
<1> QED
  BY <1>1, <1>2, <1>3, <1>4, <1>5, <1>6, PollItemBlames, OutsideBlames DEF Next

LEMMA InitBlames == Init => Blame
<1> SUFFICES ASSUME Init PROVE Blame
  OBVIOUS
<1>1. \A i \in Items : item[i] = NoRow /\ run[i] = "none"
  BY DEF Init, NoRows
<1>2. \A t \in Dispatchers : th[t] = Idle
  BY DEF Init, Dispatchers, Threads
<1> QED  BY <1>1, <1>2, IdleIsNoState DEF Blame, Planned, Asked, Requeued,
            AgentBlamedFairly, Heard, NoRow, InFlight
----------------------------------------------------------------------------
(* For any number of items, slots, failures and restarts, no slot has two  *)
(* items in flight, although the loop and a submitting request dispatch    *)
(* from snapshots of their own: claim_slot_for_item decides.               *)
THEOREM SlotsAreExclusive ==
    ASSUME CanStop = {}
    PROVE  Spec => []SlotExclusive
<1>1. Inductive => SlotExclusive
  BY DEF Inductive, Sound
<1> QED  BY <1>1, InductiveHolds, PTL

(* A batch written as Completed, however late the thread that counted its  *)
(* rows writes it, has settled items only.                                 *)
THEOREM CompletedIsSettled ==
    ASSUME CanStop = {}
    PROVE  Spec => []CompletedMeansSettled
<1>1. Inductive => CompletedMeansSettled
  BY DEF Inductive, Sound
<1> QED  BY <1>1, InductiveHolds, PTL

(* No trial is lost from sight except by giving it up as the platform's    *)
(* failure.                                                                *)
THEOREM TrialsAreFollowed ==
    ASSUME CanStop = {}
    PROVE  Spec => []EveryTrialIsFollowed
<1>1. Inductive => EveryTrialIsFollowed
  BY DEF Inductive, Sound
<1> QED  BY <1>1, InductiveHolds, PTL

(* Whatever answers are lost, retried or given up, no item is blamed on    *)
(* its agent for a trial that the Fleet itself has in flight on the slot:  *)
(* a TaskConflict meets a slot that another trial had been let go on, or   *)
(* failed to recover.                                                      *)
THEOREM BlameIsFair ==
    ASSUME CanStop = {}
    PROVE  Spec => []AgentBlamedFairly
<1>1. Inductive /\ Blame /\ [Next]_vars => Blame'
  BY NextBlames
<1>2. Blame => AgentBlamedFairly
  BY DEF Blame
<1> QED  BY <1>1, <1>2, InitBlames, InductiveHolds, PTL DEF Spec

(* No stale snapshot reopens or refiles a settled item.                    *)
THEOREM SettledStays ==
    ASSUME CanStop = {}
    PROVE  Spec => SettledIsFinal
<1>1. Inductive /\ [Next]_vars =>
         [\A i \in Items : item[i].state \in Settled =>
             item'[i].state = item[i].state /\ item'[i].owner = item[i].owner]_vars
  BY NextKeeps DEF KeepsSettled
<1> QED  BY <1>1, InductiveHolds, PTL DEF Spec, SettledIsFinal
=============================================================================
