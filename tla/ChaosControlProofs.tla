------------------------- MODULE ChaosControlProofs -------------------------
(***************************************************************************)
(* ChaosControl's safety properties for every number of handles, tokens,   *)
(* executors, runs, fault types, Pod replacements and faults.              *)
(***************************************************************************)
EXTENDS ChaosControl, TLAPS

-----------------------------------------------------------------------------
(***************************************************************************)
(* Typing: which kind of operation a program counter belongs to.           *)
(***************************************************************************)
(* An operation at a create step is a create operation.                    *)
LEMMA OpIsCreate ==
    ASSUME TypeOK, op.pc \in CreatePCs
    PROVE  op \in CreateOps
BY DEF TypeOK, CreatePCs, CreateOps, CleanOps, CleanPCs, Idle

(* An operation at a cleanup step is a cleanup operation.                  *)
LEMMA OpIsClean ==
    ASSUME TypeOK, op.pc \in CleanPCs
    PROVE  op \in CleanOps
BY DEF TypeOK, CreatePCs, CreateOps, CleanOps, CleanPCs, Idle

(* The ledger file of a used handle is a full entry.                       *)
LEMMA UsedIsEntry ==
    ASSUME TypeOK, NEW h \in Handles, Used(h)
    PROVE  ledger[h] \in Entries
BY DEF TypeOK, Used

(* A full entry is never the absence of one.                               *)
LEMMA EntryIsUsed ==
    ASSUME NEW e \in Entries
    PROVE  e # NoEntry
BY DEF Entries, NoEntry, States, Cleanable, Closed

-----------------------------------------------------------------------------
(***************************************************************************)
(* An entry that is touched keeps its identity: executor, name, target and *)
(* token stay, and no state leads back to operation_outcome_unknown.       *)
(***************************************************************************)
Touched(e, f) ==
    /\ f \in Entries
    /\ f.x = e.x /\ f.name = e.name /\ f.uid = e.uid /\ f.tok = e.tok
    /\ f.state = "operation_outcome_unknown" => f.state = e.state

Touches(h) ==
    /\ h \in Handles
    /\ Used(h)
    /\ \E f : Touched(ledger[h], f) /\ ledger' = [ledger EXCEPT ![h] = f]

(* Setting the state of an entry, to anything but D6-A's, touches it.      *)
LEMMA SetStateTouches ==
    ASSUME TypeOK, NEW h \in Handles, Used(h), NEW s \in Cleanable \cup Closed,
           SetState(h, s)
    PROVE  /\ Touches(h)
           /\ ledger'[h].state = s
<1> DEFINE f == [ledger[h] EXCEPT !.state = s]
<1>1. ledger[h] \in Entries
  BY UsedIsEntry
<1>2. Touched(ledger[h], f)
  BY <1>1 DEF Touched, Entries, States, Cleanable, Closed
<1>3. ledger' = [ledger EXCEPT ![h] = f]
  BY DEF SetState
<1>4. f.state = s
  BY <1>1 DEF Entries
<1> HIDE DEF f
<1>5. ledger'[h] = f
  BY <1>3 DEF TypeOK
<1> QED
  BY <1>2, <1>3, <1>4, <1>5 DEF Touches

(* Observing the fault window touches an entry and leaves its state alone. *)
LEMMA ObserveTouches ==
    ASSUME TypeOK, NEW h \in Handles, Used(h), NEW r,
           ledger' = [ledger EXCEPT ![h] = Observed(ledger[h], r)]
    PROVE  /\ Touches(h)
           /\ ledger'[h].state = ledger[h].state
<1> DEFINE e == ledger[h]
<1>1. e \in Entries
  BY UsedIsEntry
<1>2. /\ Touched(e, Observed(e, r))
      /\ Observed(e, r).state = e.state
  BY <1>1 DEF Touched, Entries, Observed
<1>3. ledger'[h] = Observed(e, r)
  BY DEF TypeOK
<1> QED
  BY <1>2, <1>3 DEF Touches

(* What a touch leaves: every other entry, and every entry's identity.     *)
LEMMA TouchFacts ==
    ASSUME TypeOK, NEW h, Touches(h)
    PROVE  /\ ledger' \in [Handles -> Entries \cup {NoEntry}]
           /\ \A g \in Handles : g # h => ledger'[g] = ledger[g]
           /\ Touched(ledger[h], ledger'[h])
           /\ \A g \in Handles : Used(g)' <=> Used(g)
<1>1. PICK f : Touched(ledger[h], f) /\ ledger' = [ledger EXCEPT ![h] = f]
  BY DEF Touches
<1>2. h \in Handles /\ f \in Entries
  BY <1>1 DEF Touches, Touched
<1>3. ledger'[h] = f /\ \A g \in Handles : g # h => ledger'[g] = ledger[g]
  BY <1>1, <1>2 DEF TypeOK
<1>4. f # NoEntry
  BY <1>2, EntryIsUsed
<1>5. ledger' \in [Handles -> Entries \cup {NoEntry}]
  BY <1>1, <1>2 DEF TypeOK
<1> QED
  BY <1>1, <1>2, <1>3, <1>4, <1>5 DEF Used, Touches

(* The conjuncts of the invariant a touch cannot disturb.                  *)
LEMMA TouchKeeps ==
    ASSUME Inductive, NEW h, Touches(h), UNCHANGED <<res, inflight, spent>>
    PROVE  ResourcesLeased' /\ InflightLeased' /\ TokensDistinct' /\ SpentLedgered'
<1>0. TypeOK
  BY DEF Inductive
<1>1. /\ \A g \in Handles : g # h => ledger'[g] = ledger[g]
      /\ Touched(ledger[h], ledger'[h])
      /\ \A g \in Handles : Used(g)' <=> Used(g)
  BY <1>0, TouchFacts
<1>2. \A g \in Handles : Used(g) =>
         /\ Used(g)'
         /\ ledger'[g].x = ledger[g].x /\ ledger'[g].name = ledger[g].name
         /\ ledger'[g].uid = ledger[g].uid /\ ledger'[g].tok = ledger[g].tok
         /\ ledger[g].state # "operation_outcome_unknown"
              => ledger'[g].state # "operation_outcome_unknown"
  BY <1>1 DEF Touched
<1>3. ResourcesLeased'
  <2> SUFFICES ASSUME NEW k \in Keys, Live(k)
               PROVE  Leased(res[k].by, k[1], k[2], res[k].uid)'
    BY DEF ResourcesLeased, Live
  <2>1. res[k].by \in Handles
    BY <1>0 DEF TypeOK, Live, Resources
  <2>2. Leased(res[k].by, k[1], k[2], res[k].uid)
    BY DEF Inductive, ResourcesLeased
  <2> QED
    BY <2>1, <2>2, <1>2 DEF Leased
<1>4. InflightLeased'
  <2> SUFFICES ASSUME NEW c \in inflight
               PROVE  Leased(c.by, c.key[1], c.key[2], c.uid)'
    BY DEF InflightLeased
  <2>1. c.by \in Handles
    BY <1>0 DEF TypeOK, Requests
  <2>2. Leased(c.by, c.key[1], c.key[2], c.uid)
    BY DEF Inductive, InflightLeased
  <2> QED
    BY <2>1, <2>2, <1>2 DEF Leased
<1>5. TokensDistinct'
  BY <1>1, <1>2 DEF Inductive, TokensDistinct
<1>6. SpentLedgered'
  <2> SUFFICES ASSUME NEW s \in spent
               PROVE  (/\ Used(s[1])
                       /\ ledger[s[1]].tok = s[2]
                       /\ ledger[s[1]].state # "operation_outcome_unknown")'
    BY DEF SpentLedgered
  <2>1. s[1] \in Handles
    BY <1>0 DEF TypeOK
  <2> QED
    BY <2>1, <1>2 DEF Inductive, SpentLedgered
<1> QED
  BY <1>3, <1>4, <1>5, <1>6

-----------------------------------------------------------------------------
(***************************************************************************)
(* Each action preserves the invariant.  First the steps that leave the    *)
(* ledger, the resources and the requests alone.                           *)
(***************************************************************************)
(* CreateVerify preserves the invariant.  *)
LEMMA CreateVerifyKeeps ==
    ASSUME Inductive, CreateVerify
    PROVE  Inductive'
<1>0. TypeOK /\ op \in CreateOps
  BY OpIsCreate DEF Inductive, CreateVerify, CreatePCs
<1>1. TypeOK'
  BY <1>0, ConstantsAssumption DEF CreateVerify, TypeOK, Release, Goto, Idle, CreateOps, CreatePCs, ClearFence, Fault, Bindings
<1>2. ResourcesLeased' /\ InflightLeased' /\ TokensDistinct' /\ SpentLedgered'
  BY DEF CreateVerify, Inductive, ResourcesLeased, InflightLeased, TokensDistinct, SpentLedgered, Leased, Used, Live
<1>3. CreateHoldsHandle' /\ CleanHoldsHandle'
  BY <1>0 DEF CreateVerify, Inductive, CreateHoldsHandle, CleanHoldsHandle, Release, Goto, Idle, CreateOps, CreatePCs, BeforeWrite, AfterWrite, CleanPCs, Used, Leased, Retriable, TokenUnused
<1>4. ReplacementBound'
  BY <1>0 DEF CreateVerify, Inductive, ReplacementBound, ClearFence, TypeOK
<1>5. ASSUME ~LateCreates PROVE NothingLate'
  BY <1>0, <1>5 DEF CreateVerify, Inductive, NothingLate, Release, Goto, Idle, Live, Active, CleanKey, CreateOps, CreatePCs
<1> QED
  BY <1>1, <1>2, <1>3, <1>4, <1>5 DEF Inductive

(* CreateList preserves the invariant.  *)
LEMMA CreateListKeeps ==
    ASSUME Inductive, CreateList
    PROVE  Inductive'
<1>0. TypeOK /\ op \in CreateOps
  BY OpIsCreate DEF Inductive, CreateList, CreatePCs
<1>1. TypeOK'
  BY <1>0, ConstantsAssumption DEF CreateList, TypeOK, Release, Goto, Idle, CreateOps, CreatePCs, ClearFence, Fault, Bindings
<1>2. ResourcesLeased' /\ InflightLeased' /\ TokensDistinct' /\ SpentLedgered'
  BY DEF CreateList, Inductive, ResourcesLeased, InflightLeased, TokensDistinct, SpentLedgered, Leased, Used, Live
<1>3. CreateHoldsHandle' /\ CleanHoldsHandle'
  BY <1>0 DEF CreateList, Inductive, CreateHoldsHandle, CleanHoldsHandle, Release, Goto, Idle, CreateOps, CreatePCs, BeforeWrite, AfterWrite, CleanPCs, Used, Leased, Retriable, TokenUnused
<1>4. ReplacementBound'
  BY <1>0 DEF CreateList, Inductive, ReplacementBound, ClearFence, TypeOK
<1>5. ASSUME ~LateCreates PROVE NothingLate'
  BY <1>0, <1>5 DEF CreateList, Inductive, NothingLate, Release, Goto, Idle, Live, Active, CleanKey, CreateOps, CreatePCs
<1> QED
  BY <1>1, <1>2, <1>3, <1>4, <1>5 DEF Inductive

(* CreateFence preserves the invariant.  *)
LEMMA CreateFenceKeeps ==
    ASSUME Inductive, CreateFence
    PROVE  Inductive'
<1>0. TypeOK /\ op \in CreateOps
  BY OpIsCreate DEF Inductive, CreateFence, CreatePCs
<1>1. TypeOK'
  <2>1. op' \in CreateOps \cup {Idle}
    BY <1>0 DEF CreateFence, Release, Goto, CreateOps, CreatePCs
  <2>2. pod' = pod \/ pod' = [pod EXCEPT !.fence = TRUE]
    BY Zenon DEF CreateFence
  <2>3. pod' \in [uid : Uids, fence : BOOLEAN]
    BY <1>0, <2>2 DEF TypeOK
  <2>4. faults' = faults \/ faults' = faults + 1
    BY Zenon DEF CreateFence, Fault
  <2> QED
    BY <1>0, <2>1, <2>3, <2>4 DEF CreateFence, TypeOK
<1>2. ResourcesLeased' /\ InflightLeased' /\ TokensDistinct' /\ SpentLedgered'
  BY DEF CreateFence, Inductive, ResourcesLeased, InflightLeased, TokensDistinct, SpentLedgered, Leased, Used, Live
<1>3. CreateHoldsHandle' /\ CleanHoldsHandle'
  BY <1>0 DEF CreateFence, Inductive, CreateHoldsHandle, CleanHoldsHandle, Release, Goto, Idle, CreateOps, CreatePCs, BeforeWrite, AfterWrite, CleanPCs, Used, Leased, Retriable, TokenUnused
<1>4. ReplacementBound'
  BY <1>0 DEF CreateFence, Inductive, ReplacementBound, ClearFence, TypeOK
<1>5. ASSUME ~LateCreates PROVE NothingLate'
  BY <1>0, <1>5 DEF CreateFence, Inductive, NothingLate, Release, Goto, Idle, Live, Active, CleanKey, CreateOps, CreatePCs
<1> QED
  BY <1>1, <1>2, <1>3, <1>4, <1>5 DEF Inductive

(* D6AClear preserves the invariant.  *)
LEMMA D6AClearKeeps ==
    ASSUME Inductive, D6AClear
    PROVE  Inductive'
<1>0. TypeOK /\ op \in CreateOps
  BY OpIsCreate DEF Inductive, D6AClear, CreatePCs
<1>1. TypeOK'
  BY <1>0, ConstantsAssumption DEF D6AClear, TypeOK, Release, Goto, Idle, CreateOps, CreatePCs, ClearFence, Fault, Bindings
<1>2. ResourcesLeased' /\ InflightLeased' /\ TokensDistinct' /\ SpentLedgered'
  BY DEF D6AClear, Inductive, ResourcesLeased, InflightLeased, TokensDistinct, SpentLedgered, Leased, Used, Live
<1>3. CreateHoldsHandle' /\ CleanHoldsHandle'
  BY <1>0 DEF D6AClear, Inductive, CreateHoldsHandle, CleanHoldsHandle, Release, Goto, Idle, CreateOps, CreatePCs, BeforeWrite, AfterWrite, CleanPCs, Used, Leased, Retriable, TokenUnused
<1>4. ReplacementBound'
  BY <1>0 DEF D6AClear, Inductive, ReplacementBound, ClearFence, TypeOK
<1>5. ASSUME ~LateCreates PROVE NothingLate'
  BY <1>0, <1>5 DEF D6AClear, Inductive, NothingLate, Release, Goto, Idle, Live, Active, CleanKey, CreateOps, CreatePCs
<1> QED
  BY <1>1, <1>2, <1>3, <1>4, <1>5 DEF Inductive

(* CreateUnwind preserves the invariant.  *)
LEMMA CreateUnwindKeeps ==
    ASSUME Inductive, CreateUnwind
    PROVE  Inductive'
<1>0. TypeOK /\ op \in CreateOps
  BY OpIsCreate DEF Inductive, CreateUnwind, CreatePCs
<1>1. TypeOK'
  BY <1>0, ConstantsAssumption DEF CreateUnwind, TypeOK, Release, Goto, Idle, CreateOps, CreatePCs, ClearFence, Fault, Bindings
<1>2. ResourcesLeased' /\ InflightLeased' /\ TokensDistinct' /\ SpentLedgered'
  BY DEF CreateUnwind, Inductive, ResourcesLeased, InflightLeased, TokensDistinct, SpentLedgered, Leased, Used, Live
<1>3. CreateHoldsHandle' /\ CleanHoldsHandle'
  BY <1>0 DEF CreateUnwind, Inductive, CreateHoldsHandle, CleanHoldsHandle, Release, Goto, Idle, CreateOps, CreatePCs, BeforeWrite, AfterWrite, CleanPCs, Used, Leased, Retriable, TokenUnused
<1>4. ReplacementBound'
  BY <1>0 DEF CreateUnwind, Inductive, ReplacementBound, ClearFence, TypeOK
<1>5. ASSUME ~LateCreates PROVE NothingLate'
  BY <1>0, <1>5 DEF CreateUnwind, Inductive, NothingLate, Release, Goto, Idle, Live, Active, CleanKey, CreateOps, CreatePCs
<1> QED
  BY <1>1, <1>2, <1>3, <1>4, <1>5 DEF Inductive

(* CreateUnwindClear preserves the invariant.  *)
LEMMA CreateUnwindClearKeeps ==
    ASSUME Inductive, CreateUnwindClear
    PROVE  Inductive'
<1>0. TypeOK /\ op \in CreateOps
  BY OpIsCreate DEF Inductive, CreateUnwindClear, CreatePCs
<1>1. TypeOK'
  BY <1>0, ConstantsAssumption DEF CreateUnwindClear, TypeOK, Release, Goto, Idle, CreateOps, CreatePCs, ClearFence, Fault, Bindings
<1>2. ResourcesLeased' /\ InflightLeased' /\ TokensDistinct' /\ SpentLedgered'
  BY DEF CreateUnwindClear, Inductive, ResourcesLeased, InflightLeased, TokensDistinct, SpentLedgered, Leased, Used, Live
<1>3. CreateHoldsHandle' /\ CleanHoldsHandle'
  BY <1>0 DEF CreateUnwindClear, Inductive, CreateHoldsHandle, CleanHoldsHandle, Release, Goto, Idle, CreateOps, CreatePCs, BeforeWrite, AfterWrite, CleanPCs, Used, Leased, Retriable, TokenUnused
<1>4. ReplacementBound'
  BY <1>0 DEF CreateUnwindClear, Inductive, ReplacementBound, ClearFence, TypeOK
<1>5. ASSUME ~LateCreates PROVE NothingLate'
  BY <1>0, <1>5 DEF CreateUnwindClear, Inductive, NothingLate, Release, Goto, Idle, Live, Active, CleanKey, CreateOps, CreatePCs
<1> QED
  BY <1>1, <1>2, <1>3, <1>4, <1>5 DEF Inductive

(* CleanUnfence preserves the invariant.  *)
LEMMA CleanUnfenceKeeps ==
    ASSUME Inductive, CleanUnfence
    PROVE  Inductive'
<1>0. TypeOK /\ op \in CleanOps
  BY OpIsClean DEF Inductive, CleanUnfence, CleanPCs
<1>1. TypeOK'
  BY <1>0, ConstantsAssumption DEF CleanUnfence, TypeOK, Release, Goto, Idle, CleanOps, CleanPCs, ClearFence, Fault, Bindings
<1>2. ResourcesLeased' /\ InflightLeased' /\ TokensDistinct' /\ SpentLedgered'
  BY DEF CleanUnfence, Inductive, ResourcesLeased, InflightLeased, TokensDistinct, SpentLedgered, Leased, Used, Live
<1>3. CreateHoldsHandle' /\ CleanHoldsHandle'
  BY <1>0 DEF CleanUnfence, Inductive, CreateHoldsHandle, CleanHoldsHandle, Release, Goto, Idle, CleanOps, CleanPCs, BeforeWrite, AfterWrite, CreatePCs, Used, Leased, Retriable, TokenUnused
<1>4. ReplacementBound'
  BY <1>0 DEF CleanUnfence, Inductive, ReplacementBound, ClearFence, TypeOK
<1>5. ASSUME ~LateCreates PROVE NothingLate'
  BY <1>0, <1>5 DEF CleanUnfence, Inductive, NothingLate, Release, Goto, Idle, Live, Active, CleanKey, CleanOps, CleanPCs
<1> QED
  BY <1>1, <1>2, <1>3, <1>4, <1>5 DEF Inductive

(* CreateBegin preserves the invariant: its guards are what the operation *)
(* relies on until it writes the ledger.                                   *)
LEMMA CreateBeginKeeps ==
    ASSUME Inductive, NEW x \in Executors, NEW h \in Handles, NEW n \in Names,
           NEW uid \in Uids, NEW t \in Tokens, CreateBegin(x, h, n, uid, t)
    PROVE  Inductive'
<1>0. TypeOK
  BY DEF Inductive
<1>1. op' \in CreateOps
  BY <1>0 DEF CreateBegin, TypeOK, CreateOps, CreatePCs, Retriable
<1>2. TypeOK'
  BY <1>0, <1>1 DEF CreateBegin, TypeOK
<1>3. ResourcesLeased' /\ InflightLeased' /\ TokensDistinct' /\ SpentLedgered'
  BY DEF CreateBegin, Inductive, ResourcesLeased, InflightLeased, TokensDistinct,
         SpentLedgered, Leased, Used, Live
<1>4. CreateHoldsHandle' /\ CleanHoldsHandle'
  BY DEF CreateBegin, HandleFree, CreateHoldsHandle, CleanHoldsHandle, AfterWrite, CleanPCs,
         Used, Retriable, TokenUnused
<1>5. ReplacementBound'
  BY DEF CreateBegin, Inductive, ReplacementBound
<1>6. ASSUME ~LateCreates PROVE NothingLate'
  BY <1>6 DEF CreateBegin, Inductive, NothingLate, Live, Active
<1> QED
  BY <1>2, <1>3, <1>4, <1>5, <1>6 DEF Inductive

(* DestroyBegin preserves the invariant.                                   *)
LEMMA DestroyBeginKeeps ==
    ASSUME Inductive, NEW x \in Executors, NEW h \in Handles, DestroyBegin(x, h)
    PROVE  Inductive'
<1>0. TypeOK
  BY DEF Inductive
<1>1. TypeOK'
  BY <1>0 DEF DestroyBegin, TypeOK, CleanOps, CleanPCs
<1>2. ResourcesLeased' /\ InflightLeased' /\ TokensDistinct' /\ SpentLedgered'
  BY DEF DestroyBegin, Inductive, ResourcesLeased, InflightLeased, TokensDistinct,
         SpentLedgered, Leased, Used, Live
<1>3. CreateHoldsHandle' /\ CleanHoldsHandle'
  BY DEF DestroyBegin, CreateHoldsHandle, CleanHoldsHandle, AfterWrite, BeforeWrite,
         Used
<1>4. ReplacementBound'
  BY DEF DestroyBegin, Inductive, ReplacementBound
<1>5. ASSUME ~LateCreates PROVE NothingLate'
  BY <1>5 DEF DestroyBegin, Inductive, NothingLate, Live, Active
<1> QED
  BY <1>1, <1>2, <1>3, <1>4, <1>5 DEF Inductive

(* ExpireBegin preserves the invariant.                                    *)
LEMMA ExpireBeginKeeps ==
    ASSUME Inductive, NEW x \in Executors, ExpireBegin(x)
    PROVE  Inductive'
<1>0. TypeOK
  BY DEF Inductive
<1>1. PICK h \in Owned(x) :
         op' = [pc |-> "scan", kind |-> "expire", x |-> x, h |-> h,
                todo |-> Owned(x), late |-> {g \in Owned(x) : ledger[g].due}]
  BY DEF ExpireBegin
<1>2. Owned(x) \subseteq Handles /\ \A g \in Owned(x) : Used(g) /\ ledger[g].x = x
  BY DEF Owned
<1>3. TypeOK'
  BY <1>0, <1>1, <1>2 DEF ExpireBegin, TypeOK, CleanOps, CleanPCs
<1>4. ResourcesLeased' /\ InflightLeased' /\ TokensDistinct' /\ SpentLedgered'
  BY DEF ExpireBegin, Inductive, ResourcesLeased, InflightLeased, TokensDistinct,
         SpentLedgered, Leased, Used, Live
<1>5. CreateHoldsHandle' /\ CleanHoldsHandle'
  BY <1>1, <1>2 DEF ExpireBegin, CreateHoldsHandle, CleanHoldsHandle, AfterWrite,
                    BeforeWrite, Used
<1>6. ReplacementBound'
  BY DEF ExpireBegin, Inductive, ReplacementBound
<1>7. ASSUME ~LateCreates PROVE NothingLate'
  BY <1>1, <1>7 DEF ExpireBegin, Inductive, NothingLate, Live, Active
<1> QED
  BY <1>3, <1>4, <1>5, <1>6, <1>7 DEF Inductive

(* Abort preserves the invariant: the ledger is always fit to be read by   *)
(* the next holder of the lock.                                            *)
LEMMA AbortKeeps ==
    ASSUME Inductive, Abort
    PROVE  Inductive'
<1>1. TypeOK'
  BY DEF Inductive, Abort, TypeOK, Fault, Release
<1>2. ResourcesLeased' /\ InflightLeased' /\ TokensDistinct' /\ SpentLedgered'
  BY DEF Abort, Inductive, ResourcesLeased, InflightLeased, TokensDistinct,
         SpentLedgered, Leased, Used, Live
<1>3. CreateHoldsHandle' /\ CleanHoldsHandle'
  BY DEF Abort, Release, Idle, CreateHoldsHandle, CleanHoldsHandle, AfterWrite,
         BeforeWrite, CleanPCs
<1>4. ReplacementBound'
  BY DEF Abort, Inductive, ReplacementBound
<1>5. ASSUME ~LateCreates PROVE NothingLate'
  BY <1>5 DEF Abort, Release, Idle, Inductive, NothingLate, Live, Active
<1> QED
  BY <1>1, <1>2, <1>3, <1>4, <1>5 DEF Inductive

(* The Controller's D2 steps preserve the invariant: they change only the  *)
(* capabilities, the Pod and their own progress.                           *)
LEMMA D2Keeps ==
    ASSUME Inductive,
           (\E t \in D2Tokens : D2Fence(t)) \/ D2Replace \/ D2Rebind \/ D2Release
    PROVE  Inductive'
<1>0. TypeOK /\ ReplacementBound
  BY DEF Inductive
<1>1. UNCHANGED <<ledger, res, inflight, op, spent>>
  BY DEF D2Fence, D2Replace, D2Rebind, D2Release
<1>2. /\ pod' \in [uid : Uids, fence : BOOLEAN]
      /\ cap' \in [Tokens -> Bindings]
      /\ d2' \in D2States \cup {Idle}
      /\ faults' \in Nat
      /\ ReplacementBound'
  <2>1. ASSUME NEW t \in D2Tokens, D2Fence(t)
        PROVE  <1>2!1 /\ <1>2!2 /\ <1>2!3 /\ <1>2!4 /\ <1>2!5
    BY <1>0, <2>1, ConstantsAssumption DEF D2Fence, TypeOK, D2States, Bindings, ReplacementPending,
                      ReplacementBound
  <2>2. ASSUME D2Replace
        PROVE  <1>2!1 /\ <1>2!2 /\ <1>2!3 /\ <1>2!4 /\ <1>2!5
    BY <1>0, <2>2, ConstantsAssumption DEF D2Replace, TypeOK, D2States, Uids, ReplacementBound, Idle
  <2>3. ASSUME D2Rebind
        PROVE  <1>2!1 /\ <1>2!2 /\ <1>2!3 /\ <1>2!4 /\ <1>2!5
    BY <1>0, <2>3 DEF D2Rebind, TypeOK, D2States, Bindings, ReplacementBound, Idle
  <2>4. ASSUME D2Release
        PROVE  <1>2!1 /\ <1>2!2 /\ <1>2!3 /\ <1>2!4 /\ <1>2!5
    BY <1>0, <2>4 DEF D2Release, TypeOK, D2States, Fault, ReplacementBound, Idle
  <2> QED
    BY <2>1, <2>2, <2>3, <2>4
<1>3. TypeOK'
  BY <1>0, <1>1, <1>2 DEF TypeOK
<1>4. /\ ResourcesLeased' /\ InflightLeased' /\ TokensDistinct' /\ SpentLedgered'
      /\ CreateHoldsHandle' /\ CleanHoldsHandle'
  BY <1>1 DEF Inductive, ResourcesLeased, InflightLeased, TokensDistinct, SpentLedgered,
              CreateHoldsHandle, CleanHoldsHandle, Leased, Used, Live, Retriable, TokenUnused
<1>5. ASSUME ~LateCreates PROVE NothingLate'
  BY <1>1, <1>5 DEF Inductive, NothingLate, Live, Active, CleanKey
<1> QED
  BY <1>2, <1>3, <1>4, <1>5 DEF Inductive

-----------------------------------------------------------------------------
(***************************************************************************)
(* The steps that touch one ledger entry.                                  *)
(***************************************************************************)
(* The part of NothingLate that no touch disturbs as long as a cleanable   *)
(* entry stays cleanable.                                                  *)
LEMMA TouchNothingLate ==
    ASSUME Inductive, ~LateCreates, NEW h, Touches(h), UNCHANGED <<res, inflight>>,
           ledger[h].state \in Cleanable => ledger'[h].state \in Cleanable
    PROVE  /\ inflight' = {}
           /\ \A k \in Keys : Live(k)' => ledger'[res'[k].by].state \in Cleanable
           /\ \A x \in Executors : \A m, n \in Active(x)' : m = n
<1>0. TypeOK /\ NothingLate
  BY DEF Inductive
<1>1. \A g \in Handles : g # h => ledger'[g] = ledger[g]
  BY <1>0, TouchFacts
<1>2. \A k \in Keys : Live(k) => res[k].by \in Handles
  BY <1>0 DEF TypeOK, Live, Resources
<1> QED
  BY <1>0, <1>1, <1>2 DEF NothingLate, Live, Active

(* The watchdog's next step after a touch of the entry it works on, or a   *)
(* return to idle, keeps the claims on the handles of the operation.       *)
LEMMA TouchCleanHolds ==
    ASSUME Inductive, op \in CleanOps, NEW h, Touches(h),
           op' = Idle \/ /\ op' \in CleanOps
                         /\ op'.h \in op.todo \cup {op.h}
                         /\ op'.todo \subseteq op.todo
                         /\ op'.x = op.x
                         /\ op'.pc # "observe"
                         /\ op'.pc # "scan" => ledger[op'.h].x = op'.x
    PROVE  CreateHoldsHandle' /\ CleanHoldsHandle'
<1>0. TypeOK /\ CleanHoldsHandle
  BY DEF Inductive
<1>1. CASE op' = Idle
  BY <1>1 DEF Idle, CreateHoldsHandle, CleanHoldsHandle, BeforeWrite, AfterWrite, CleanPCs
<1>2. CASE op' # Idle
  <2>1. /\ op' \in CleanOps /\ op'.h \in op.todo \cup {op.h} /\ op'.x = op.x
        /\ op'.todo \subseteq op.todo
        /\ op'.pc # "scan" => ledger[op'.h].x = op'.x
    BY <1>2
  <2>2. op.pc \in CleanPCs /\ op'.pc \in CleanPCs /\ op.h \in Handles
        /\ op.todo \subseteq Handles
    BY <2>1 DEF CleanOps
  <2>3. Used(op.h) /\ \A g \in op.todo : Used(g) /\ ledger[g].x = op.x
    BY <1>0, <2>2 DEF CleanHoldsHandle
  <2>4. Used(op.h)' /\ \A g \in op'.todo : ledger'[g] # NoEntry
    BY <1>0, <2>1, <2>2, <2>3, TouchFacts DEF Used
  <2>5. /\ ledger'[op'.h].x = ledger[op'.h].x
        /\ \A g \in op'.todo : ledger'[g].x = ledger[g].x
    BY <1>0, <2>1, <2>2, TouchFacts DEF Touched
  <2>6. CleanHoldsHandle'
    BY <2>1, <2>3, <2>4, <2>5 DEF CleanHoldsHandle, Used
  <2>7. CreateHoldsHandle'
    BY <2>2 DEF CreateHoldsHandle, CleanPCs, BeforeWrite, AfterWrite
  <2> QED
    BY <2>6, <2>7
<1> QED
  BY <1>1, <1>2

(* Status preserves the invariant, whichever executor asks.                *)
LEMMA StatusKeeps ==
    ASSUME Inductive, NEW x \in Executors, NEW h \in Handles, Status(x, h)
    PROVE  Inductive'
<1>0. TypeOK /\ Used(h)
  BY DEF Inductive, Status
<1>1. Touches(h) /\ ledger'[h].state = ledger[h].state
  BY <1>0, ObserveTouches DEF Status
<1>2. TypeOK'
  BY <1>0, <1>1, TouchFacts DEF Status, TypeOK
<1>3. ResourcesLeased' /\ InflightLeased' /\ TokensDistinct' /\ SpentLedgered'
  BY <1>1, TouchKeeps DEF Status
<1>4. CreateHoldsHandle' /\ CleanHoldsHandle'
  BY DEF Status, Idle, CreateHoldsHandle, CleanHoldsHandle, AfterWrite,
         BeforeWrite, CleanPCs
<1>5. ReplacementBound'
  BY DEF Status, Inductive, ReplacementBound
<1>6. ASSUME ~LateCreates PROVE NothingLate'
  BY <1>1, <1>6, TouchNothingLate DEF Status, Idle, NothingLate
<1> QED
  BY <1>2, <1>3, <1>4, <1>5, <1>6 DEF Inductive

(* DestroyObserve preserves the invariant.                                 *)
LEMMA DestroyObserveKeeps ==
    ASSUME Inductive, DestroyObserve
    PROVE  Inductive'
<1>0. TypeOK /\ op \in CleanOps /\ Used(op.h) /\ op.h \in Handles
  BY OpIsClean DEF Inductive, DestroyObserve, CleanPCs, CleanHoldsHandle, CleanOps
<1>1. Touches(op.h) /\ ledger'[op.h].state = ledger[op.h].state
  BY <1>0, ObserveTouches DEF DestroyObserve
<1>2. op' = Idle \/ (op' = [op EXCEPT !.pc = "check"] /\ ledger[op.h].x = op.x)
  BY DEF DestroyObserve, Release, Goto
<1>3. TypeOK'
  BY <1>0, <1>1, <1>2, TouchFacts DEF DestroyObserve, TypeOK, CleanOps, CleanPCs
<1>4. ResourcesLeased' /\ InflightLeased' /\ TokensDistinct' /\ SpentLedgered'
  BY <1>1, TouchKeeps DEF DestroyObserve
<1>5. CreateHoldsHandle' /\ CleanHoldsHandle'
  BY <1>0, <1>1, <1>2, TouchCleanHolds DEF CleanOps, CleanPCs
<1>6. ReplacementBound'
  BY DEF DestroyObserve, Inductive, ReplacementBound
<1>7. ASSUME ~LateCreates PROVE NothingLate'
  BY <1>0, <1>1, <1>2, <1>7, TouchNothingLate DEF DestroyObserve, Idle, NothingLate, CleanOps
<1> QED
  BY <1>3, <1>4, <1>5, <1>6, <1>7 DEF Inductive

(* ExpireScan preserves the invariant.                                     *)
LEMMA ExpireScanKeeps ==
    ASSUME Inductive, ExpireScan
    PROVE  Inductive'
<1>0. /\ TypeOK /\ op \in CleanOps /\ op.pc = "scan"
      /\ op.h \in Handles /\ Used(op.h)
      /\ \A h \in op.todo : h \in Handles /\ Used(h) /\ ledger[h].x = op.x
  BY OpIsClean DEF Inductive, ExpireScan, CleanPCs, CleanHoldsHandle, CleanOps
<1>1. CASE op.todo = {} /\ op' = Idle /\ UNCHANGED ledger
  <2>1. TypeOK'
    BY <1>0, <1>1 DEF ExpireScan, TypeOK
  <2>2. ResourcesLeased' /\ InflightLeased' /\ TokensDistinct' /\ SpentLedgered'
    BY <1>1 DEF ExpireScan, Inductive, ResourcesLeased, InflightLeased, TokensDistinct,
                SpentLedgered, Leased, Used, Live
  <2>3. CreateHoldsHandle' /\ CleanHoldsHandle'
    BY <1>1 DEF Idle, CreateHoldsHandle, CleanHoldsHandle, AfterWrite, BeforeWrite, CleanPCs
  <2>4. ReplacementBound'
    BY DEF ExpireScan, Inductive, ReplacementBound
  <2>5. ASSUME ~LateCreates PROVE NothingLate'
    BY <1>1, <2>5 DEF ExpireScan, Inductive, NothingLate, Idle, Live, Active
  <2> QED
    BY <2>1, <2>2, <2>3, <2>4, <2>5 DEF Inductive
<1>2. ASSUME NEW h \in op.todo,
             ledger' = [ledger EXCEPT ![h] = Observed(ledger[h], Lookup(op.x, ledger[h]))],
             op' = [op EXCEPT !.h = h, !.todo = @ \ {h},
                              !.pc = IF h \in op.late THEN "check" ELSE "scan"]
      PROVE  Inductive'
  <2>1. Touches(h) /\ ledger'[h].state = ledger[h].state
    BY <1>0, <1>2, ObserveTouches
  <2>2. /\ op' \in CleanOps /\ op'.pc \in {"check", "scan"}
        /\ op'.h = h /\ op'.x = op.x /\ op'.todo \subseteq op.todo
    BY <1>0, <1>2 DEF CleanOps, CleanPCs
  <2>3. TypeOK'
    BY <1>0, <2>1, <2>2, TouchFacts DEF ExpireScan, TypeOK
  <2>4. ResourcesLeased' /\ InflightLeased' /\ TokensDistinct' /\ SpentLedgered'
    BY <2>1, TouchKeeps DEF ExpireScan
  <2>5. CreateHoldsHandle' /\ CleanHoldsHandle'
    BY <1>0, <2>1, <2>2, TouchCleanHolds
  <2>6. ReplacementBound'
    BY DEF ExpireScan, Inductive, ReplacementBound
  <2>7. ASSUME ~LateCreates PROVE NothingLate'
    BY <2>1, <2>2, <2>7, TouchNothingLate DEF ExpireScan, NothingLate
  <2> QED
    BY <2>3, <2>4, <2>5, <2>6, <2>7 DEF Inductive
<1> QED
  BY <1>1, <1>2 DEF ExpireScan, Release

(* What a step that ends in CleanFails preserves.                          *)
LEMMA CleanFailsKeeps ==
    ASSUME Inductive, op.pc \in CleanPCs \ {"observe", "scan"}, CleanFails,
           UNCHANGED <<res, inflight, pod, cap, d2, spent, faults>>
    PROVE  Inductive'
<1>0. /\ TypeOK /\ op \in CleanOps /\ op.h \in Handles /\ Used(op.h)
      /\ "cleanup_error" \in Cleanable
  BY OpIsClean DEF Inductive, CleanPCs, CleanHoldsHandle, CleanOps, Cleanable
<1>1. CASE op' = Idle /\ UNCHANGED ledger
  <2>1. TypeOK'
    BY <1>0, <1>1 DEF TypeOK
  <2>2. ResourcesLeased' /\ InflightLeased' /\ TokensDistinct' /\ SpentLedgered'
    BY <1>1 DEF Inductive, ResourcesLeased, InflightLeased, TokensDistinct,
                SpentLedgered, Leased, Used, Live
  <2>3. CreateHoldsHandle' /\ CleanHoldsHandle'
    BY <1>1 DEF Idle, CreateHoldsHandle, CleanHoldsHandle, AfterWrite, BeforeWrite, CleanPCs
  <2>4. ReplacementBound'
    BY DEF Inductive, ReplacementBound
  <2>5. ASSUME ~LateCreates PROVE NothingLate'
    BY <1>1, <2>5 DEF Inductive, NothingLate, Idle, Live, Active
  <2> QED
    BY <2>1, <2>2, <2>3, <2>4, <2>5 DEF Inductive
<1>2. CASE SetState(op.h, "cleanup_error") /\ Goto("scan")
  <2>1. Touches(op.h) /\ ledger'[op.h].state = "cleanup_error"
    BY <1>0, <1>2, SetStateTouches
  <2>2. /\ op' \in CleanOps /\ op'.pc = "scan"
        /\ op'.h = op.h /\ op'.x = op.x /\ op'.todo = op.todo
    BY <1>0, <1>2 DEF Goto, CleanOps, CleanPCs
  <2>3. TypeOK'
    BY <1>0, <2>1, <2>2, TouchFacts DEF TypeOK
  <2>4. ResourcesLeased' /\ InflightLeased' /\ TokensDistinct' /\ SpentLedgered'
    BY <2>1, TouchKeeps
  <2>5. CreateHoldsHandle' /\ CleanHoldsHandle'
    BY <1>0, <2>1, <2>2, TouchCleanHolds
  <2>6. ReplacementBound'
    BY DEF Inductive, ReplacementBound
  <2>7. ASSUME ~LateCreates PROVE NothingLate'
    BY <1>0, <2>1, <2>2, <2>7, TouchNothingLate DEF NothingLate
  <2> QED
    BY <2>3, <2>4, <2>5, <2>6, <2>7 DEF Inductive
<1> QED
  BY <1>1, <1>2 DEF CleanFails, Release

(* CleanCheck preserves the invariant: past it, the resource found is the  *)
(* one the entry describes.                                                *)
LEMMA CleanCheckKeeps ==
    ASSUME Inductive, CleanCheck
    PROVE  Inductive'
<1> DEFINE r == Lookup(op.x, ledger[op.h])
<1>0. TypeOK /\ op \in CleanOps /\ op.pc = "check"
  BY OpIsClean DEF Inductive, CleanCheck, CleanPCs
<1>1. CASE r # NoRes /\ ~Matches(r, ledger[op.h]) /\ CleanFails
  BY <1>0, <1>1, CleanFailsKeeps DEF CleanCheck, CleanPCs
<1>2. CASE /\ r = NoRes \/ Matches(r, ledger[op.h])
           /\ Goto("delete")
           /\ UNCHANGED ledger
  <2>1. /\ op' \in CleanOps /\ op'.pc = "delete"
        /\ op'.h = op.h /\ op'.x = op.x /\ op'.todo = op.todo
    BY <1>0, <1>2 DEF Goto, CleanOps, CleanPCs
  <2>2. TypeOK'
    BY <1>0, <1>2, <2>1 DEF CleanCheck, TypeOK
  <2>3. ResourcesLeased' /\ InflightLeased' /\ TokensDistinct' /\ SpentLedgered'
    BY <1>2 DEF CleanCheck, Inductive, ResourcesLeased, InflightLeased, TokensDistinct,
                SpentLedgered, Leased, Used, Live
  <2>4. CreateHoldsHandle' /\ CleanHoldsHandle'
    BY <1>0, <1>2, <2>1 DEF Inductive, CreateHoldsHandle, CleanHoldsHandle, BeforeWrite,
                            AfterWrite, CleanPCs, Used
  <2>5. ReplacementBound'
    BY DEF CleanCheck, Inductive, ReplacementBound
  <2>6. ASSUME ~LateCreates PROVE NothingLate'
    BY <1>2, <2>1, <2>6 DEF CleanCheck, Inductive, NothingLate, Live, Active,
                            CleanKey, Lookup, Matches
  <2> QED
    BY <2>2, <2>3, <2>4, <2>5, <2>6 DEF Inductive
<1> QED
  BY <1>1, <1>2 DEF CleanCheck

(* CleanDelete preserves the invariant.                                    *)
LEMMA CleanDeleteKeeps ==
    ASSUME Inductive, CleanDelete
    PROVE  Inductive'
<1>0. /\ TypeOK /\ op \in CleanOps /\ op.h \in Handles /\ op.x \in Executors
      /\ Used(op.h) /\ op.pc = "delete"
  BY OpIsClean DEF Inductive, CleanDelete, CleanPCs, CleanHoldsHandle, CleanOps
<1>1. CleanKey \in Keys
  BY <1>0, UsedIsEntry DEF CleanKey, Keys, Entries
<1>2. /\ res' \in [Keys -> Resources \cup {NoRes}]
      /\ \A k \in Keys : res'[k] = res[k] \/ res'[k] = NoRes
      /\ faults' \in Nat
  BY <1>0, <1>1 DEF CleanDelete, TypeOK, Fault
<1>3. /\ op' \in CleanOps /\ op'.pc = "confirm"
      /\ op'.h = op.h /\ op'.x = op.x /\ op'.todo = op.todo
  BY <1>0 DEF CleanDelete, Goto, CleanOps, CleanPCs
<1>4. TypeOK'
  BY <1>0, <1>2, <1>3 DEF CleanDelete, TypeOK
<1>5. ResourcesLeased' /\ InflightLeased' /\ TokensDistinct' /\ SpentLedgered'
  BY <1>2 DEF CleanDelete, Inductive, ResourcesLeased, InflightLeased, TokensDistinct,
              SpentLedgered, Leased, Used, Live
<1>6. CreateHoldsHandle' /\ CleanHoldsHandle'
  BY <1>0, <1>3 DEF CleanDelete, Inductive, CreateHoldsHandle, CleanHoldsHandle,
                    BeforeWrite, AfterWrite, CleanPCs, Used
<1>7. ReplacementBound'
  BY DEF CleanDelete, Inductive, ReplacementBound
<1>8. ASSUME ~LateCreates PROVE NothingLate'
  <2>1. \A x \in Executors : Active(x)' \subseteq Active(x)
    BY <1>2 DEF Active, Keys
  <2> QED
    BY <1>2, <1>3, <1>8, <2>1 DEF CleanDelete, Inductive, NothingLate, Live
<1> QED
  BY <1>4, <1>5, <1>6, <1>7, <1>8 DEF Inductive

(* CleanConfirm preserves the invariant: past it, the resource is absent.  *)
LEMMA CleanConfirmKeeps ==
    ASSUME Inductive, CleanConfirm
    PROVE  Inductive'
<1>0. TypeOK /\ op \in CleanOps /\ op.pc = "confirm"
  BY OpIsClean DEF Inductive, CleanConfirm, CleanPCs
<1>1. CASE res[CleanKey] # NoRes /\ CleanFails
  BY <1>0, <1>1, CleanFailsKeeps DEF CleanConfirm, CleanPCs
<1>2. CASE res[CleanKey] = NoRes /\ Goto("unfence") /\ UNCHANGED ledger
  <2>1. /\ op' \in CleanOps /\ op'.pc = "unfence"
        /\ op'.h = op.h /\ op'.x = op.x /\ op'.todo = op.todo
    BY <1>0, <1>2 DEF Goto, CleanOps, CleanPCs
  <2>2. TypeOK'
    BY <1>0, <1>2, <2>1 DEF CleanConfirm, TypeOK
  <2>3. ResourcesLeased' /\ InflightLeased' /\ TokensDistinct' /\ SpentLedgered'
    BY <1>2 DEF CleanConfirm, Inductive, ResourcesLeased, InflightLeased, TokensDistinct,
                SpentLedgered, Leased, Used, Live
  <2>4. CreateHoldsHandle' /\ CleanHoldsHandle'
    BY <1>0, <1>2, <2>1 DEF Inductive, CreateHoldsHandle, CleanHoldsHandle, BeforeWrite,
                            AfterWrite, CleanPCs, Used
  <2>5. ReplacementBound'
    BY DEF CleanConfirm, Inductive, ReplacementBound
  <2>6. ASSUME ~LateCreates PROVE NothingLate'
    BY <1>2, <2>1, <2>6 DEF CleanConfirm, Inductive, NothingLate, Live, Active, CleanKey
  <2> QED
    BY <2>2, <2>3, <2>4, <2>5, <2>6 DEF Inductive
<1> QED
  BY <1>1, <1>2 DEF CleanConfirm

(* CleanClose preserves the invariant: the entry is closed only over a     *)
(* resource that is gone.                                                  *)
LEMMA CleanCloseKeeps ==
    ASSUME Inductive, CleanClose
    PROVE  Inductive'
<1> DEFINE s == IF op.kind = "destroy" THEN "destroyed" ELSE "expired_cleaned"
           f == [ledger[op.h] EXCEPT !.state = s, !.ended = TRUE]
<1>0. /\ TypeOK /\ op \in CleanOps /\ op.h \in Handles /\ op.x \in Executors
      /\ Used(op.h) /\ op.pc = "close" /\ ledger[op.h].x = op.x
  BY OpIsClean DEF Inductive, CleanClose, CleanPCs, CleanHoldsHandle, CleanOps
<1>1. ledger[op.h] \in Entries
  BY <1>0, UsedIsEntry
<1>2. Touched(ledger[op.h], f)
  BY <1>1 DEF Touched, Entries, States, Closed
<1>3. Touches(op.h)
  <2>1. ledger' = [ledger EXCEPT ![op.h] = f]
    BY DEF CleanClose
  <2> HIDE DEF f
  <2> QED
    BY <1>0, <1>2, <2>1 DEF Touches
<1>4. op' = Idle \/ op' = [op EXCEPT !.pc = "scan"]
  BY DEF CleanClose, Release, Goto
<1>5. TypeOK'
  BY <1>0, <1>3, <1>4, TouchFacts DEF CleanClose, TypeOK, CleanOps, CleanPCs
<1>6. ResourcesLeased' /\ InflightLeased' /\ TokensDistinct' /\ SpentLedgered'
  BY <1>3, TouchKeeps DEF CleanClose
<1>7. CreateHoldsHandle' /\ CleanHoldsHandle'
  BY <1>0, <1>3, <1>4, TouchCleanHolds DEF CleanOps, CleanPCs
<1>8. ReplacementBound'
  BY DEF CleanClose, Inductive, ReplacementBound
<1>9. ASSUME ~LateCreates PROVE NothingLate'
  <2>1. NothingLate /\ res[CleanKey] = NoRes
    BY <1>0, <1>9 DEF Inductive, NothingLate
  <2>2. ASSUME NEW k \in Keys, Live(k)
        PROVE  res[k].by \in Handles /\ res[k].by # op.h
    <3>1. Leased(res[k].by, k[1], k[2], res[k].uid) /\ res[k].by \in Handles
      BY <1>0, <2>2 DEF Inductive, ResourcesLeased, TypeOK, Live, Resources
    <3>2. k = <<k[1], k[2]>>
      BY DEF Keys
    <3> QED
      BY <1>0, <2>1, <2>2, <3>1, <3>2 DEF Leased, CleanKey, Live
  <2>3. \A k \in Keys : Live(k)' => ledger'[res'[k].by].state \in Cleanable
    BY <1>0, <1>3, <2>1, <2>2, TouchFacts DEF CleanClose, NothingLate, Live
  <2>4. op'.pc \in {"idle", "scan"}
    BY <1>0, <1>4 DEF Idle, CleanOps
  <2> QED
    BY <2>1, <2>3, <2>4 DEF CleanClose, NothingLate, Live, Active
<1> QED
  BY <1>5, <1>6, <1>7, <1>8, <1>9 DEF Inductive

(* ScanError preserves the invariant.                                      *)
LEMMA ScanErrorKeeps ==
    ASSUME Inductive, ScanError
    PROVE  Inductive'
<1>0. /\ TypeOK /\ op \in CleanOps /\ op.pc = "scan"
      /\ \A h \in op.todo : h \in Handles /\ Used(h) /\ ledger[h].x = op.x
      /\ "cleanup_error" \in Cleanable
  BY OpIsClean DEF Inductive, ScanError, CleanPCs, CleanHoldsHandle, CleanOps, Cleanable
<1>1. PICK h \in op.todo : /\ SetState(h, "cleanup_error")
                           /\ op' = [op EXCEPT !.h = h, !.todo = @ \ {h}]
  BY DEF ScanError
<1>2. Touches(h) /\ ledger'[h].state = "cleanup_error"
  BY <1>0, <1>1, SetStateTouches
<1>3. /\ op' \in CleanOps /\ op'.pc = "scan" /\ op'.x = op.x
      /\ op'.h = h /\ op'.todo \subseteq op.todo
  BY <1>0, <1>1 DEF CleanOps
<1>4. TypeOK'
  <2>1. faults' \in Nat
    BY <1>0 DEF ScanError, Fault, TypeOK
  <2> QED
    BY <1>0, <1>2, <1>3, <2>1, TouchFacts DEF ScanError, TypeOK
<1>5. ResourcesLeased' /\ InflightLeased' /\ TokensDistinct' /\ SpentLedgered'
  BY <1>2, TouchKeeps DEF ScanError
<1>6. CreateHoldsHandle' /\ CleanHoldsHandle'
  BY <1>0, <1>2, <1>3, TouchCleanHolds
<1>7. ReplacementBound'
  BY DEF ScanError, Inductive, ReplacementBound
<1>8. ASSUME ~LateCreates PROVE NothingLate'
  BY <1>0, <1>2, <1>3, <1>8, TouchNothingLate DEF ScanError, NothingLate
<1> QED
  BY <1>4, <1>5, <1>6, <1>7, <1>8 DEF Inductive

(* ExpireError preserves the invariant.                                    *)
LEMMA ExpireErrorKeeps ==
    ASSUME Inductive, ExpireError
    PROVE  Inductive'
<1>0. /\ TypeOK /\ op \in CleanOps /\ op.h \in Handles /\ Used(op.h)
      /\ "cleanup_error" \in Cleanable
  BY OpIsClean DEF Inductive, ExpireError, CleanPCs, CleanHoldsHandle, CleanOps, Cleanable
<1>1. Touches(op.h) /\ ledger'[op.h].state = "cleanup_error"
  BY <1>0, SetStateTouches DEF ExpireError
<1>2. /\ op' \in CleanOps /\ op'.pc = "scan" /\ op'.x = op.x
      /\ op'.h = op.h /\ op'.todo = op.todo
  BY <1>0 DEF ExpireError, Goto, CleanOps, CleanPCs
<1>3. TypeOK'
  <2>1. faults' \in Nat
    BY <1>0 DEF ExpireError, Fault, TypeOK
  <2> QED
    BY <1>0, <1>1, <1>2, <2>1, TouchFacts DEF ExpireError, TypeOK
<1>4. ResourcesLeased' /\ InflightLeased' /\ TokensDistinct' /\ SpentLedgered'
  BY <1>1, TouchKeeps DEF ExpireError
<1>5. CreateHoldsHandle' /\ CleanHoldsHandle'
  BY <1>0, <1>1, <1>2, TouchCleanHolds
<1>6. ReplacementBound'
  BY DEF ExpireError, Inductive, ReplacementBound
<1>7. ASSUME ~LateCreates PROVE NothingLate'
  BY <1>0, <1>1, <1>2, <1>7, TouchNothingLate DEF ExpireError, NothingLate
<1> QED
  BY <1>3, <1>4, <1>5, <1>6, <1>7 DEF Inductive

(* CreateCommit preserves the invariant.                                   *)
LEMMA CreateCommitKeeps ==
    ASSUME Inductive, CreateCommit
    PROVE  Inductive'
<1> DEFINE f == [ledger[op.h] EXCEPT !.state = "active",
                                     !.started = (op.pc = "commit_running")]
<1>0. /\ TypeOK /\ op \in CreateOps /\ op.h \in Handles /\ Used(op.h)
  BY OpIsCreate DEF Inductive, CreateCommit, CreatePCs, CreateHoldsHandle, CreateOps,
                    AfterWrite, Leased
<1>1. ledger[op.h] \in Entries
  BY <1>0, UsedIsEntry
<1>2. Touched(ledger[op.h], f) /\ f.state = "active"
  BY <1>1 DEF Touched, Entries, States, Cleanable
<1>3. Touches(op.h) /\ ledger'[op.h].state \in Cleanable
  <2>1. ledger' = [ledger EXCEPT ![op.h] = f]
    BY DEF CreateCommit
  <2> HIDE DEF f
  <2> QED
    BY <1>0, <1>2, <2>1 DEF Touches, TypeOK, Cleanable
<1>4. TypeOK'
  BY <1>0, <1>3, TouchFacts DEF CreateCommit, Release, TypeOK
<1>5. ResourcesLeased' /\ InflightLeased' /\ TokensDistinct' /\ SpentLedgered'
  BY <1>3, TouchKeeps DEF CreateCommit
<1>6. CreateHoldsHandle' /\ CleanHoldsHandle'
  BY DEF CreateCommit, Release, Idle, CreateHoldsHandle, CleanHoldsHandle, AfterWrite,
         BeforeWrite, CleanPCs
<1>7. ReplacementBound'
  BY DEF CreateCommit, Inductive, ReplacementBound
<1>8. ASSUME ~LateCreates PROVE NothingLate'
  BY <1>3, <1>8, TouchNothingLate DEF CreateCommit, Release, Idle, NothingLate
<1> QED
  BY <1>4, <1>5, <1>6, <1>7, <1>8 DEF Inductive

(* CreateFailed preserves the invariant: a failed create stays cleanable.  *)
LEMMA CreateFailedKeeps ==
    ASSUME Inductive, CreateFailed
    PROVE  Inductive'
<1>0. /\ TypeOK /\ op \in CreateOps /\ op.h \in Handles /\ Used(op.h)
      /\ Leased(op.h, op.x, op.name, op.uid) /\ ledger[op.h].tok = op.tok
      /\ "create_failed" \in Cleanable
  BY OpIsCreate DEF Inductive, CreateFailed, CreatePCs, CreateHoldsHandle, CreateOps,
                    AfterWrite, Leased, Cleanable
<1>1. Touches(op.h) /\ ledger'[op.h].state = "create_failed"
  BY <1>0, SetStateTouches DEF CreateFailed
<1>2. /\ op' \in CreateOps /\ op'.pc = "unwind" /\ op'.h = op.h /\ op'.x = op.x
      /\ op'.name = op.name /\ op'.uid = op.uid /\ op'.tok = op.tok
  BY <1>0 DEF CreateFailed, Goto, CreateOps, CreatePCs
<1>3. TypeOK'
  BY <1>0, <1>1, <1>2, TouchFacts DEF CreateFailed, TypeOK
<1>4. ResourcesLeased' /\ InflightLeased' /\ TokensDistinct' /\ SpentLedgered'
  BY <1>1, TouchKeeps DEF CreateFailed
<1>5. CreateHoldsHandle' /\ CleanHoldsHandle'
  <2>1. Touched(ledger[op.h], ledger'[op.h]) /\ Used(op.h)'
    BY <1>0, <1>1, <1>2, TouchFacts DEF Used
  <2> QED
    BY <1>0, <1>1, <1>2, <2>1 DEF CreateHoldsHandle, CleanHoldsHandle, BeforeWrite,
                                  CleanPCs, Leased, Touched, Used
<1>6. ReplacementBound'
  BY DEF CreateFailed, Inductive, ReplacementBound
<1>7. ASSUME ~LateCreates PROVE NothingLate'
  BY <1>0, <1>1, <1>2, <1>7, TouchNothingLate DEF CreateFailed, NothingLate
<1> QED
  BY <1>3, <1>4, <1>5, <1>6, <1>7 DEF Inductive

(* DeadlinePasses preserves the invariant at any point of any operation.   *)
LEMMA DeadlinePassesKeeps ==
    ASSUME Inductive, NEW h \in Handles, DeadlinePasses(h)
    PROVE  Inductive'
<1> DEFINE f == [ledger[h] EXCEPT !.due = TRUE]
<1>0. TypeOK /\ Used(h) /\ ledger[h] \in Entries
  BY UsedIsEntry DEF Inductive, DeadlinePasses
<1>1. Touched(ledger[h], f) /\ f.state = ledger[h].state
  BY <1>0 DEF Touched, Entries
<1>2. Touches(h) /\ ledger'[h] = f
  <2>1. ledger' = [ledger EXCEPT ![h] = f]
    BY DEF DeadlinePasses
  <2> HIDE DEF f
  <2> QED
    BY <1>0, <1>1, <2>1 DEF Touches, TypeOK
<1>3. TypeOK'
  BY <1>0, <1>2, TouchFacts DEF DeadlinePasses, TypeOK
<1>4. ResourcesLeased' /\ InflightLeased' /\ TokensDistinct' /\ SpentLedgered'
  BY <1>2, TouchKeeps DEF DeadlinePasses
<1>5. \A g \in Handles :
         /\ Used(g)' <=> Used(g)
         /\ Used(g) => /\ ledger'[g].x = ledger[g].x /\ ledger'[g].name = ledger[g].name
                       /\ ledger'[g].uid = ledger[g].uid /\ ledger'[g].tok = ledger[g].tok
                       /\ ledger'[g].state = ledger[g].state
  <2> HIDE DEF f
  <2> QED
    BY <1>0, <1>1, <1>2, TouchFacts DEF Touched
<1>6. CreateHoldsHandle'
  <2>1. CASE op.pc \in CreatePCs
    <3>1. op \in CreateOps /\ op.h \in Handles
      BY <1>0, <2>1, OpIsCreate DEF CreateOps
    <3> QED
      BY <1>5, <3>1 DEF DeadlinePasses, Inductive, CreateHoldsHandle, Leased, Retriable,
                        TokenUnused, Used
  <2>2. CASE op.pc \notin CreatePCs
    BY <2>2 DEF DeadlinePasses, CreateHoldsHandle, CreatePCs, BeforeWrite, AfterWrite
  <2> QED
    BY <2>1, <2>2
<1>7. CleanHoldsHandle'
  <2>1. CASE op.pc \in CleanPCs
    <3>1. op \in CleanOps /\ op.h \in Handles /\ op.todo \subseteq Handles
      BY <1>0, <2>1, OpIsClean DEF CleanOps
    <3> QED
      BY <1>5, <3>1 DEF DeadlinePasses, Inductive, CleanHoldsHandle, Used
  <2>2. CASE op.pc \notin CleanPCs
    BY <2>2 DEF DeadlinePasses, CleanHoldsHandle
  <2> QED
    BY <2>1, <2>2
<1>8. ReplacementBound'
  BY DEF DeadlinePasses, Inductive, ReplacementBound
<1>9. ASSUME ~LateCreates PROVE NothingLate'
  <2>1. ledger'[h].state = ledger[h].state
    BY <1>0, <1>5
  <2>2. op.pc \in {"unfence", "close", "delete"} =>
           CleanKey' = CleanKey /\ ledger'[op.h].uid = ledger[op.h].uid
    <3> SUFFICES ASSUME op.pc \in {"unfence", "close", "delete"}
                 PROVE  CleanKey' = CleanKey /\ ledger'[op.h].uid = ledger[op.h].uid
      OBVIOUS
    <3>1. op.h \in Handles /\ Used(op.h)
      BY <1>0, OpIsClean DEF CleanPCs, CleanOps, Inductive, CleanHoldsHandle
    <3> QED
      BY <1>5, <3>1 DEF DeadlinePasses, CleanKey
  <2>3. NothingLate
    BY <1>9 DEF Inductive
  <2>4. /\ inflight' = {}
        /\ \A k \in Keys : Live(k)' => ledger'[res'[k].by].state \in Cleanable
        /\ \A x \in Executors : \A m, n \in Active(x)' : m = n
    BY <1>2, <1>9, <2>1, TouchNothingLate DEF DeadlinePasses
  <2> QED
    BY <2>2, <2>3, <2>4 DEF DeadlinePasses, NothingLate, Active
<1> QED
  BY <1>3, <1>4, <1>6, <1>7, <1>8, <1>9 DEF Inductive

-----------------------------------------------------------------------------
(***************************************************************************)
(* The steps that write a new entry, a new resource or a new request.      *)
(***************************************************************************)
(* A create writes its entry over nothing, or over a D6-A entry that never *)
(* had a resource, a request or a create.                                  *)
LEMMA NewEntryKeeps ==
    ASSUME Inductive, op.pc \in BeforeWrite,
           NEW s \in {"pending_apply", "operation_outcome_unknown"},
           ledger' = [ledger EXCEPT ![op.h] = NewEntry(s)],
           UNCHANGED <<res, inflight, spent>>
    PROVE  /\ ResourcesLeased' /\ InflightLeased' /\ TokensDistinct' /\ SpentLedgered'
           /\ ledger' \in [Handles -> Entries \cup {NoEntry}]
           /\ ledger'[op.h] = NewEntry(s) /\ NewEntry(s) \in Entries
           /\ \A q \in spent : q[1] # op.h
           /\ ~LateCreates =>
                /\ inflight' = {}
                /\ \A k \in Keys : Live(k)' => ledger'[res'[k].by].state \in Cleanable
                /\ \A x \in Executors : \A m, n \in Active(x)' : m = n
<1>0. /\ TypeOK /\ op \in CreateOps /\ op.h \in Handles
      /\ Used(op.h) => ledger[op.h].state = "operation_outcome_unknown"
      /\ TokenUnused(op.h, op.tok)
  BY OpIsCreate DEF Inductive, BeforeWrite, CreatePCs, CreateOps, CreateHoldsHandle,
                    Retriable
<1>1. NewEntry(s) \in Entries
  BY <1>0 DEF NewEntry, Entries, CreateOps, States, Cleanable
<1>2. /\ ledger' \in [Handles -> Entries \cup {NoEntry}]
      /\ ledger'[op.h] = NewEntry(s)
      /\ \A g \in Handles : g # op.h => ledger'[g] = ledger[g]
  BY <1>0, <1>1 DEF TypeOK
<1>3. \A h, x, n, uid : h \in Handles /\ Leased(h, x, n, uid) =>
         h # op.h /\ Leased(h, x, n, uid)'
  BY <1>0, <1>2 DEF Leased, Used
<1>4. \A k \in Keys : Live(k) => /\ res[k].by \in Handles
                                 /\ Leased(res[k].by, k[1], k[2], res[k].uid)
  BY <1>0 DEF TypeOK, Live, Resources, Inductive, ResourcesLeased
<1>5. ResourcesLeased'
  <2> SUFFICES ASSUME NEW k \in Keys, Live(k)
               PROVE  Leased(res[k].by, k[1], k[2], res[k].uid)'
    BY DEF ResourcesLeased, Live
  <2> QED
    BY <1>0, <1>2, <1>4 DEF Leased, Used
<1>6. InflightLeased'
  <2> SUFFICES ASSUME NEW c \in inflight
               PROVE  Leased(c.by, c.key[1], c.key[2], c.uid)'
    BY DEF InflightLeased
  <2>1. c.by \in Handles /\ Leased(c.by, c.key[1], c.key[2], c.uid)
    BY <1>0 DEF TypeOK, Requests, Inductive, InflightLeased
  <2> QED
    BY <1>0, <1>2, <2>1 DEF Leased, Used
<1>7. TokensDistinct'
  <2>1. NewEntry(s).tok = op.tok
    BY DEF NewEntry
  <2> QED
    BY <1>0, <1>2, <2>1 DEF Inductive, TokensDistinct, TokenUnused, Used
<1>8. \A q \in spent : q[1] \in Handles /\ q[1] # op.h
  BY <1>0 DEF TypeOK, Inductive, SpentLedgered
<1>9. SpentLedgered'
  BY <1>2, <1>8 DEF Inductive, SpentLedgered, Used
<1>10. ASSUME ~LateCreates
       PROVE  /\ inflight' = {}
              /\ \A k \in Keys : Live(k)' => ledger'[res'[k].by].state \in Cleanable
              /\ \A x \in Executors : \A m, n \in Active(x)' : m = n
  <2>1. \A k \in Keys : Live(k) => res[k].by \in Handles /\ res[k].by # op.h
    BY <1>0, <1>4 DEF Leased
  <2> QED
    BY <1>2, <1>10, <2>1 DEF Inductive, NothingLate, Live, Active
<1> QED
  BY <1>1, <1>2, <1>5, <1>6, <1>7, <1>8, <1>9, <1>10

(* CreateWriteAhead preserves the invariant.                               *)
LEMMA CreateWriteAheadKeeps ==
    ASSUME Inductive, CreateWriteAhead
    PROVE  Inductive'
<1>0. /\ TypeOK /\ op \in CreateOps /\ op.h \in Handles /\ op.pc = "write"
      /\ op.pc \in BeforeWrite
  BY OpIsCreate DEF Inductive, CreateWriteAhead, CreatePCs, CreateOps, BeforeWrite
<1>1. CASE Goto("d6a_clear") /\ UNCHANGED ledger
  <2>1. /\ op' \in CreateOps /\ op'.pc = "d6a_clear" /\ op'.h = op.h
        /\ op'.x = op.x /\ op'.tok = op.tok
    BY <1>0, <1>1 DEF Goto, CreateOps, CreatePCs
  <2>2. TypeOK'
    BY <1>0, <1>1, <2>1 DEF CreateWriteAhead, TypeOK
  <2>3. ResourcesLeased' /\ InflightLeased' /\ TokensDistinct' /\ SpentLedgered'
    BY <1>1 DEF CreateWriteAhead, Inductive, ResourcesLeased, InflightLeased,
                TokensDistinct, SpentLedgered, Leased, Used, Live
  <2>4. CreateHoldsHandle' /\ CleanHoldsHandle'
    BY <1>0, <1>1, <2>1 DEF Inductive, CreateHoldsHandle, CleanHoldsHandle, BeforeWrite,
                            AfterWrite, CleanPCs, Used, Retriable, TokenUnused
  <2>5. ReplacementBound'
    BY DEF CreateWriteAhead, Inductive, ReplacementBound
  <2>6. ASSUME ~LateCreates PROVE NothingLate'
    BY <1>0, <1>1, <2>1, <2>6 DEF CreateWriteAhead, Inductive, NothingLate, Live, Active
  <2> QED
    BY <2>2, <2>3, <2>4, <2>5, <2>6 DEF Inductive
<1>2. CASE /\ ledger' = [ledger EXCEPT ![op.h] = NewEntry("pending_apply")]
           /\ Goto("apply")
  <2>1. /\ op' \in CreateOps /\ op'.pc = "apply" /\ op'.h = op.h /\ op'.x = op.x
        /\ op'.name = op.name /\ op'.uid = op.uid /\ op'.tok = op.tok
    BY <1>0, <1>2 DEF Goto, CreateOps, CreatePCs
  <2>2. /\ ResourcesLeased' /\ InflightLeased' /\ TokensDistinct' /\ SpentLedgered'
        /\ ledger' \in [Handles -> Entries \cup {NoEntry}]
        /\ ledger'[op.h] = NewEntry("pending_apply")
        /\ NewEntry("pending_apply") \in Entries
        /\ \A q \in spent : q[1] # op.h
    BY <1>0, <1>2, NewEntryKeeps DEF CreateWriteAhead
  <2>3. TypeOK'
    BY <1>0, <2>1, <2>2 DEF CreateWriteAhead, TypeOK
  <2>4. CreateHoldsHandle' /\ CleanHoldsHandle'
    <3>1. ledger'[op.h] # NoEntry
      BY <2>2, EntryIsUsed
    <3> QED
      BY <2>1, <2>2, <3>1 DEF CreateWriteAhead, CreateHoldsHandle, CleanHoldsHandle,
                              BeforeWrite, CleanPCs, Leased, Used, NewEntry, Cleanable
  <2>5. ReplacementBound'
    BY DEF CreateWriteAhead, Inductive, ReplacementBound
  <2>6. ASSUME ~LateCreates PROVE NothingLate'
    <3>1. Active(op.x) = {}
      BY <1>0, <2>6 DEF Inductive, NothingLate
    <3>2. /\ inflight' = {}
          /\ \A k \in Keys : Live(k)' => ledger'[res'[k].by].state \in Cleanable
          /\ \A x \in Executors : \A m, n \in Active(x)' : m = n
      BY <1>0, <1>2, <2>6, NewEntryKeeps DEF CreateWriteAhead
    <3> QED
      BY <2>1, <3>1, <3>2 DEF CreateWriteAhead, NothingLate, Active
  <2> QED
    BY <2>2, <2>3, <2>4, <2>5, <2>6 DEF Inductive
<1> QED
  BY <1>1, <1>2 DEF CreateWriteAhead

(* D6AWrite preserves the invariant.                                       *)
LEMMA D6AWriteKeeps ==
    ASSUME Inductive, D6AWrite
    PROVE  Inductive'
<1>0. TypeOK /\ op.pc \in BeforeWrite
  BY DEF Inductive, D6AWrite, BeforeWrite
<1>1. /\ ResourcesLeased' /\ InflightLeased' /\ TokensDistinct' /\ SpentLedgered'
      /\ ledger' \in [Handles -> Entries \cup {NoEntry}]
  BY <1>0, NewEntryKeeps DEF D6AWrite
<1>2. TypeOK'
  BY <1>0, <1>1 DEF D6AWrite, Release, TypeOK
<1>3. CreateHoldsHandle' /\ CleanHoldsHandle'
  BY DEF D6AWrite, Release, Idle, CreateHoldsHandle, CleanHoldsHandle, AfterWrite,
         BeforeWrite, CleanPCs
<1>4. ReplacementBound'
  BY DEF D6AWrite, Inductive, ReplacementBound
<1>5. ASSUME ~LateCreates PROVE NothingLate'
  <2>1. /\ inflight' = {}
        /\ \A k \in Keys : Live(k)' => ledger'[res'[k].by].state \in Cleanable
        /\ \A x \in Executors : \A m, n \in Active(x)' : m = n
    BY <1>0, <1>5, NewEntryKeeps DEF D6AWrite
  <2> QED
    BY <2>1 DEF D6AWrite, Release, Idle, NothingLate
<1> QED
  BY <1>1, <1>2, <1>3, <1>4, <1>5 DEF Inductive

(* CreateApply preserves the invariant, whichever way the call ends.       *)
LEMMA CreateApplyKeeps ==
    ASSUME Inductive, CreateApply
    PROVE  Inductive'
<1>0. /\ TypeOK /\ op \in CreateOps /\ op.pc = "apply"
      /\ op.h \in Handles /\ op.x \in Executors /\ op.name \in Names
      /\ op.uid \in Uids /\ op.tok \in Tokens
      /\ Leased(op.h, op.x, op.name, op.uid) /\ ledger[op.h].tok = op.tok
      /\ ledger[op.h].state \in Cleanable
  BY OpIsCreate DEF Inductive, CreateApply, CreatePCs, CreateOps, CreateHoldsHandle,
                    AfterWrite
<1>1. OpKey \in Keys /\ OpKey[1] = op.x /\ OpKey[2] = op.name
  BY <1>0 DEF OpKey, Keys
<1>2. PICK pc \in {"commit", "commit_running", "failed"} : op' = [op EXCEPT !.pc = pc]
  BY DEF CreateApply, Goto
<1>3. /\ op' \in CreateOps /\ op'.pc = pc /\ op'.h = op.h /\ op'.x = op.x
      /\ op'.name = op.name /\ op'.uid = op.uid /\ op'.tok = op.tok
  BY <1>0, <1>2 DEF CreateOps, CreatePCs
<1>4. \/ res' = res
      \/ \E ph \in Phases : /\ res[OpKey] = NoRes
                            /\ res' = [res EXCEPT ![OpKey] = NewRes(ph)]
  BY DEF CreateApply, Phases
<1>5. \/ inflight' = inflight
      \/ /\ LateCreates
         /\ inflight' = inflight \cup {[key |-> OpKey, uid |-> op.uid, by |-> op.h]}
  BY DEF CreateApply
<1>6. spent' = spent \cup {<<op.h, op.tok>>}
  BY DEF CreateApply
<1>7. UNCHANGED <<ledger, pod, cap, d2>>
  BY DEF CreateApply
<1>8. TypeOK'
  <2>1. res' \in [Keys -> Resources \cup {NoRes}]
    BY <1>0, <1>1, <1>4 DEF TypeOK, NewRes, Resources
  <2>2. inflight' \subseteq Requests
    BY <1>0, <1>1, <1>5 DEF TypeOK, Requests
  <2>3. spent' \subseteq Handles \X Tokens
    BY <1>0, <1>6 DEF TypeOK
  <2>4. faults' \in Nat
    <3>1. faults' = faults \/ faults' = faults + 1
      BY DEF CreateApply, Fault
    <3> QED
      BY <1>0, <3>1 DEF TypeOK
  <2> QED
    BY <1>0, <1>3, <1>7, <2>1, <2>2, <2>3, <2>4 DEF TypeOK
<1>9. \A k \in Keys : \/ res'[k] = res[k]
                       \/ /\ k = OpKey /\ res[k] = NoRes
                          /\ res'[k].by = op.h /\ res'[k].uid = op.uid
  <2> SUFFICES ASSUME NEW k \in Keys, res'[k] # res[k]
               PROVE  /\ k = OpKey /\ res[k] = NoRes
                      /\ res'[k].by = op.h /\ res'[k].uid = op.uid
    OBVIOUS
  <2>1. PICK ph \in Phases : res[OpKey] = NoRes /\ res' = [res EXCEPT ![OpKey] = NewRes(ph)]
    BY <1>4
  <2>2. res'[k] = IF k = OpKey THEN NewRes(ph) ELSE res[k]
    BY <1>0, <2>1 DEF TypeOK
  <2>3. NewRes(ph).by = op.h /\ NewRes(ph).uid = op.uid
    BY DEF NewRes
  <2> QED
    BY <2>1, <2>2, <2>3
<1>10. ResourcesLeased'
  <2> SUFFICES ASSUME NEW k \in Keys, res'[k] # NoRes
               PROVE  Leased(res[k].by, k[1], k[2], res[k].uid)'
    BY DEF ResourcesLeased, Live
  <2>1. CASE res'[k] = res[k]
    BY <1>7, <2>1 DEF Inductive, ResourcesLeased, Leased, Live, Used
  <2>2. CASE k = OpKey /\ res'[k].by = op.h /\ res'[k].uid = op.uid
    BY <1>0, <1>1, <1>7, <2>2 DEF Leased, Used
  <2> QED
    BY <1>9, <2>1, <2>2
<1>11. InflightLeased'
  <2> SUFFICES ASSUME NEW c \in inflight'
               PROVE  Leased(c.by, c.key[1], c.key[2], c.uid)'
    BY DEF InflightLeased
  <2>1. c \in inflight \/ c = [key |-> OpKey, uid |-> op.uid, by |-> op.h]
    BY <1>5
  <2>2. Leased(c.by, c.key[1], c.key[2], c.uid)
    BY <1>0, <1>1, <2>1 DEF Inductive, InflightLeased
  <2> QED
    BY <1>7, <2>2 DEF Leased, Used
<1>12. TokensDistinct' /\ ReplacementBound'
  BY <1>7 DEF Inductive, TokensDistinct, ReplacementBound, Used
<1>13. SpentLedgered'
  <2> SUFFICES ASSUME NEW q \in spent'
               PROVE  (/\ Used(q[1])
                       /\ ledger[q[1]].tok = q[2]
                       /\ ledger[q[1]].state # "operation_outcome_unknown")'
    BY DEF SpentLedgered
  <2>1. q \in spent \/ q = <<op.h, op.tok>>
    BY <1>6
  <2> QED
    BY <1>0, <1>7, <2>1 DEF Inductive, SpentLedgered, Leased, Used
<1>14. CreateHoldsHandle' /\ CleanHoldsHandle'
  BY <1>0, <1>3, <1>7 DEF CreateHoldsHandle, CleanHoldsHandle, BeforeWrite, AfterWrite,
                          CleanPCs, Leased, Used
<1>15. ASSUME ~LateCreates PROVE NothingLate'
  <2>1. NothingLate /\ Active(op.x) = {}
    BY <1>0, <1>15 DEF Inductive, NothingLate
  <2>2. \A k \in Keys : Live(k)' => ledger'[res'[k].by].state \in Cleanable
    BY <1>0, <1>7, <1>9, <2>1 DEF NothingLate, Live
  <2>3. ASSUME NEW x \in Executors, NEW m \in Active(x)', NEW n \in Active(x)'
        PROVE  m = n
    <3>1. m \in Names /\ n \in Names /\ <<x, m>> \in Keys /\ <<x, n>> \in Keys
      BY <2>3 DEF Active, Keys
    <3>2. /\ <<x, m>> = OpKey => x = op.x /\ m = op.name
          /\ <<x, n>> = OpKey => x = op.x /\ n = op.name
      BY DEF OpKey
    <3>3. \A j \in Names : <<x, j>> \in Keys /\ j \in Active(x)' =>
             j \in Active(x) \/ <<x, j>> = OpKey
      BY <1>9 DEF Active
    <3> QED
      BY <2>1, <2>3, <3>1, <3>2, <3>3 DEF NothingLate
  <2>4. inflight' = {}
    BY <1>5, <1>15, <2>1 DEF NothingLate
  <2> QED
    BY <1>3, <2>2, <2>3, <2>4 DEF NothingLate
<1> QED
  BY <1>8, <1>10, <1>11, <1>12, <1>13, <1>14, <1>15 DEF Inductive

(* Advance preserves the invariant: phases only move towards Terminal.     *)
LEMMA AdvanceKeeps ==
    ASSUME Inductive, NEW k \in Keys, Advance(k)
    PROVE  Inductive'
<1> DEFINE r == [res[k] EXCEPT !.phase = IF @ = "Pending" THEN "Running" ELSE "Terminal"]
<1>0. TypeOK /\ res[k] \in Resources /\ res[k].phase # "Terminal" /\ res[k] # NoRes
  BY DEF Inductive, Advance, TypeOK
<1>1. r \in Resources /\ r.by = res[k].by /\ r.uid = res[k].uid
  BY <1>0 DEF Resources, Phases
<1>2. res' = [res EXCEPT ![k] = r] /\ UNCHANGED <<ledger, inflight, pod, cap, d2, op, spent, faults>>
  BY DEF Advance
<1> HIDE DEF r
<1>3. /\ res'[k] = r /\ \A j \in Keys : j # k => res'[j] = res[j]
      /\ res' \in [Keys -> Resources \cup {NoRes}]
  BY <1>0, <1>1, <1>2 DEF TypeOK
<1>4. TypeOK'
  BY <1>0, <1>2, <1>3 DEF TypeOK
<1>5. ResourcesLeased'
  BY <1>0, <1>1, <1>2, <1>3 DEF Inductive, ResourcesLeased, Leased, Used, Live
<1>6. /\ InflightLeased' /\ TokensDistinct' /\ SpentLedgered' /\ ReplacementBound'
      /\ CreateHoldsHandle' /\ CleanHoldsHandle'
  BY <1>2 DEF Inductive, InflightLeased, TokensDistinct, SpentLedgered, ReplacementBound,
              CreateHoldsHandle, CleanHoldsHandle, Leased, Used, Retriable, TokenUnused
<1>7. ASSUME ~LateCreates PROVE NothingLate'
  <2>1. NothingLate
    BY <1>7 DEF Inductive
  <2>2. \A x \in Executors : Active(x)' \subseteq Active(x)
    BY <1>0, <1>3 DEF Active, Keys
  <2>3. \A j \in Keys : Live(j)' => ledger'[res'[j].by].state \in Cleanable
    BY <1>0, <1>1, <1>2, <1>3, <2>1 DEF NothingLate, Live
  <2>4. op.pc \in {"unfence", "close"} => res'[CleanKey] = NoRes
    <3> SUFFICES ASSUME op.pc \in {"unfence", "close"} PROVE res'[CleanKey] = NoRes
      OBVIOUS
    <3>1. CleanKey \in Keys
      BY <1>0, OpIsClean, UsedIsEntry DEF CleanPCs, CleanOps, Inductive, CleanHoldsHandle,
                                          CleanKey, Keys, Entries
    <3> QED
      BY <1>0, <1>3, <2>1, <3>1 DEF NothingLate
  <2>5. op.pc = "delete" => CleanKey \in Keys
    BY <1>0, OpIsClean, UsedIsEntry DEF CleanPCs, CleanOps, Inductive, CleanHoldsHandle,
                                        CleanKey, Keys, Entries
  <2>6. op.pc = "delete" /\ res'[CleanKey] # NoRes => res'[CleanKey].uid = ledger[op.h].uid
    BY <1>0, <1>1, <1>3, <2>1, <2>5 DEF NothingLate
  <2>7. op.pc \in {"fence", "write", "d6a_clear", "d6a_write", "apply"} => op.x \in Executors
    BY <1>0, OpIsCreate DEF CreatePCs, CreateOps
  <2> QED
    BY <1>2, <2>1, <2>2, <2>3, <2>4, <2>6, <2>7 DEF NothingLate, CleanKey
<1> QED
  BY <1>4, <1>5, <1>6, <1>7 DEF Inductive

(* Land preserves the invariant: the entry of a late create is still there. *)
LEMMA LandKeeps ==
    ASSUME Inductive, NEW c \in inflight, Land(c)
    PROVE  Inductive'
<1>0. /\ TypeOK /\ c \in Requests /\ c.key \in Keys
      /\ Leased(c.by, c.key[1], c.key[2], c.uid)
  BY DEF Inductive, TypeOK, Requests, InflightLeased
<1>1. /\ inflight' \subseteq inflight
      /\ UNCHANGED <<ledger, pod, cap, d2, op, spent, faults>>
  BY DEF Land
<1> DEFINE r == [phase |-> "Pending", uid |-> c.uid, by |-> c.by]
<1>2. r \in Resources /\ r.uid = c.uid /\ r.by = c.by
  BY <1>0 DEF Resources, Requests, Phases
<1>3. res' = res \/ res' = [res EXCEPT ![c.key] = r]
  BY DEF Land
<1> HIDE DEF r
<1>4. /\ res' \in [Keys -> Resources \cup {NoRes}]
      /\ \A k \in Keys : res'[k] = res[k] \/ (k = c.key /\ res'[k] = r)
  <2>1. CASE res' = res
    BY <1>0, <2>1 DEF TypeOK
  <2>2. CASE res' = [res EXCEPT ![c.key] = r]
    BY <1>0, <1>2, <2>2 DEF TypeOK
  <2> QED
    BY <1>3, <2>1, <2>2
<1>5. TypeOK'
  BY <1>0, <1>1, <1>4 DEF TypeOK
<1>6. ResourcesLeased'
  BY <1>0, <1>1, <1>2, <1>4 DEF Inductive, ResourcesLeased, Leased, Used, Live
<1>7. /\ InflightLeased' /\ TokensDistinct' /\ SpentLedgered' /\ ReplacementBound'
      /\ CreateHoldsHandle' /\ CleanHoldsHandle'
  BY <1>1 DEF Inductive, InflightLeased, TokensDistinct, SpentLedgered, ReplacementBound,
              CreateHoldsHandle, CleanHoldsHandle, Leased, Used, Retriable, TokenUnused
<1>8. ASSUME ~LateCreates PROVE FALSE
  BY <1>8 DEF Inductive, NothingLate
<1> QED
  BY <1>5, <1>6, <1>7, <1>8 DEF Inductive

-----------------------------------------------------------------------------
(***************************************************************************)
(* The theorems                                                            *)
(***************************************************************************)
(* Before the first request the invariant holds.                           *)
LEMMA InitInductive == Init => Inductive
<1> SUFFICES ASSUME Init PROVE Inductive
  OBVIOUS
<1>1. TypeOK
  BY ConstantsAssumption DEF Init, TypeOK, Uids, Bindings
<1>2. /\ \A h \in Handles : ~Used(h)
      /\ \A k \in Keys : ~Live(k)
      /\ \A x \in Executors : Active(x) = {}
  BY DEF Init, Used, Live, Active, Keys
<1>3. /\ ResourcesLeased /\ InflightLeased /\ TokensDistinct /\ SpentLedgered
      /\ ReplacementBound /\ NothingLate
  BY <1>2 DEF Init, Idle, ResourcesLeased, InflightLeased, TokensDistinct, SpentLedgered,
              ReplacementBound, NothingLate
<1>4. CreateHoldsHandle /\ CleanHoldsHandle
  BY DEF Init, Idle, CreateHoldsHandle, CleanHoldsHandle, BeforeWrite, AfterWrite, CleanPCs
<1> QED
  BY <1>1, <1>3, <1>4 DEF Inductive

(* Every step of every actor preserves the invariant.                      *)
LEMMA NextInductive == Inductive /\ [Next]_vars => Inductive'
<1> SUFFICES ASSUME Inductive, [Next]_vars PROVE Inductive'
  OBVIOUS
<1>1. CASE Calls
  BY <1>1, CreateBeginKeeps, StatusKeeps, DestroyBeginKeeps, ExpireBeginKeeps DEF Calls
<1>2. CASE CreateSteps
  BY <1>2, CreateVerifyKeeps, CreateListKeeps, CreateFenceKeeps, CreateWriteAheadKeeps,
     D6AClearKeeps, D6AWriteKeeps, CreateApplyKeeps, CreateCommitKeeps, CreateFailedKeeps,
     CreateUnwindKeeps, CreateUnwindClearKeeps DEF CreateSteps
<1>3. CASE CleanSteps
  BY <1>3, DestroyObserveKeeps, ExpireScanKeeps, CleanCheckKeeps, CleanDeleteKeeps,
     CleanConfirmKeeps, CleanUnfenceKeeps, CleanCloseKeeps DEF CleanSteps
<1>4. CASE ScanError \/ ExpireError \/ Abort
  BY <1>4, ScanErrorKeeps, ExpireErrorKeeps, AbortKeeps
<1>5. CASE Environment
  BY <1>5, D2Keeps, AdvanceKeeps, LandKeeps, DeadlinePassesKeeps DEF Environment
<1>6. CASE UNCHANGED vars
  BY <1>6 DEF vars, Inductive, TypeOK, ResourcesLeased, InflightLeased, TokensDistinct,
              SpentLedgered, CreateHoldsHandle, CleanHoldsHandle, ReplacementBound,
              NothingLate, Leased, Used, Live, Active, Retriable, TokenUnused, CleanKey
<1> QED
  BY <1>1, <1>2, <1>3, <1>4, <1>5, <1>6 DEF Next

(* The inductive invariant holds in every reachable state.                 *)
THEOREM InductiveHolds == Spec => []Inductive
BY InitInductive, NextInductive, PTL DEF Spec

(* Every variable keeps its type: in particular no step writes a ledger    *)
(* file that lacks the fields the next operation reads.                    *)
THEOREM TypeCorrect == Spec => []TypeOK
<1>1. Inductive => TypeOK
  BY DEF Inductive
<1> QED
  BY <1>1, InductiveHolds, PTL

(* Every resource in the cluster is described by the ledger entry of the   *)
(* handle that created it (write-ahead in _create_experiment_locked), with *)
(* or without creates that land late.                                      *)
THEOREM FaultsAreLedgered == Spec => []EveryFaultIsLedgered
<1>1. Inductive => EveryFaultIsLedgered
  BY DEF Inductive, ResourcesLeased, EveryFaultIsLedgered, Leased
<1> QED
  BY <1>1, InductiveHolds, PTL

(* No entry is closed over a live resource, so the deadline watchdog still *)
(* sees every fault (cleanup_expired_leases, _delete_and_verify_from_ledger). *)
THEOREM WatchdogSeesEveryFault == Spec => []NoFaultEscapesTheWatchdog
<1>1. Inductive => NoFaultEscapesTheWatchdog
  BY DEF Inductive, NothingLate, NoFaultEscapesTheWatchdog
<1> QED
  BY <1>1, InductiveHolds, PTL

(* At most one create request per cleanup handle and per baseline token    *)
(* (_assert_create_runtime_gates, _assert_baseline_token_unused).          *)
THEOREM CreateIsSingleUse == Spec => []OneCreatePerHandleAndToken
<1>1. Inductive => OneCreatePerHandleAndToken
  <2> SUFFICES ASSUME Inductive PROVE OneCreatePerHandleAndToken
    OBVIOUS
  <2>0. \A s \in spent : /\ s = <<s[1], s[2]>>
                         /\ s[1] \in Handles /\ Used(s[1]) /\ ledger[s[1]].tok = s[2]
    BY DEF Inductive, TypeOK, SpentLedgered
  <2>1. \A s1, s2 \in spent : s1[1] = s2[1] \/ s1[2] = s2[2] => s1 = s2
    BY <2>0 DEF Inductive, TokensDistinct
  <2>2. ASSUME op.pc = "apply", NEW s \in spent PROVE s[1] # op.h /\ s[2] # op.tok
    <3>1. s[1] # op.h
      BY <2>2 DEF Inductive, CreateHoldsHandle
    <3>2. op.h \in Handles /\ Used(op.h) /\ ledger[op.h].tok = op.tok
      BY <2>2, OpIsCreate DEF Inductive, CreatePCs, CreateOps, CreateHoldsHandle, AfterWrite,
                              Leased
    <3> QED
      BY <2>0, <3>1, <3>2 DEF Inductive, TokensDistinct
  <2> QED
    BY <2>1, <2>2 DEF OneCreatePerHandleAndToken
<1> QED
  BY <1>1, InductiveHolds, PTL

(* An executor never has two active resources: the budget counted before   *)
(* the fence and the ledger write still holds when the create is issued.   *)
THEOREM BudgetOfOneHolds == Spec => []OneActiveFaultPerExecutor
<1>1. Inductive => OneActiveFaultPerExecutor
  BY DEF Inductive, NothingLate, OneActiveFaultPerExecutor
<1> QED
  BY <1>1, InductiveHolds, PTL

(* A delete is issued only while the resource found under the name is the  *)
(* one its ledger entry describes (_delete_and_verify_from_ledger).        *)
THEOREM DeletesAreChecked == Spec => []DeleteHitsTheLedgeredTarget
<1>1. Inductive => DeleteHitsTheLedgeredTarget
  BY DEF Inductive, NothingLate, DeleteHitsTheLedgeredTarget
<1> QED
  BY <1>1, InductiveHolds, PTL
-----------------------------------------------------------------------------
(***************************************************************************)
(* Closed entries                                                          *)
(***************************************************************************)
(* A watchdog pass works on entries that are open: those it has still to   *)
(* visit, and the one it is cleaning, which it will not visit again.       *)
PassIsOpen ==
    /\ op.pc = "scan" => op.kind = "expire"
    /\ op.pc = "observe" => op.kind = "destroy"
    /\ op.pc \in CleanPCs /\ op.kind = "expire" =>
          /\ \A h \in op.todo : ledger[h].state \in Cleanable
          /\ op.pc \notin {"observe", "scan"} =>
                ledger[op.h].state \in Cleanable /\ op.h \notin op.todo

(* A step that leaves the ledger alone, and the pass or who is cleaned.    *)
LEMMA LedgerAlone ==
    ASSUME PassIsOpen, UNCHANGED ledger,
           \/ op'.pc \notin CleanPCs
           \/ /\ op.pc \in CleanPCs /\ op'.kind = op.kind
              /\ op'.todo = op.todo /\ op'.h = op.h
              /\ op'.pc \in {"observe", "scan"} => op'.pc = op.pc
              /\ op'.pc \notin {"observe", "scan"} => op.pc \notin {"observe", "scan"}
    PROVE  PassIsOpen' /\ ClosedEntriesStay
BY DEF PassIsOpen, ClosedEntriesStay, CleanPCs

(* The entry of a handle is not closed when a create writes it.            *)
LEMMA CreateWritesOpen ==
    ASSUME Inductive, PassIsOpen, op.pc \in CreatePCs, Inductive',
           \A g \in Handles : g # op.h => ledger'[g] = ledger[g],
           op'.pc \notin CleanPCs
    PROVE  PassIsOpen' /\ ClosedEntriesStay
<1>1. op \in CreateOps
  BY OpIsCreate DEF Inductive
<1>2. op.pc \in BeforeWrite \/ op.pc \in AfterWrite
  BY DEF CreatePCs, BeforeWrite, AfterWrite
<1>3. Used(op.h) => ledger[op.h].state \notin Closed
  BY <1>1, <1>2 DEF Inductive, CreateHoldsHandle, Retriable, Cleanable, Closed
<1>4. ClosedEntriesStay
  BY <1>1, <1>3 DEF ClosedEntriesStay
<1>5. PassIsOpen'
  BY DEF PassIsOpen, CleanPCs
<1> QED
  BY <1>4, <1>5

(* One entry is touched: the pass stays open when the entry stays in its   *)
(* state, or is no longer one of the pass, and a closed entry is reopened  *)
(* by nobody.                                                              *)
LEMMA TouchStays ==
    ASSUME Inductive, NEW h, Touches(h),
           \/ ledger'[h].state = ledger[h].state
           \/ ledger[h].state \notin Closed
           \/ ledger'[h].state \in Closed
    PROVE  ClosedEntriesStay
<1>1. TypeOK
  BY DEF Inductive
<1>2. /\ \A g \in Handles : g # h => ledger'[g] = ledger[g]
      /\ Touched(ledger[h], ledger'[h])
  BY <1>1, TouchFacts
<1> QED
  BY <1>2 DEF ClosedEntriesStay, Touched

(* The requests.                                                           *)
LEMMA CallsStayOpen ==
    ASSUME Inductive, PassIsOpen, Calls
    PROVE  PassIsOpen' /\ ClosedEntriesStay
<1>1. CASE \E x \in Executors, h \in Handles, n \in Names, uid \in Uids, t \in Tokens :
              CreateBegin(x, h, n, uid, t)
  <2>1. UNCHANGED ledger /\ op'.pc = "verify"
    BY <1>1 DEF CreateBegin
  <2> QED
    BY <2>1, LedgerAlone DEF CleanPCs
<1>2. ASSUME NEW x \in Executors, NEW h \in Handles, Status(x, h)
      PROVE  PassIsOpen' /\ ClosedEntriesStay
  <2>1. Touches(h) /\ ledger'[h].state = ledger[h].state
    BY <1>2, ObserveTouches DEF Status, Inductive
  <2>2. op' = Idle
    BY <1>2 DEF Status
  <2> QED
    BY <2>1, <2>2, TouchStays DEF PassIsOpen, Idle, CleanPCs
<1>3. ASSUME NEW x \in Executors, NEW h \in Handles, DestroyBegin(x, h)
      PROVE  PassIsOpen' /\ ClosedEntriesStay
  <2>1. UNCHANGED ledger /\ op'.kind = "destroy" /\ op'.pc = "observe"
    BY <1>3 DEF DestroyBegin
  <2> QED
    BY <2>1 DEF PassIsOpen, ClosedEntriesStay
<1>4. ASSUME NEW x \in Executors, ExpireBegin(x)
      PROVE  PassIsOpen' /\ ClosedEntriesStay
  <2>1. /\ UNCHANGED ledger /\ op'.kind = "expire" /\ op'.pc = "scan"
        /\ op'.todo = Owned(x)
    BY <1>4 DEF ExpireBegin
  <2> QED
    BY <2>1 DEF PassIsOpen, ClosedEntriesStay, Owned
<1> QED
  BY <1>1, <1>2, <1>3, <1>4 DEF Calls

(* The steps of a create.                                                  *)
LEMMA CreatesStayOpen ==
    ASSUME Inductive, PassIsOpen, CreateSteps, Inductive'
    PROVE  PassIsOpen' /\ ClosedEntriesStay
<1>1. op.pc \in CreatePCs
  BY DEF CreateSteps, CreateVerify, CreateList, CreateFence, CreateWriteAhead, D6AClear,
         D6AWrite, CreateApply, CreateCommit, CreateFailed, CreateUnwind, CreateUnwindClear,
         CreatePCs
<1>2. op \in CreateOps
  BY <1>1, OpIsCreate DEF Inductive
<1>3. op'.pc \notin CleanPCs
  <2>1. CASE Release
    BY <2>1 DEF Release, Idle, CleanPCs
  <2>2. ASSUME NEW pc \in CreatePCs, Goto(pc) PROVE op'.pc \notin CleanPCs
    BY <1>2, <2>2 DEF Goto, CreateOps, CreatePCs, CleanPCs
  <2>3. Release \/ \E pc \in CreatePCs : Goto(pc)
    BY DEF CreateSteps, CreateVerify, CreateList, CreateFence, CreateWriteAhead, D6AClear,
           D6AWrite, CreateApply, CreateCommit, CreateFailed, CreateUnwind, CreateUnwindClear,
           CreatePCs
  <2> QED
    BY <2>1, <2>2, <2>3
<1>4. \A g \in Handles : g # op.h => ledger'[g] = ledger[g]
  <2>1. CASE CreateWriteAhead \/ D6AWrite
    BY <1>2, <2>1 DEF CreateWriteAhead, D6AWrite, Inductive, TypeOK
  <2>2. CASE CreateCommit \/ CreateFailed
    BY <1>2, <2>2 DEF CreateCommit, CreateFailed, SetState, Inductive, TypeOK
  <2>3. CASE ~(CreateWriteAhead \/ D6AWrite \/ CreateCommit \/ CreateFailed)
    BY <2>3 DEF CreateSteps, CreateVerify, CreateList, CreateFence, D6AClear, CreateApply,
                CreateUnwind, CreateUnwindClear
  <2> QED
    BY <2>1, <2>2, <2>3
<1> QED
  BY <1>1, <1>3, <1>4, CreateWritesOpen

(* A cleanup that goes on to its next step, or is over.                    *)
LEMMA CleanMovesOpen ==
    ASSUME Inductive, PassIsOpen, op.pc \in CleanPCs \ {"observe", "scan"}, UNCHANGED ledger,
           Release \/ \E pc \in CleanPCs \ {"observe", "scan"} : Goto(pc)
    PROVE  PassIsOpen' /\ ClosedEntriesStay
<1>1. op \in CleanOps
  BY OpIsClean DEF Inductive
<1>2. CASE Release
  BY <1>2, LedgerAlone DEF Release, Idle, CleanPCs
<1>3. ASSUME NEW pc \in CleanPCs \ {"observe", "scan"}, Goto(pc)
      PROVE  PassIsOpen' /\ ClosedEntriesStay
  <2>1. /\ op'.pc = pc /\ op'.kind = op.kind /\ op'.todo = op.todo /\ op'.h = op.h
    BY <1>1, <1>3 DEF Goto, CleanOps
  <2> QED
    BY <1>3, <2>1, LedgerAlone
<1> QED
  BY <1>2, <1>3

(* The pass sets the state of the entry it is at and scans on.             *)
LEMMA PassMovesOn ==
    ASSUME Inductive, PassIsOpen, NEW h \in Handles, Touches(h), op.pc \in CleanPCs,
           op.kind = "expire", op'.pc = "scan", op'.kind = "expire",
           op'.todo \subseteq op.todo \ {h},
           \/ ledger'[h].state \in Closed
           \/ h \in op.todo
           \/ h = op.h /\ op.pc # "scan" /\ op.pc # "observe"
    PROVE  PassIsOpen' /\ ClosedEntriesStay
<1>1. TypeOK /\ op \in CleanOps
  BY OpIsClean DEF Inductive
<1>2. \A g \in Handles : g # h => ledger'[g] = ledger[g]
  BY <1>1, TouchFacts
<1>3. \A g \in op'.todo : ledger'[g].state \in Cleanable
  BY <1>1, <1>2 DEF PassIsOpen, CleanOps
<1>4. ledger'[h].state \in Closed \/ ledger[h].state \notin Closed
  BY DEF PassIsOpen, Cleanable, Closed
<1> QED
  BY <1>3, <1>4, TouchStays DEF PassIsOpen

(* A failed cleanup: the entry the watchdog marks was open.                *)
LEMMA CleanFailsOpen ==
    ASSUME Inductive, PassIsOpen, op.pc \in CleanPCs \ {"observe", "scan"}, CleanFails
    PROVE  PassIsOpen' /\ ClosedEntriesStay
<1>1. TypeOK /\ op \in CleanOps /\ op.h \in Handles /\ Used(op.h)
  BY OpIsClean DEF Inductive, CleanHoldsHandle, CleanOps
<1>2. CASE op.kind = "destroy"
  BY <1>2, CleanMovesOpen DEF CleanFails
<1>3. CASE op.kind # "destroy"
  <2>1. SetState(op.h, "cleanup_error") /\ op.kind = "expire"
    BY <1>1, <1>3 DEF CleanFails, CleanOps
  <2>2. Touches(op.h)
    BY <1>1, <2>1, SetStateTouches DEF Cleanable
  <2>3. op'.pc = "scan" /\ op'.kind = op.kind /\ op'.todo = op.todo
    BY <1>1, <1>3 DEF CleanFails, Goto, CleanOps
  <2>4. op'.todo \subseteq op.todo \ {op.h}
    BY <2>1, <2>3 DEF PassIsOpen
  <2> QED
    BY <1>1, <2>1, <2>2, <2>3, <2>4, PassMovesOn
<1> QED
  BY <1>2, <1>3

(* The steps of a cleanup.                                                 *)
LEMMA CleansStayOpen ==
    ASSUME Inductive, PassIsOpen, CleanSteps
    PROVE  PassIsOpen' /\ ClosedEntriesStay
<1>0. TypeOK /\ (op.pc \in CleanPCs => op \in CleanOps)
  BY OpIsClean DEF Inductive
<1>1. CASE DestroyObserve
  <2>1. op \in CleanOps /\ op.h \in Handles /\ Used(op.h) /\ op.pc = "observe"
    BY <1>0, <1>1 DEF DestroyObserve, CleanPCs, CleanOps, Inductive, CleanHoldsHandle
  <2>2. Touches(op.h) /\ ledger'[op.h].state = ledger[op.h].state
    BY <1>0, <1>1, <2>1, ObserveTouches DEF DestroyObserve
  <2>3. op' = Idle \/ (op'.kind = "destroy" /\ op'.pc = "check")
    BY <1>1, <2>1 DEF DestroyObserve, Goto, Release, CleanOps, PassIsOpen
  <2> QED
    BY <2>2, <2>3, TouchStays DEF PassIsOpen, Idle, CleanPCs
<1>2. CASE ExpireScan
  <2>1. op \in CleanOps /\ op.pc = "scan" /\ op.kind = "expire"
    BY <1>0, <1>2 DEF ExpireScan, CleanPCs, PassIsOpen
  <2>2. CASE Release /\ UNCHANGED ledger
    BY <2>2, LedgerAlone DEF Release, Idle, CleanPCs
  <2>3. ASSUME NEW h \in op.todo,
               ledger' = [ledger EXCEPT ![h] = Observed(ledger[h], Lookup(op.x, ledger[h]))],
               op' = [op EXCEPT !.h = h, !.todo = @ \ {h},
                                !.pc = IF h \in op.late THEN "check" ELSE "scan"]
        PROVE  PassIsOpen' /\ ClosedEntriesStay
    <3>1. h \in Handles /\ Used(h)
      BY <2>1 DEF CleanOps, CleanPCs, Inductive, CleanHoldsHandle
    <3>2. Touches(h) /\ ledger'[h].state = ledger[h].state
      BY <1>0, <2>3, <3>1, ObserveTouches
    <3>3. \A g \in Handles : g # h => ledger'[g] = ledger[g]
      BY <1>0, <3>2, TouchFacts
    <3>4. /\ op'.kind = "expire" /\ op'.todo = op.todo \ {h} /\ op'.h = h
          /\ op'.pc \in {"check", "scan"}
      BY <2>1, <2>3 DEF CleanOps
    <3>5. \A g \in op.todo : g \in Handles /\ ledger[g].state \in Cleanable
      BY <2>1 DEF CleanOps, CleanPCs, PassIsOpen
    <3>6. PassIsOpen'
      BY <3>2, <3>3, <3>4, <3>5 DEF PassIsOpen
    <3> QED
      BY <3>2, <3>6, TouchStays
  <2> QED
    BY <1>2, <2>2, <2>3 DEF ExpireScan
<1>3. CASE CleanCheck
  <2>1. op.pc \in CleanPCs \ {"observe", "scan"} /\ "delete" \in CleanPCs \ {"observe", "scan"}
    BY <1>3 DEF CleanCheck, CleanPCs
  <2> QED
    BY <1>3, <2>1, CleanMovesOpen, CleanFailsOpen DEF CleanCheck
<1>4. CASE CleanDelete
  <2>1. op.pc \in CleanPCs \ {"observe", "scan"} /\ "confirm" \in CleanPCs \ {"observe", "scan"}
    BY <1>4 DEF CleanDelete, CleanPCs
  <2> QED
    BY <1>4, <2>1, CleanMovesOpen DEF CleanDelete
<1>5. CASE CleanConfirm
  <2>1. op.pc \in CleanPCs \ {"observe", "scan"} /\ "unfence" \in CleanPCs \ {"observe", "scan"}
    BY <1>5 DEF CleanConfirm, CleanPCs
  <2> QED
    BY <1>5, <2>1, CleanMovesOpen, CleanFailsOpen DEF CleanConfirm
<1>6. CASE CleanUnfence
  <2>1. op.pc \in CleanPCs \ {"observe", "scan"} /\ "close" \in CleanPCs \ {"observe", "scan"}
    BY <1>6 DEF CleanUnfence, CleanPCs
  <2> QED
    BY <1>6, <2>1, CleanMovesOpen DEF CleanUnfence
<1>7. CASE CleanClose
  <2> DEFINE s == IF op.kind = "destroy" THEN "destroyed" ELSE "expired_cleaned"
             f == [ledger[op.h] EXCEPT !.state = s, !.ended = TRUE]
  <2>1. /\ op \in CleanOps /\ op.h \in Handles /\ Used(op.h) /\ op.pc = "close"
        /\ op.pc \in CleanPCs
    BY <1>0, <1>7 DEF CleanClose, CleanPCs, CleanOps, Inductive, CleanHoldsHandle
  <2>2. ledger[op.h] \in Entries
    BY <1>0, <2>1, UsedIsEntry
  <2>3. Touched(ledger[op.h], f) /\ f.state \in Closed
    BY <2>2 DEF Touched, Entries, States, Cleanable, Closed
  <2>4. ledger' = [ledger EXCEPT ![op.h] = f]
    BY <1>7 DEF CleanClose
  <2> HIDE DEF f
  <2>5. Touches(op.h) /\ ledger'[op.h].state \in Closed
    BY <1>0, <2>1, <2>3, <2>4 DEF Touches, TypeOK
  <2>6. CASE op.kind = "destroy"
    <3>1. op'.pc = "idle"
      BY <1>7, <2>6 DEF CleanClose, Release, Idle
    <3>2. PassIsOpen'
      BY <3>1 DEF PassIsOpen, CleanPCs
    <3> QED
      BY <2>5, <3>2, TouchStays
  <2>7. CASE op.kind # "destroy"
    <3>1. op.kind = "expire"
      BY <2>1, <2>7 DEF CleanOps
    <3>2. op'.pc = "scan" /\ op'.kind = "expire" /\ op'.todo = op.todo
      BY <1>7, <2>1, <2>7, <3>1 DEF CleanClose, Goto, CleanOps
    <3>3. op'.todo \subseteq op.todo \ {op.h}
      BY <2>1, <3>1, <3>2 DEF PassIsOpen
    <3> QED
      BY <2>1, <2>5, <3>1, <3>2, <3>3, PassMovesOn
  <2> QED
    BY <2>6, <2>7
<1> QED
  BY <1>1, <1>2, <1>3, <1>4, <1>5, <1>6, <1>7 DEF CleanSteps

(* The errors and the end of a process.                                    *)
LEMMA ErrorsStayOpen ==
    ASSUME Inductive, PassIsOpen, ScanError \/ ExpireError \/ Abort
    PROVE  PassIsOpen' /\ ClosedEntriesStay
<1>0. TypeOK /\ (op.pc \in CleanPCs => op \in CleanOps)
  BY OpIsClean DEF Inductive
<1>1. CASE ScanError
  <2>1. op \in CleanOps /\ op.pc = "scan" /\ op.pc \in CleanPCs /\ op.kind = "expire"
    BY <1>0, <1>1 DEF ScanError, CleanPCs, PassIsOpen
  <2>2. PICK h \in op.todo : /\ SetState(h, "cleanup_error")
                             /\ op' = [op EXCEPT !.h = h, !.todo = @ \ {h}]
    BY <1>1 DEF ScanError
  <2>3. h \in Handles /\ Used(h)
    BY <2>1 DEF CleanOps, Inductive, CleanHoldsHandle
  <2>4. Touches(h)
    BY <1>0, <2>2, <2>3, SetStateTouches DEF Cleanable
  <2>5. op'.pc = "scan" /\ op'.kind = "expire" /\ op'.todo = op.todo \ {h}
    BY <2>1, <2>2 DEF CleanOps
  <2> QED
    BY <2>1, <2>3, <2>4, <2>5, PassMovesOn
<1>2. CASE ExpireError
  <2>1. /\ op.pc \in CleanPCs \ {"observe", "scan"} /\ op.kind = "expire"
        /\ SetState(op.h, "cleanup_error") /\ Goto("scan")
    BY <1>2 DEF ExpireError, CleanPCs
  <2>2. CleanFails
    BY <2>1 DEF CleanFails
  <2> QED
    BY <2>1, <2>2, CleanFailsOpen
<1>3. CASE Abort
  BY <1>3, LedgerAlone DEF Abort, Release, Idle, CleanPCs
<1> QED
  BY <1>1, <1>2, <1>3

(* The cluster, the Controller and the clock.                              *)
LEMMA EnvironmentStaysOpen ==
    ASSUME Inductive, PassIsOpen, Environment
    PROVE  PassIsOpen' /\ ClosedEntriesStay
<1>1. UNCHANGED op
  BY DEF Environment, D2Fence, D2Replace, D2Rebind, D2Release, Advance, Land, DeadlinePasses
<1>2. ASSUME NEW h \in Handles, DeadlinePasses(h)
      PROVE  PassIsOpen' /\ ClosedEntriesStay
  <2> DEFINE f == [ledger[h] EXCEPT !.due = TRUE]
  <2>1. TypeOK /\ Used(h) /\ ledger[h] \in Entries
    BY <1>2, UsedIsEntry DEF DeadlinePasses, Inductive
  <2>2. Touched(ledger[h], f) /\ f.state = ledger[h].state
    BY <2>1 DEF Touched, Entries
  <2>3. ledger' = [ledger EXCEPT ![h] = f]
    BY <1>2 DEF DeadlinePasses
  <2> HIDE DEF f
  <2>4. Touches(h) /\ ledger'[h].state = ledger[h].state
    BY <2>1, <2>2, <2>3 DEF Touches, TypeOK
  <2>5. \A g \in Handles : ledger'[g].state = ledger[g].state
    BY <2>1, <2>4, TouchFacts
  <2>6. op.pc \in CleanPCs => op.h \in Handles /\ op.todo \subseteq Handles
    BY <2>1, OpIsClean DEF CleanOps
  <2>7. PassIsOpen'
    BY <1>1, <2>5, <2>6 DEF PassIsOpen
  <2> QED
    BY <2>4, <2>7, TouchStays
<1>3. CASE ~(\E h \in Handles : DeadlinePasses(h))
  <2>1. UNCHANGED ledger
    BY <1>3 DEF Environment, D2Fence, D2Replace, D2Rebind, D2Release, Advance, Land
  <2> QED
    BY <1>1, <2>1 DEF PassIsOpen, ClosedEntriesStay
<1> QED
  BY <1>2, <1>3

(* Every step keeps the pass open and closed entries closed.               *)
LEMMA NextStaysOpen ==
    ASSUME Inductive, PassIsOpen, [Next]_vars
    PROVE  PassIsOpen' /\ ClosedEntriesStay
<1>1. Inductive'
  BY NextInductive
<1>2. CASE UNCHANGED vars
  BY <1>2 DEF vars, PassIsOpen, ClosedEntriesStay
<1>3. CASE Next
  BY <1>1, <1>3, CallsStayOpen, CreatesStayOpen, CleansStayOpen, ErrorsStayOpen,
     EnvironmentStaysOpen DEF Next
<1> QED
  BY <1>2, <1>3

(* A closed entry stays closed and keeps its name and its token: no retry  *)
(* reuses its handle, and no watchdog pass marks an entry that was closed  *)
(* before the pass came to it (_create_experiment_locked,                  *)
(* cleanup_expired_leases).                                                *)
THEOREM ClosedIsFinal == Spec => ClosedEntriesAreFinal
<1>1. Init => PassIsOpen
  BY DEF Init, Idle, PassIsOpen, CleanPCs
<1>2. Inductive /\ PassIsOpen /\ [Next]_vars => PassIsOpen' /\ [ClosedEntriesStay]_vars
  BY NextStaysOpen
<1> QED
  BY <1>1, <1>2, InductiveHolds, PTL DEF Spec, ClosedEntriesAreFinal
=============================================================================
