-------------------------- MODULE PaymentsBalance --------------------------
(***************************************************************************)
(* Theorems about Payments that count: how often a transaction can be      *)
(* settled, and what the stored events of a ledger add up to.              *)
(*                                                                         *)
(*   how often    a settlement uses up the run that made it, as that run   *)
(*                goes on to complete the transaction; only a fault gives  *)
(*                runs back, at most all of them                           *)
(*   how much     each commit moves on the ledger what its transaction     *)
(*                adds to the settled or to the held                       *)
(***************************************************************************)
EXTENDS PaymentsRaces, FoldLemmas

-----------------------------------------------------------------------------
(* How often a transaction can be settled.                                 *)

(* Run r has the money of its event t on the ledger, and has yet to        *)
(* complete t or to learn that it cannot.                                  *)
Applied(r, t) ==
  /\ runs[r].step = "executing" /\ runs[r].event = t
  /\ exec[r].step \in {"committed", "viewed", "ok"}

(* The runs that can settle t, or settle it again, before the next fault. *)
MaySettle(t) ==
  {r \in Runs : ~Applied(r, t) /\ (outbox[t] = "pending" \/ t \in runs[r].batch)}

(* The inductive form of ReplayBound: a settlement uses up its run, and    *)
(* only a fault gives runs back.                                           *)
SettledInv ==
  /\ \A r \in Runs : runs[r].step = "executing" => runs[r].event \in runs[r].batch
  /\ \A t \in Recorded :
       Cardinality(Settlements(t)) + Cardinality(MaySettle(t))
         <= Cardinality(Runs) * (1 + faults)

RunTypes == runs \in [Runs -> [step: RunStates, batch: SUBSET TxId, event: TxId \cup {NoTxId}]]

LEMMA SettlementsFinite ==
  ASSUME IInv, NEW t \in Recorded
  PROVE  IsFiniteSet(Settlements(t)) /\ Cardinality(Settlements(t)) \in Nat
<1>1. transactions[t].account \in Ledgers
  BY RecordedType DEF IInv, Transaction
<1> DEFINE log == ledger_events[transactions[t].account]
<1>2. Len(log) \in Nat /\ DOMAIN log = 1..Len(log)
  BY <1>1, LenProperties DEF IInv, TypeOK, StoreTypeOK
<1>3. IsFiniteSet(DOMAIN log)
  BY <1>2, FS_Interval
<1>4. Settlements(t) \in SUBSET DOMAIN log
  BY DEF Settlements, Movements
<1> QED BY <1>3, <1>4, FS_Subset, FS_CardinalityType

(* What is not recorded has not moved. *)
LEMMA NoMovementBefore ==
  ASSUME IInv, NEW t \in TxId \ Recorded, NEW l \in Ledgers,
         NEW type \in MovementType
  PROVE  Movements(l, t, type) = {}
<1> SUFFICES ASSUME NEW i \in Movements(l, t, type) PROVE FALSE
  OBVIOUS
<1>1. i \in DOMAIN ledger_events[l] /\ ledger_events[l][i].transaction_id = t
      /\ ledger_events[l][i].transaction_type # "initiated"
  BY DEF Movements, MovementType
<1> QED BY <1>1 DEF IInv, Books, MovementIsRecorded

(* A commit for the outbox command of t adds one settlement of t. *)
LEMMA CommitSettles ==
  ASSUME IInv, NEW q \in Actors, Commit(q), UNCHANGED transactions,
         NEW t \in Recorded, exec[q].command = OutboxCommand(t)
  PROVE  \E i : i \notin Settlements(t) /\ Settlements(t)' = Settlements(t) \cup {i}
<1> DEFINE command == exec[q].command
           l == command.ledger
           n == Len(ledger_events[l])
           k == Len(Handle(command))
<1>1. command \in LedgerCommand
  BY CommandTypes DEF IInv
<1>2. /\ n \in Nat /\ k \in Nat
      /\ DOMAIN ledger_events[l] = 1..n
      /\ DOMAIN ledger_events'[l] = 1..(n + k)
      /\ \A i \in 1..n : ledger_events'[l][i] = ledger_events[l][i]
      /\ \A i \in 1..k : ledger_events'[l][n + i] = Handle(command)[i]
  BY <1>1, CommitFacts DEF IInv
<1>3. l = transactions[t].account /\ command.transaction_id = t
  BY DEF OutboxCommand
<1>4. /\ k >= 1
      /\ \A i \in 1..k : /\ Handle(command)[i].transaction_id = t
                         /\ Handle(command)[i].transaction_type = SettlingType(t) <=> i = k
  <2>1. CASE transactions[t].type = "Deposit"
    <3>1. command.type = "Credit" /\ SettlingType(t) = "credit_release"
      BY <2>1 DEF OutboxCommand, SettlingType
    <3>2. \A i \in 1..2 : i = 1 \/ i = 2
      OBVIOUS
    <3> QED BY <1>1, <1>3, <3>1, <3>2, HandleFacts
  <2>2. CASE transactions[t].type # "Deposit"
    <3>1. command.type = "DebitRelease" /\ SettlingType(t) = "debit_release"
      BY <2>2 DEF OutboxCommand, SettlingType
    <3> QED BY <1>1, <1>3, <3>1, HandleFacts
  <2> QED BY <2>1, <2>2
<1>5. Settlements(t) = {i \in 1..n : /\ ledger_events[l][i].transaction_id = t
                                     /\ ledger_events[l][i].transaction_type = SettlingType(t)}
  BY <1>2, <1>3 DEF Settlements, Movements
<1>6. Settlements(t)' = {i \in 1..(n + k) :
                           /\ ledger_events'[l][i].transaction_id = t
                           /\ ledger_events'[l][i].transaction_type = SettlingType(t)}
  BY <1>2, <1>3 DEF Settlements, Movements, SettlingType
<1> HIDE DEF n, k, l, command
<1>7. \A i \in 1..(n + k) : i \in 1..n \/ \E j \in 1..k : i = n + j
  <2> SUFFICES ASSUME NEW i \in 1..(n + k), i \notin 1..n PROVE \E j \in 1..k : i = n + j
    OBVIOUS
  <2>1. i - n \in 1..k /\ i = n + (i - n)
    BY <1>2
  <2> QED BY <2>1
<1>8. n + k \in 1..(n + k) /\ n + k \notin 1..n /\ 1..n \subseteq 1..(n + k)
  BY <1>2, <1>4
<1>9. \A j \in 1..k : n + j = n + k <=> j = k
  BY <1>2
<1>10. \A j \in 1..k :
         /\ ledger_events'[l][n + j].transaction_id = t
         /\ ledger_events'[l][n + j].transaction_type = SettlingType(t) <=> n + j = n + k
  BY <1>2, <1>4, <1>9
<1>11. k \in 1..k
  BY <1>2, <1>4
<1>12. \A i : i \in Settlements(t)' <=> i \in Settlements(t) \/ i = n + k
  <2>1. ASSUME NEW i \in Settlements(t) PROVE i \in Settlements(t)'
    BY <1>2, <1>5, <1>6, <1>8
  <2>2. n + k \in Settlements(t)'
    BY <1>6, <1>8, <1>10, <1>11
  <2>3. ASSUME NEW i \in Settlements(t)', i # n + k PROVE i \in Settlements(t)
    <3>1. i \in 1..n
      BY <1>6, <1>7, <1>10, <2>3
    <3> QED BY <1>2, <1>5, <1>6, <3>1
  <2> QED BY <2>1, <2>2, <2>3
<1> QED BY <1>5, <1>8, <1>12

(* What settles a transaction is the commit of a run that works on its row. *)
LEMMA SettlingCommit ==
  ASSUME IInv, [Next]_vars, NEW t \in Recorded, Settlements(t)' # Settlements(t)
  PROVE  \E r \in Runs :
           /\ runs[r].step = "executing" /\ runs[r].event = t
           /\ exec[r].step = "loaded" /\ exec[r].command = OutboxCommand(t)
           /\ Commit(r) /\ StoreUnchangedElsewhere
<1>1. transactions'[t].account = transactions[t].account
      /\ transactions'[t].type = transactions[t].type
  BY TransactionsStay
<1>2. ledger_events' # ledger_events
  BY <1>1 DEF Settlements, SettlingType, Movements
<1>3. PICK q \in Actors : Writes(q)
  BY <1>2, NextOnStore DEF StoreAtRest, IInv
<1>4. Commit(q) /\ StoreUnchangedElsewhere
  BY <1>2, <1>3 DEF Writes, LoadView, UpdateView
<1>5. UNCHANGED transactions /\ exec[q].step = "loaded"
  BY <1>4 DEF Commit, InCall, StoreUnchangedElsewhere, databaseVars
<1>6. PICK u : u = Subject(q)
  OBVIOUS
<1>7. /\ u \in Recorded /\ exec[q].command \in {DebitHold(u), OutboxCommand(u)}
      /\ q = Processor => exec[q].command = DebitHold(u)
      /\ q # Processor => q \in Runs /\ runs[q].step = "executing"
  BY <1>5, <1>6, CallSubject
<1>8. t = u /\ exec[q].command = OutboxCommand(u)
  BY <1>4, <1>5, <1>7, CommitMovements DEF IInv
<1>9. DebitHold(u) # OutboxCommand(u)
  BY DEF DebitHold, OutboxCommand
<1> QED BY <1>4, <1>5, <1>6, <1>7, <1>8, <1>9 DEF Subject

(* What a fault leaves alone. *)
LEMMA FaultLeaves ==
  ASSUME Fault
  PROVE  UNCHANGED <<ledger_events, transactions, outbox>> /\ faults' = faults + 1
<1>1. CASE RecordFails \/ Crash
  BY <1>1 DEF Fault, RecordFails, Crash, storeVars, databaseVars
<1>2. CASE \E p \in Actors : StoreFault(p) /\ StoreUnchangedElsewhere
  BY <1>2 DEF Fault, StoreFault, StoreFails, DispatchFails, StoreUnchangedElsewhere, databaseVars
<1>3. CASE \E r \in Runs : CompleteFails(r) \/ RedisFails(r)
  BY <1>3 DEF Fault, CompleteFails, RedisFails, storeVars, databaseVars
<1> QED BY <1>1, <1>2, <1>3 DEF Fault

(* Without a fault, a run that cannot settle t any more cannot again: what *)
(* it has read of the outbox shrinks, and it reads only unprocessed rows.  *)
LEMMA MaySettleShrinks ==
  ASSUME IInv, [Next]_vars, ~Fault, NEW t \in Recorded
  PROVE  MaySettle(t)' \subseteq MaySettle(t)
<1> SUFFICES ASSUME NEW r \in Runs,
                    Applied(r, t) \/ (outbox[t] # "pending" /\ t \notin runs[r].batch)
             PROVE  Applied(r, t)' \/ (outbox'[t] # "pending" /\ t \notin runs'[r].batch)
  BY DEF MaySettle
<1> DEFINE Out == outbox[t] # "pending" /\ t \notin runs[r].batch
           Goal == Applied(r, t)' \/ (outbox'[t] # "pending" /\ t \notin runs'[r].batch)
<1>1. /\ TypeOK /\ RunTypes /\ RunInv(r)
      /\ outbox \in [TxId -> {"none", "pending", "processed"}]
      /\ exec \in [Actors -> Call \cup {OutOfCall(s) : s \in {"idle", "ok", "err"}}]
      /\ r \in Actors /\ r # Processor /\ t \in TxId
  BY RecordedType, ActorAssumption DEF IInv, TypeOK, StoreTypeOK, RunTypes, Actors
<1>2. ASSUME UNCHANGED <<runs, outbox>>, exec'[r] = exec[r] PROVE Goal
  BY <1>2 DEF Applied
<1>3. ASSUME UNCHANGED <<runs, outbox>>,
             exec[r].step \in {"committed", "viewed", "ok"} =>
               exec'[r].step \in {"committed", "viewed", "ok"}
      PROVE  Goal
  BY <1>3 DEF Applied
<1>4. ASSUME NEW q \in Actors, InStore(q) PROVE Goal
  <2>1. UNCHANGED <<runs, outbox>>
    BY <1>4 DEF InStore, StoreUnchangedElsewhere, databaseVars, jobVars
  <2>2. CASE q # r
    <3>1. exec'[r] = exec[r]
      BY <1>1, <1>4, <2>2 DEF InStore, StoreStep, Commit, OptimisticLockError, LoadView, UpdateView
    <3> QED BY <1>2, <2>1, <3>1
  <2>3. CASE q = r
    <3>1. CASE Commit(q) \/ OptimisticLockError(q)
      <4>1. exec[r].step = "loaded"
        BY <2>3, <3>1 DEF Commit, OptimisticLockError, InCall
      <4> QED BY <1>3, <2>1, <4>1
    <3>2. CASE LoadView(q)
      <4>1. exec'[r].step = "viewed"
        <5>1. exec[r] \in Call
          BY <2>3, <3>2, <1>1, CallTypes DEF LoadView, InCall, AfterCommit
        <5> QED BY <1>1, <2>3, <3>2, <5>1 DEF LoadView, Call
      <4> QED BY <1>3, <2>1, <4>1
    <3>3. CASE UpdateView(q)
      <4>1. exec'[r].step = "ok"
        BY <1>1, <2>3, <3>3, UpdateViewFacts
      <4> QED BY <1>3, <2>1, <4>1
    <3> QED BY <1>4, <3>1, <3>2, <3>3 DEF InStore, StoreStep
  <2> QED BY <2>2, <2>3
<1>5. CASE ReceiveCommand \/ Validate \/ LockExpires \/ (\E command \in Command : Submit(command))
           \/ UNCHANGED vars
  BY <1>2, <1>5 DEF ReceiveCommand, Validate, LockExpires, Submit, vars, storeVars, databaseVars,
       jobVars
<1>6. CASE CallDebitHold \/ DebitHoldReturns
  <2>1. UNCHANGED <<runs, outbox>>
    BY <1>6 DEF CallDebitHold, DebitHoldReturns, databaseVars, jobVars
  <2>2. exec'[r] = exec[r]
    BY <1>1, <1>6 DEF CallDebitHold, DebitHoldReturns, Execute, ReturnFrom
  <2> QED BY <1>2, <2>1, <2>2
<1>7. CASE RecordTransaction
  <2>1. PICK u \in TxId : u \notin Recorded /\ outbox' = [outbox EXCEPT ![u] = "pending"]
    BY <1>7 DEF RecordTransaction, NextId
  <2>2. outbox'[t] = outbox[t] /\ UNCHANGED <<runs, exec>>
    BY <1>1, <1>7, <2>1 DEF RecordTransaction, jobVars, storeVars
  <2> QED BY <2>2 DEF Applied
<1>8. ASSUME NEW q \in Runs, Fetch(q) \/ SetLock(q) \/ SetExpiry(q) \/ LockHeld(q) \/ CheckLock(q)
                             \/ DeleteLock(q) \/ ProcessEvent(q)
      PROVE  Goal
  <2>1. UNCHANGED outbox /\ runs[q].step # "executing"
    BY <1>8 DEF Fetch, SetLock, SetExpiry, LockHeld, CheckLock, DeleteLock, ProcessEvent, databaseVars
  <2>2. CASE q # r
    <3>1. runs'[r] = runs[r]
      BY <1>1, <1>8, <2>2 DEF RunTypes, Fetch, SetLock, SetExpiry, LockHeld, CheckLock, DeleteLock,
           ProcessEvent
    <3>2. exec'[r] = exec[r]
      BY <1>1, <1>8, <2>2 DEF Fetch, SetLock, SetExpiry, LockHeld, CheckLock, DeleteLock,
           ProcessEvent, Execute, storeVars
    <3> QED BY <2>1, <3>1, <3>2 DEF Applied
  <2>3. CASE q = r
    <3>1. outbox[t] # "pending" /\ t \notin runs[r].batch
      BY <2>1, <2>3 DEF Applied
    <3>2. runs'[r].batch \subseteq runs[r].batch \cup Pending
      <4>1. CASE Fetch(r)
        BY <1>1, <4>1 DEF Fetch, Batch, RunTypes, IdleRun
      <4>2. CASE SetLock(r) \/ SetExpiry(r) \/ ProcessEvent(r)
        BY <1>1, <4>2 DEF SetLock, SetExpiry, ProcessEvent, RunTypes
      <4>3. CASE LockHeld(r) \/ CheckLock(r) \/ DeleteLock(r)
        BY <1>1, <4>3 DEF LockHeld, CheckLock, DeleteLock, RunTypes, IdleRun
      <4> QED BY <1>8, <2>3, <4>1, <4>2, <4>3
    <3> QED BY <2>1, <3>1, <3>2 DEF Pending
  <2> QED BY <2>2, <2>3
<1>9. ASSUME NEW q \in Runs, CompleteTransaction(q) \/ EventFailed(q) PROVE Goal
  <2>1. /\ runs[q].step = "executing" /\ exec[q].step \in {"ok", "err"}
        /\ ReturnFrom(q) /\ NextEvent(q)
        /\ EventFailed(q) => exec[q].step = "err" /\ UNCHANGED outbox
        /\ CompleteTransaction(q) => outbox' = [outbox EXCEPT ![runs[q].event] = "processed"]
    BY <1>9 DEF CompleteTransaction, EventFailed, EventApplied, databaseVars
  <2>2. outbox'[t] = outbox[t] \/ outbox'[t] = "processed"
    BY <1>1, <1>9, <2>1
  <2>3. CASE q # r
    <3>1. runs'[r] = runs[r] /\ exec'[r] = exec[r]
      BY <1>1, <2>1, <2>3 DEF NextEvent, ReturnFrom, RunTypes
    <3> QED BY <2>2, <3>1 DEF Applied
  <2>4. CASE q = r
    <3>1. runs'[r].batch = runs[r].batch \ {runs[r].event}
      BY <1>1, <2>1, <2>4 DEF NextEvent, RunTypes
    <3>2. CASE outbox[t] # "pending" /\ t \notin runs[r].batch
      BY <2>2, <3>1, <3>2
    <3>3. CASE Applied(r, t)
      <4>1. exec[r].step = "ok" /\ runs[r].event = t
        BY <2>1, <2>4, <3>3 DEF Applied
      <4>2. CompleteTransaction(r) /\ outbox' = [outbox EXCEPT ![t] = "processed"]
        BY <1>9, <2>1, <2>4, <4>1 DEF CompleteTransaction
      <4>3. outbox'[t] = "processed"
        BY <1>1, <4>2
      <4> QED BY <3>1, <4>1, <4>3
    <3> QED BY <3>2, <3>3
  <2> QED BY <2>3, <2>4
<1>10. CASE ProcessorStep
  BY <1>4, <1>5, <1>6, <1>7, <1>10 DEF ProcessorStep, Actors
<1>11. CASE \E q \in Runs : Fetch(q) \/ RunStep(q)
  BY <1>4, <1>8, <1>9, <1>11 DEF RunStep, Actors
<1> QED BY <1>5, <1>10, <1>11 DEF Next

(* A run executes an event of its batch. *)
LEMMA WorksOnBatch ==
  ASSUME IInv, [Next]_vars,
         \A r \in Runs : runs[r].step = "executing" => runs[r].event \in runs[r].batch
  PROVE  \A r \in Runs : runs'[r].step = "executing" => runs'[r].event \in runs'[r].batch
<1> SUFFICES ASSUME NEW r \in Runs, runs'[r].step = "executing"
             PROVE  runs'[r].event \in runs'[r].batch
  OBVIOUS
<1>1. RunTypes
  BY DEF IInv, TypeOK, RunTypes
<1>2. CASE runs'[r] = runs[r]
  BY <1>2
<1>3. CASE ProcessEvent(r)
  BY <1>1, <1>3 DEF ProcessEvent, Oldest, RunTypes
<1>4. CASE Fetch(r) \/ SetLock(r) \/ SetExpiry(r) \/ LockHeld(r) \/ CheckLock(r) \/ DeleteLock(r)
           \/ RedisFails(r) \/ Crash
  <2>1. runs'[r].step # "executing"
    <3>1. CASE SetLock(r) \/ SetExpiry(r)
      BY <1>1, <3>1 DEF SetLock, SetExpiry, RunTypes
    <3>2. CASE LockHeld(r) \/ DeleteLock(r) \/ RedisFails(r) \/ Crash
      <4>1. runs'[r] = IdleRun
        BY <1>1, <3>2 DEF LockHeld, DeleteLock, RedisFails, Crash, RunTypes
      <4> QED BY <4>1 DEF IdleRun
    <3>3. CASE CheckLock(r)
      BY <1>1, <3>3 DEF CheckLock, RunTypes, IdleRun
    <3>4. CASE Fetch(r)
      <4>1. runs'[r] = [IdleRun EXCEPT !.step = "fetched", !.batch = Batch]
        BY <1>1, <3>4 DEF Fetch, RunTypes
      <4> QED BY <4>1 DEF IdleRun
    <3> QED BY <1>4, <3>1, <3>2, <3>3, <3>4
  <2> QED BY <2>1
<1>5. CASE CompleteTransaction(r) \/ EventFailed(r) \/ CompleteFails(r)
  <2>1. NextEvent(r)
    BY <1>5 DEF CompleteTransaction, EventFailed, CompleteFails
  <2> QED BY <1>1, <2>1 DEF NextEvent, RunTypes
<1>6. ASSUME NEW q \in Runs, q # r, Fetch(q) \/ RunStep(q) \/ CompleteFails(q) \/ RedisFails(q)
      PROVE  runs'[r] = runs[r]
  BY <1>1, <1>6 DEF RunTypes, Fetch, RunStep, SetLock, SetExpiry, LockHeld, ProcessEvent,
       CompleteTransaction, EventFailed, CheckLock, DeleteLock, CompleteFails, RedisFails,
       NextEvent, InStore, StoreUnchangedElsewhere, jobVars
<1>7. CASE \E q \in Actors : InStore(q) \/ (StoreFault(q) /\ StoreUnchangedElsewhere)
  BY <1>2, <1>7 DEF InStore, StoreUnchangedElsewhere, jobVars
<1>8. CASE ReceiveCommand \/ Validate \/ CallDebitHold \/ DebitHoldReturns \/ RecordFails
           \/ RecordTransaction
  BY <1>2, <1>8 DEF ReceiveCommand, Validate, CallDebitHold, DebitHoldReturns, RecordFails,
       RecordTransaction, jobVars
<1>9. CASE (\E command \in Command : Submit(command)) \/ LockExpires \/ UNCHANGED vars
  BY <1>2, <1>9 DEF Submit, LockExpires, vars, jobVars
<1>10. CASE ProcessorStep
  BY <1>7, <1>8, <1>10 DEF ProcessorStep, Actors
<1>11. CASE \E q \in Runs : Fetch(q) \/ RunStep(q)
  BY <1>2, <1>3, <1>4, <1>5, <1>6, <1>7, <1>11 DEF RunStep, Actors
<1>12. CASE Fault
  BY <1>2, <1>4, <1>5, <1>6, <1>7, <1>8, <1>12 DEF Fault
<1> QED BY <1>9, <1>10, <1>11, <1>12 DEF Next

(* A transaction is recorded before anything of it is on a ledger. *)
LEMMA NewlyRecorded ==
  ASSUME IInv, [Next]_vars, NEW t \in Recorded', t \notin Recorded
  PROVE  /\ UNCHANGED ledger_events /\ Recorded' = Recorded \cup {t}
         /\ Settlements(t)' = {} /\ Holds(t)' = {}
<1>1. transactions \in [TxId -> Transaction \cup {NoTransaction}] /\ t \in TxId
  BY DEF IInv, TypeOK, Recorded
<1>2. RecordTransaction
  <2>1. CASE UNCHANGED transactions
    BY <2>1 DEF Recorded
  <2>2. ASSUME NEW r \in Runs, CompleteTransaction(r) PROVE FALSE
    <3>1. transactions' = [transactions EXCEPT ![runs[r].event].status = "completed"]
          /\ runs[r].event \in Recorded
      BY <2>2 DEF CompleteTransaction, IInv, RunInv
    <3>2. transactions'[t] = transactions[t]
      BY <1>1, <3>1
    <3> QED BY <1>1, <3>2 DEF Recorded
  <2> QED BY <2>1, <2>2, TransactionsWritten
<1>3. PICK u \in TxId :
        /\ NextId(u)
        /\ transactions' = [transactions EXCEPT ![u] = TransactionOf(processor.command)]
  BY <1>2 DEF RecordTransaction
<1>4. \A v \in TxId : v # u => transactions'[v] = transactions[v]
  BY <1>1, <1>3
<1>5. u = t
  BY <1>1, <1>4 DEF Recorded
<1>6. transactions'[t] = TransactionOf(processor.command)
  BY <1>1, <1>3, <1>5
<1>7. Recorded' = Recorded \cup {t}
  BY <1>1, <1>4, <1>5, <1>6 DEF Recorded, TransactionOf
<1>8. UNCHANGED ledger_events
  BY <1>2 DEF RecordTransaction, storeVars
<1>9. processor.command \in Command
  BY <1>2 DEF RecordTransaction, IInv, ProcessorInv
<1>10. transactions'[t].account \in Ledgers
  BY <1>6, <1>9 DEF Command, TransactionOf
<1>11. \A l \in Ledgers, type \in MovementType : Movements(l, t, type)' = {}
  BY <1>1, <1>8, NoMovementBefore DEF Movements
<1> QED BY <1>7, <1>8, <1>10, <1>11 DEF Settlements, SettlingType, Holds, MovementType

(* Only a fault counts as one. *)
LEMMA FaultsStay ==
  ASSUME [Next]_vars, ~Fault
  PROVE  UNCHANGED faults
<1>1. CASE \E p \in Actors : InStore(p)
  BY <1>1 DEF InStore
<1>2. CASE ProcessorStep
  BY <1>1, <1>2 DEF ProcessorStep, Actors, ReceiveCommand, Validate, RecordTransaction,
       CallDebitHold, DebitHoldReturns
<1>3. CASE \E r \in Runs : Fetch(r) \/ RunStep(r)
  BY <1>1, <1>3 DEF Fetch, RunStep, SetLock, SetExpiry, LockHeld, ProcessEvent,
       CompleteTransaction, EventFailed, CheckLock, DeleteLock, Actors
<1>4. CASE (\E command \in Command : Submit(command)) \/ LockExpires \/ UNCHANGED vars
  BY <1>4 DEF Submit, LockExpires, vars
<1> QED BY <1>2, <1>3, <1>4 DEF Next

LEMMA MaySettleFinite ==
  ASSUME IsFiniteSet(Runs), NEW t
  PROVE  /\ Cardinality(Runs) \in Nat
         /\ IsFiniteSet(MaySettle(t)) /\ Cardinality(MaySettle(t)) \in 0..Cardinality(Runs)
         /\ IsFiniteSet(MaySettle(t)')
         /\ Cardinality(MaySettle(t)') \in 0..Cardinality(Runs)
<1>1. MaySettle(t) \in SUBSET Runs /\ MaySettle(t)' \in SUBSET Runs
  BY DEF MaySettle
<1> QED BY <1>1, FS_Subset, FS_CardinalityType

LEMMA ProductType ==
  ASSUME NEW n \in Nat, NEW m \in Nat
  PROVE  n * (1 + m) \in Nat
OBVIOUS

LEMMA SettledInit ==
  ASSUME IsFiniteSet(Runs), Init
  PROVE  SettledInv
BY DEF Init, SettledInv, IdleRun, Recorded, NoTransaction

LEMMA SettledStep ==
  ASSUME IsFiniteSet(Runs), IInv, IInv', SettledInv, [Next]_vars
  PROVE  SettledInv'
<1>1. \A r \in Runs : runs'[r].step = "executing" => runs'[r].event \in runs'[r].batch
  BY WorksOnBatch DEF SettledInv
<1> SUFFICES ASSUME NEW t \in Recorded'
             PROVE  Cardinality(Settlements(t)') + Cardinality(MaySettle(t)')
                      <= Cardinality(Runs) * (1 + faults')
  BY <1>1 DEF SettledInv
<1> DEFINE N == Cardinality(Runs)
           s == Cardinality(Settlements(t))
           m == Cardinality(MaySettle(t))
           n == Cardinality(Settlements(t)')
           k == Cardinality(MaySettle(t)')
           Goal == n + k <= N * (1 + faults')
<1>2. N \in Nat /\ m \in 0..N /\ k \in 0..N /\ faults \in Nat /\ faults' \in Nat
      /\ IsFiniteSet(MaySettle(t))
  BY MaySettleFinite DEF IInv, TypeOK
<1>3. CASE t \notin Recorded
  <2>1. n = 0
    BY <1>3, NewlyRecorded, FS_EmptySet
  <2>2. N * (1 + faults') >= N
    BY <1>2
  <2> HIDE DEF n, k, N
  <2> QED BY <1>2, <2>1, <2>2 DEF n, k, N
<1>4. CASE t \in Recorded
  <2>1. s \in Nat /\ IsFiniteSet(Settlements(t)) /\ s + m <= N * (1 + faults)
    BY <1>4, SettlementsFinite DEF SettledInv
  <2>2. CASE Fault
    <3>1. n = s /\ faults' = faults + 1
      BY <2>2, FaultLeaves DEF Settlements, SettlingType, Movements
    <3>2. N * (1 + faults') = N * (1 + faults) + N
      BY <1>2, <3>1
    <3> HIDE DEF N, s, m, n, k
    <3>3. N * (1 + faults) \in Nat
      BY <1>2
    <3>4. n + k <= N * (1 + faults')
      BY <1>2, <2>1, <3>1, <3>2, <3>3
    <3> QED BY <3>4 DEF n, k, N
  <2>3. CASE ~Fault
    <3>1. MaySettle(t)' \subseteq MaySettle(t)
      BY <1>4, <2>3, MaySettleShrinks
    <3>2. PICK bound \in Nat : bound = N * (1 + faults) /\ bound = N * (1 + faults')
      BY <1>2, <2>3, FaultsStay, ProductType
    <3>3. s + m <= bound
      BY <2>1, <3>2
    <3>4. CASE Settlements(t)' = Settlements(t)
      <4>1. n = s /\ k <= m
        BY <1>2, <3>1, <3>4, FS_Subset
      <4> HIDE DEF N, s, m, n, k
      <4>2. n + k <= bound
        BY <1>2, <2>1, <3>3, <4>1
      <4> QED BY <3>2, <4>2 DEF n, k, N
    <3>5. CASE Settlements(t)' # Settlements(t)
      <4>1. PICK r \in Runs :
              /\ runs[r].step = "executing" /\ runs[r].event = t
              /\ exec[r].step = "loaded" /\ exec[r].command = OutboxCommand(t)
              /\ Commit(r) /\ StoreUnchangedElsewhere
        BY <1>4, <3>5, SettlingCommit
      <4>2. r \in MaySettle(t)
        BY <4>1 DEF MaySettle, Applied, SettledInv
      <4>3. r \notin MaySettle(t)'
        <5>1. exec'[r].step = "committed" /\ runs'[r] = runs[r]
          BY <4>1 DEF Commit, StoreUnchangedElsewhere, jobVars, IInv, TypeOK, StoreTypeOK, Actors
        <5> QED BY <4>1, <5>1 DEF MaySettle, Applied
      <4>4. k <= m - 1
        <5>1. MaySettle(t)' \in SUBSET (MaySettle(t) \ {r})
          BY <3>1, <4>3
        <5>2. IsFiniteSet(MaySettle(t) \ {r}) /\ Cardinality(MaySettle(t) \ {r}) = m - 1
          BY <1>2, <4>2, FS_RemoveElement
        <5> QED BY <5>1, <5>2, FS_Subset
      <4>5. n = s + 1
        <5>1. UNCHANGED transactions /\ r \in Actors
          BY <4>1 DEF StoreUnchangedElsewhere, databaseVars, Actors
        <5>2. PICK i : i \notin Settlements(t) /\ Settlements(t)' = Settlements(t) \cup {i}
          BY <1>4, <4>1, <5>1, CommitSettles
        <5> QED BY <2>1, <5>2, FS_AddElement
      <4> HIDE DEF N, s, m, n, k
      <4>6. n + k <= bound
        BY <1>2, <2>1, <3>3, <4>4, <4>5
      <4> QED BY <3>2, <4>6 DEF n, k, N
    <3> QED BY <3>4, <3>5
  <2> QED BY <2>2, <2>3
<1> QED BY <1>3, <1>4

(* A run that has settled a transaction does so again only after a fault:  *)
(* create_ledger_job completes the row next, and reads unprocessed rows.   *)
THEOREM SettledInvariant ==
  ASSUME IsFiniteSet(Runs)
  PROVE  Spec => [](IInv /\ SettledInv)
<1>1. Init => SettledInv
  BY SettledInit
<1>2. IInv /\ IInv' /\ SettledInv /\ [Next]_vars => SettledInv'
  BY SettledStep
<1> QED BY <1>1, <1>2, Invariant, PTL DEF Spec

(* However runs overlap and calls fail, nothing is settled more often than *)
(* the runs that had read its row, times the faults that let them read it  *)
(* again (one more than the faults there were).                            *)
THEOREM ReplayBoundAlways ==
  ASSUME IsFiniteSet(Runs)
  PROVE  Spec => []ReplayBound
<1>1. IInv /\ SettledInv => ReplayBound
  <2> SUFFICES ASSUME IInv, SettledInv, NEW t \in Recorded
               PROVE  Cardinality(Settlements(t)) <= Cardinality(Runs) * (1 + faults)
    BY DEF ReplayBound
  <2> DEFINE bound == Cardinality(Runs) * (1 + faults)
  <2>1. Cardinality(Settlements(t)) \in Nat
    BY SettlementsFinite
  <2>2. Cardinality(MaySettle(t)) \in Nat /\ Cardinality(Runs) \in Nat
    BY MaySettleFinite
  <2>3. Cardinality(Settlements(t)) + Cardinality(MaySettle(t)) <= bound
    BY DEF SettledInv
  <2>4. bound \in Nat
    BY <2>2 DEF IInv, TypeOK
  <2> HIDE DEF bound
  <2>5. Cardinality(Settlements(t)) <= bound
    BY <2>1, <2>2, <2>3, <2>4
  <2> QED BY <2>5 DEF bound
<1> QED BY <1>1, SettledInvariant, PTL

-----------------------------------------------------------------------------
(* Replaying a log.                                                        *)

(* Update as a function: of a balance and the place of the next event. *)
StepOf(log) == [p \in Balance \X (1..Len(log)) |-> Update(p[1], log[p[2]])]

LEMMA StepOfType ==
  ASSUME NEW log \in Seq(LedgerEvent)
  PROVE  /\ StepOf(log) \in [Balance \X (1..Len(log)) -> Balance]
         /\ \A b \in Balance, k \in 1..Len(log) : StepOf(log)[<<b, k>>] = Update(b, log[k])
<1>1. \A k \in 1..Len(log) : log[k] \in LedgerEvent
  OBVIOUS
<1> QED BY <1>1, UpdateType DEF StepOf

LEMMA ReplayFolding ==
  ASSUME NEW log \in Seq(LedgerEvent)
  PROVE  \E c \in [SUBSET (1..Len(log)) -> Balance] :
           Folding(c, StepOf(log), ZeroBalance, Len(log))
<1>1. ZeroBalance \in Balance /\ Len(log) \in Nat
  BY DEF ZeroBalance, Balance
<1> QED BY <1>1, StepOfType, FoldingExists

(* The balances a replay passes through. *)
LEMMA ReplaySteps ==
  ASSUME NEW log \in Seq(LedgerEvent)
  PROVE  \E h \in [0..Len(log) -> Balance] :
           h[0] = ZeroBalance /\ \A k \in 1..Len(log) : h[k] = Update(h[k - 1], log[k])
<1> DEFINE n == Len(log)
           G == StepOf(log)
<1>1. n \in Nat
  OBVIOUS
<1>2. PICK c : c \in [SUBSET (1..n) -> Balance] /\ Folding(c, G, ZeroBalance, n)
  BY ReplayFolding
<1> DEFINE h == [k \in 0..n |-> c[1..k]]
<1>3. c[1..0] = ZeroBalance /\ \A k \in 1..n : c[1..k] = G[<<c[1..(k - 1)], k>>]
  <2>1. Folding(c, G, ZeroBalance, n)
    BY <1>2
  <2> HIDE DEF n, G
  <2> QED BY ONLY <1>1, <2>1, FoldingSteps
<1>4. \A k \in 0..n : c[1..k] \in Balance
  BY <1>1, <1>2
<1>5. h \in [0..n -> Balance]
  BY <1>4
<1>6. h[0] = ZeroBalance
  BY <1>1, <1>3
<1>7. ASSUME NEW k \in 1..n PROVE h[k] = Update(h[k - 1], log[k])
  <2>1. k \in 0..n /\ k - 1 \in 0..n
    BY <1>1
  <2>2. h[k] = c[1..k] /\ h[k - 1] = c[1..(k - 1)] /\ h[k - 1] \in Balance
    BY <1>4, <2>1
  <2>3. h[k] = G[<<h[k - 1], k>>]
    BY <1>3, <2>2
  <2> HIDE DEF h
  <2> QED BY <2>2, <2>3, StepOfType
<1> HIDE DEF h
<1> QED BY <1>5, <1>6, <1>7

(* What Update makes, one by one, of a log's events is what Replay gives. *)
LEMMA ReplayIs ==
  ASSUME NEW log \in Seq(LedgerEvent), NEW h, h[0] = ZeroBalance,
         \A k \in 1..Len(log) : h[k] = Update(h[k - 1], log[k])
  PROVE  Replay(log) = h[Len(log)]
<1> DEFINE n == Len(log)
           P(f) == f = [s \in SUBSET DOMAIN log |->
                          IF s = {} THEN ZeroBalance ELSE Update(f[s \ {Max(s)}], log[Max(s)])]
           d == CHOOSE f : P(f)
<1>1. n \in Nat /\ DOMAIN log = 1..n
  OBVIOUS
<1>2. PICK c \in [SUBSET (1..n) -> Balance] : Folding(c, StepOf(log), ZeroBalance, n)
  BY ReplayFolding
<1>3. P(c)
  <2>1. ASSUME NEW s \in SUBSET (1..n), s # {}
        PROVE  StepOf(log)[<<c[s \ {Max(s)}], Max(s)>>] = Update(c[s \ {Max(s)}], log[Max(s)])
    <3>1. Max(s) \in 1..n
      BY <1>1, <2>1, MaxOf
    <3>2. c[s \ {Max(s)}] \in Balance
      BY <1>2
    <3> QED BY <3>1, <3>2, StepOfType
  <2> QED BY <1>1, <1>2, <2>1 DEF Folding
<1>4. P(d)
  <2> HIDE DEF P
  <2> QED BY <1>3
<1>5. Replay(log) = d[DOMAIN log]
  BY DEF Replay, FoldLeft, MapThenFoldSet
<1> HIDE DEF d
<1> DEFINE W == {d[s] : s \in SUBSET (1..n)} \cup {h[k] : k \in 0..n}
           H == [p \in W \X (1..n) |-> Update(p[1], log[p[2]])]
<1>6. Folding(d, H, ZeroBalance, n)
  <2>1. ASSUME NEW s \in SUBSET (1..n), s # {}
        PROVE  H[<<d[s \ {Max(s)}], Max(s)>>] = Update(d[s \ {Max(s)}], log[Max(s)])
    <3>1. Max(s) \in 1..n
      BY <1>1, <2>1, MaxOf
    <3>2. d[s \ {Max(s)}] \in W
      OBVIOUS
    <3> QED BY <3>1, <3>2
  <2> HIDE DEF H
  <2> QED BY <1>1, <1>4, <2>1 DEF Folding
<1>7. \A k \in 1..n : h[k] = H[<<h[k - 1], k>>]
  <2> SUFFICES ASSUME NEW k \in 1..n PROVE h[k] = H[<<h[k - 1], k>>]
    OBVIOUS
  <2>1. k - 1 \in 0..n
    BY <1>1
  <2>2. h[k - 1] \in W
    BY <2>1
  <2> QED BY <2>2
<1> HIDE DEF H
<1>8. d[1..n] = h[n]
  BY <1>1, <1>6, <1>7, FoldingPrefix
<1> QED BY <1>1, <1>5, <1>8

(* One more event is one more Update. *)
LEMMA ReplayAppend ==
  ASSUME NEW log \in Seq(LedgerEvent), NEW event \in LedgerEvent
  PROVE  /\ Replay(log) \in Balance
         /\ Replay(Append(log, event)) = Update(Replay(log), event)
<1> DEFINE new == Append(log, event)
           n == Len(log)
<1>1. /\ n \in Nat /\ new \in Seq(LedgerEvent) /\ Len(new) = n + 1
      /\ \A k \in 1..n : new[k] = log[k]
      /\ new[n + 1] = event
  BY AppendProperties
<1>2. PICK h \in [0..(n + 1) -> Balance] :
        h[0] = ZeroBalance /\ \A k \in 1..(n + 1) : h[k] = Update(h[k - 1], new[k])
  <2> HIDE DEF new
  <2> QED BY <1>1, ReplaySteps
<1> HIDE DEF new
<1>3. Replay(new) = h[n + 1]
  BY <1>1, <1>2, ReplayIs
<1>4. Replay(log) = h[n]
  <2>1. \A k \in 1..n : h[k] = Update(h[k - 1], log[k])
    BY <1>1, <1>2
  <2> QED BY <1>2, <2>1, ReplayIs
<1>5. h[n] \in Balance /\ h[n + 1] = Update(h[n], event)
  <2>1. n \in 0..(n + 1) /\ n + 1 \in 1..(n + 1) /\ (n + 1) - 1 = n
    BY <1>1
  <2> QED BY <1>1, <1>2, <2>1
<1> QED BY <1>3, <1>4, <1>5 DEF new

(* What a committed command does to the balance of the log. *)
LEMMA ReplayCommand ==
  ASSUME NEW log \in Seq(LedgerEvent), NEW command \in LedgerCommand
  PROVE  LET old == Replay(log)
             new == Replay(log \o Handle(command))
         IN  /\ old.available \in Int /\ old.pending \in Int
             /\ command.type = "DebitHold" =>
                  /\ new.available = old.available - command.amount
                  /\ new.pending = old.pending + command.amount
             /\ command.type = "DebitRelease" =>
                  /\ new.available = old.available
                  /\ new.pending = old.pending - command.amount
             /\ command.type = "Credit" =>
                  /\ new.available = old.available + command.amount
                  /\ new.pending = old.pending
<1> DEFINE t == command.transaction_id
           a == command.amount
           old == Replay(log)
<1>1. a \in Int /\ -a \in Int /\ 0 \in Int
  BY DEF LedgerCommand
<1>2. \A type \in MovementType, x, y \in Int : LedgerUpdated(type, t, x, y) \in LedgerEvent
  BY DEF LedgerCommand, LedgerUpdated, LedgerEvent
<1>3. old \in Balance /\ old.available \in Int /\ old.pending \in Int
  <2>1. LedgerUpdated("debit_hold", t, 0, 0) \in LedgerEvent
    BY <1>1, <1>2 DEF MovementType
  <2>2. Replay(log) \in Balance
    BY <2>1, ReplayAppend
  <2> QED BY <2>2 DEF Balance
<1>4. ASSUME NEW type \in MovementType, NEW x \in Int, NEW y \in Int, NEW l \in Seq(LedgerEvent)
      PROVE  LET e == LedgerUpdated(type, t, x, y)
             IN  /\ Append(l, e) \in Seq(LedgerEvent)
                 /\ Replay(Append(l, e)).available = Replay(l).available + x
                 /\ Replay(Append(l, e)).pending = Replay(l).pending + y
  <2> DEFINE e == LedgerUpdated(type, t, x, y)
  <2>1. e \in LedgerEvent
    BY <1>2
  <2>2. Replay(Append(l, e)) = Update(Replay(l), e)
    BY <2>1, ReplayAppend
  <2>3. e.transaction_type # "initiated" /\ e.available_delta = x /\ e.pending_delta = y
    BY DEF LedgerUpdated, MovementType
  <2>4. Append(l, e) \in Seq(LedgerEvent)
    BY <2>1, AppendProperties
  <2> HIDE DEF e
  <2>5. /\ Update(Replay(l), e).available = Replay(l).available + x
        /\ Update(Replay(l), e).pending = Replay(l).pending + y
    BY <2>3 DEF Update
  <2> QED BY <2>2, <2>4, <2>5 DEF e
<1>5. CASE command.type = "DebitHold"
  <2>1. log \o Handle(command) = Append(log, LedgerUpdated("debit_hold", t, -a, a))
    <3>1. Handle(command) = << LedgerUpdated("debit_hold", t, -a, a) >>
      BY <1>5 DEF Handle
    <3> QED BY <3>1
  <2>2. /\ Replay(log \o Handle(command)).available = old.available + (-a)
        /\ Replay(log \o Handle(command)).pending = old.pending + a
    BY <1>1, <1>4, <2>1 DEF MovementType
  <2> QED BY <1>1, <1>3, <1>5, <2>2
<1>6. CASE command.type = "DebitRelease"
  <2>1. log \o Handle(command) = Append(log, LedgerUpdated("debit_release", t, 0, -a))
    <3>1. Handle(command) = << LedgerUpdated("debit_release", t, 0, -a) >>
      BY <1>6 DEF Handle
    <3> QED BY <3>1
  <2>2. /\ Replay(log \o Handle(command)).available = old.available + 0
        /\ Replay(log \o Handle(command)).pending = old.pending + (-a)
    BY <1>1, <1>4, <2>1 DEF MovementType
  <2> QED BY <1>1, <1>3, <1>6, <2>2
<1>7. CASE command.type = "Credit"
  <2> DEFINE e1 == LedgerUpdated("credit_hold", t, 0, a)
             e2 == LedgerUpdated("credit_release", t, a, -a)
  <2>1. Handle(command) = << e1, e2 >>
    BY <1>7 DEF Handle
  <2>2. e1 \in LedgerEvent /\ e2 \in LedgerEvent
    BY <1>1, <1>2 DEF MovementType
  <2>3. /\ Append(log, e1) \in Seq(LedgerEvent)
        /\ Replay(Append(log, e1)).available = old.available + 0
        /\ Replay(Append(log, e1)).pending = old.pending + a
    BY <1>1, <1>4 DEF MovementType
  <2> DEFINE l1 == Append(log, e1)
  <2>4. \A l \in Seq(LedgerEvent) :
          /\ Replay(Append(l, e2)).available = Replay(l).available + a
          /\ Replay(Append(l, e2)).pending = Replay(l).pending + (-a)
    BY <1>1, <1>4 DEF MovementType
  <2> HIDE DEF e1, e2
  <2>5. log \o << e1, e2 >> = Append(l1, e2)
    BY <2>2
  <2> HIDE DEF l1
  <2>6. /\ Replay(log \o Handle(command)).available = Replay(l1).available + a
        /\ Replay(log \o Handle(command)).pending = Replay(l1).pending + (-a)
    BY <2>1, <2>3, <2>4, <2>5 DEF l1
  <2>7. Replay(l1).available = old.available + 0 /\ Replay(l1).pending = old.pending + a
    BY <2>3 DEF l1
  <2> QED BY <1>1, <1>3, <1>7, <2>6, <2>7
<1> QED BY <1>3, <1>5, <1>6, <1>7 DEF LedgerCommand, CommandType

-----------------------------------------------------------------------------
(* The balance of a ledger.                                                *)

Amount == [t \in TxId |-> transactions[t].amount]

(* What was settled of each transaction, as TotalSettled adds it up. *)
Moved == [t \in TxId |-> Cardinality(Settlements(t)) * transactions[t].amount]

(* The inductive form of LedgerAddsUp: sums are over finite sets. *)
BalanceInv == IsFiniteSet(Recorded) /\ LedgerAddsUp

LEMMA RecordedFinite ==
  ASSUME IInv, [Next]_vars, IsFiniteSet(Recorded)
  PROVE  IsFiniteSet(Recorded')
<1>1. CASE Recorded' \subseteq Recorded
  BY <1>1, FS_Subset
<1>2. ASSUME NEW t \in Recorded', t \notin Recorded PROVE IsFiniteSet(Recorded')
  BY <1>2, NewlyRecorded, FS_AddElement
<1> QED BY <1>1, <1>2

LEMMA RecordedAmounts ==
  ASSUME IInv, [Next]_vars, NEW t \in Recorded', t \notin Recorded
  PROVE  t \in TxId /\ transactions'[t].amount \in Int
<1>1. IInv'
  BY StepInv
<1> QED BY <1>1, PaymentsAssumption DEF IInv, TypeOK, Recorded, Transaction, NoTransaction

LEMMA TotalFacts ==
  ASSUME IInv, IsFiniteSet(Recorded), NEW S \in SUBSET Recorded
  PROVE  /\ Total(S) \in Int
         /\ \A t \in Recorded \ S : Total(S \cup {t}) = Total(S) + transactions[t].amount
<1>1. \A t \in Recorded : t \in TxId /\ Amount[t] = transactions[t].amount /\ Amount[t] \in Int
  BY RecordedType, PaymentsAssumption DEF IInv, Transaction, Amount
<1>2. IsFiniteSet(S)
  BY FS_Subset
<1>3. \A R : Total(R) = SumFunctionOnSet(Amount, R)
  BY DEF Total, Amount
<1>4. Total(S) \in Int
  BY <1>1, <1>2, <1>3, SumType
<1>5. ASSUME NEW t \in Recorded \ S PROVE Total(S \cup {t}) = Total(S) + transactions[t].amount
  <2> DEFINE f == Amount
  <2>1. t \notin S /\ \A x \in S \cup {t} : f[x] \in Int
    BY <1>1
  <2> HIDE DEF f
  <2>2. SumFunctionOnSet(f, S \cup {t}) = SumFunctionOnSet(f, S) + f[t]
    BY ONLY <1>2, <2>1, SumAdd
  <2> QED BY <1>1, <1>3, <2>2 DEF f
<1> QED BY <1>4, <1>5

LEMMA MovedType ==
  ASSUME IInv, NEW t \in Recorded
  PROVE  Moved[t] \in Int /\ Moved[t] = Cardinality(Settlements(t)) * transactions[t].amount
<1>1. t \in TxId /\ transactions[t].amount \in Int
  BY RecordedType, PaymentsAssumption DEF IInv, Transaction
<1>2. \A n \in Nat, a \in Int : n * a \in Int
  OBVIOUS
<1> QED BY <1>1, <1>2, SettlementsFinite DEF Moved

(* A settlement of t adds its amount. *)
LEMMA MovedMore ==
  ASSUME NEW n \in Nat, NEW a \in Int
  PROVE  (n + 1) * a = n * a + a
OBVIOUS

(* A transaction that is not settled keeps its part in the sum. *)
LEMMA MovedStays ==
  ASSUME IInv, [Next]_vars, NEW t \in Recorded, Settlements(t)' = Settlements(t)
  PROVE  Moved'[t] = Moved[t]
<1>1. t \in TxId /\ t \in Recorded'
  BY RecordedStays DEF Recorded
<1> QED BY <1>1, TransactionsStay DEF Moved

(* Steps that commit nothing change no balance and none of its parts. *)
LEMMA BalanceAtRest ==
  ASSUME IInv, IsFiniteSet(Recorded), [Next]_vars, UNCHANGED ledger_events, NEW l \in Ledgers
  PROVE  /\ Total(Held(l))' = Total(Held(l))
         /\ \A type : TotalSettled(l, type)' = TotalSettled(l, type)
<1>1. ASSUME NEW t \in Recorded
      PROVE  /\ transactions'[t].account = transactions[t].account
             /\ transactions'[t].type = transactions[t].type
             /\ Settlements(t)' = Settlements(t) /\ Holds(t)' = Holds(t)
             /\ t \in Recorded' /\ Moved'[t] = Moved[t]
  <2>1. transactions'[t].account = transactions[t].account
        /\ transactions'[t].type = transactions[t].type
    BY TransactionsStay
  <2>2. t \in Recorded'
    BY RecordedStays
  <2>3. Settlements(t)' = Settlements(t) /\ Holds(t)' = Holds(t)
    BY <2>1 DEF Settlements, SettlingType, Holds, Movements
  <2> QED BY <2>1, <2>2, <2>3, MovedStays
<1>2. ASSUME NEW t \in Recorded', t \notin Recorded
      PROVE  Recorded' = Recorded \cup {t} /\ Holds(t)' = {} /\ Moved'[t] = 0
  <2>1. Recorded' = Recorded \cup {t} /\ Settlements(t)' = {} /\ Holds(t)' = {}
    BY <1>2, NewlyRecorded
  <2>2. t \in TxId /\ transactions'[t].amount \in Int
    BY <1>2, RecordedAmounts
  <2>3. Cardinality(Settlements(t)') = 0
    BY <2>1, FS_EmptySet
  <2>4. Moved'[t] = 0 * transactions'[t].amount
    BY <2>2, <2>3 DEF Moved
  <2> QED BY <2>1, <2>2, <2>4
<1>3. Held(l)' = Held(l)
  BY <1>1, <1>2 DEF Held, Of
<1>4. Held(l) \in SUBSET Recorded /\ \A type : Of(l, type) \in SUBSET Recorded
  BY DEF Held, Of
<1>5. Total(Held(l))' = Total(Held(l))
  <2>1. \A t \in Held(l) : Amount'[t] = Amount[t]
    BY <1>4, TransactionsStay, RecordedType DEF Amount, IInv
  <2>2. IsFiniteSet(Held(l))
    BY <1>4, FS_Subset
  <2>3. SumFunctionOnSet(Amount', Held(l)) = SumFunctionOnSet(Amount, Held(l))
    BY <2>1, <2>2, SumAgree
  <2>4. Total(Held(l)) = SumFunctionOnSet(Amount, Held(l))
        /\ Total(Held(l))' = SumFunctionOnSet(Amount', Held(l)')
    BY DEF Total, Amount
  <2> QED BY <1>3, <2>3, <2>4
<1>6. ASSUME NEW type PROVE TotalSettled(l, type)' = TotalSettled(l, type)
  <2>1. /\ TotalSettled(l, type) = SumFunctionOnSet(Moved, Of(l, type))
        /\ TotalSettled(l, type)' = SumFunctionOnSet(Moved', Of(l, type)')
    BY DEF TotalSettled, Moved
  <2>2. IsFiniteSet(Of(l, type)) /\ \A t \in Of(l, type) : Moved'[t] = Moved[t] /\ Moved[t] \in Int
    BY <1>1, <1>4, FS_Subset, MovedType
  <2>3. SumFunctionOnSet(Moved', Of(l, type)) = SumFunctionOnSet(Moved, Of(l, type))
    BY <2>2, SumAgree
  <2>4. CASE Of(l, type)' = Of(l, type)
    BY <2>1, <2>3, <2>4
  <2>5. CASE Of(l, type)' # Of(l, type)
    <3>1. PICK t \in Recorded' : t \notin Recorded
      BY <1>1, <2>5 DEF Of
    <3>2. Of(l, type)' = Of(l, type) \cup {t} /\ t \notin Of(l, type)
      BY <1>1, <1>2, <2>5, <3>1 DEF Of
    <3> DEFINE f == Moved'
               S == Of(l, type)
    <3>3. f[t] = 0 /\ \A x \in S \cup {t} : f[x] \in Int
      BY <1>2, <2>2, <3>1
    <3> HIDE DEF f, S
    <3>4. SumFunctionOnSet(f, S \cup {t}) = SumFunctionOnSet(f, S) + f[t]
      BY <2>2, <3>2, <3>3, SumAdd DEF S
    <3>5. SumFunctionOnSet(f, S) \in Int
      BY <2>2, <3>3, SumType DEF S
    <3>6. SumFunctionOnSet(f, S \cup {t}) = SumFunctionOnSet(f, S)
      BY <3>3, <3>4, <3>5
    <3> QED BY <2>1, <2>3, <3>2, <3>6 DEF f, S
  <2> QED BY <2>4, <2>5
<1> QED BY <1>5, <1>6

(* A commit of the debit hold of t holds t. *)
LEMMA CommitHolds ==
  ASSUME TypeOK, NEW q \in Actors, Commit(q), UNCHANGED transactions,
         NEW t \in Recorded, exec[q].command = DebitHold(t)
  PROVE  Holds(t)' # {}
<1> DEFINE command == exec[q].command
           l == command.ledger
           n == Len(ledger_events[l])
<1>1. command \in LedgerCommand
  BY CommandTypes
<1>2. command.type = "DebitHold" /\ l = transactions[t].account /\ command.transaction_id = t
  BY DEF DebitHold
<1>3. /\ Len(Handle(command)) = 1 /\ 1 \in 1..1
      /\ Handle(command)[1].transaction_id = t
      /\ Handle(command)[1].transaction_type = "debit_hold"
  BY <1>1, <1>2, HandleFacts
<1>4. /\ n \in Nat /\ DOMAIN ledger_events'[l] = 1..(n + 1)
      /\ ledger_events'[l][n + 1] = Handle(command)[1]
  BY <1>1, <1>3, CommitFacts
<1>5. n + 1 \in 1..(n + 1)
  BY <1>4
<1> HIDE DEF n
<1>6. n + 1 \in Holds(t)'
  BY <1>2, <1>3, <1>4, <1>5 DEF Holds, Movements
<1> QED BY <1>6

(* What a commit adds to the sums a ledger's balance is made of. *)
LEMMA CommitSets ==
  ASSUME IInv, NEW q \in Actors, Commit(q), StoreUnchangedElsewhere,
         NEW t, t = Subject(q), NEW command, command = exec[q].command,
         NEW l, l = command.ledger
  PROVE  /\ t \in Recorded /\ command \in LedgerCommand
         /\ l = transactions[t].account /\ command.amount = transactions[t].amount
         /\ \/ /\ command.type = "DebitHold"
               /\ t \notin Held(l) /\ Held(l)' = Held(l) \cup {t}
               /\ \A u \in Recorded : Settlements(u)' = Settlements(u)
            \/ /\ command.type = "Credit" <=> transactions[t].type = "Deposit"
               /\ command.type = "DebitRelease" <=> transactions[t].type = "Withdrawal"
               /\ Held(l)' = Held(l)
               /\ Cardinality(Settlements(t)') = Cardinality(Settlements(t)) + 1
               /\ \A u \in Recorded \ {t} : Settlements(u)' = Settlements(u)
<1>1. UNCHANGED transactions /\ exec[q].step = "loaded" /\ TypeOK
  BY DEF Commit, InCall, StoreUnchangedElsewhere, databaseVars, IInv
<1>2. /\ t \in Recorded /\ command \in {DebitHold(t), OutboxCommand(t)}
      /\ q = Processor => command = DebitHold(t) /\ transactions[t].type = "Withdrawal"
      /\ q # Processor => q \in Runs /\ command = OutboxCommand(t)
  BY <1>1, CallSubject
<1>3. command \in LedgerCommand
  BY <1>1, <1>2, CommandTypes
<1>4. /\ command.ledger = transactions[t].account
      /\ command.amount = transactions[t].amount
  BY <1>2 DEF DebitHold, OutboxCommand
<1>5. /\ \A u \in Recorded :
           Settlements(u)' # Settlements(u) => u = t /\ command = OutboxCommand(t)
      /\ \A u \in Recorded : Holds(u)' # Holds(u) => u = t /\ command = DebitHold(t)
  BY <1>1, <1>2, CommitMovements
<1>6. \A type : Of(l, type)' = Of(l, type) /\ Of(l, type) \subseteq Recorded
  BY <1>1 DEF Of, Recorded
<1>7. t \in TxId /\ transactions[t].type \in {"Deposit", "Withdrawal"}
  BY <1>1, <1>2, RecordedType DEF Transaction
<1>8. CASE q = Processor
  <2>1. command = DebitHold(t) /\ command.type = "DebitHold" /\ command # OutboxCommand(t)
    BY <1>2, <1>8 DEF DebitHold, OutboxCommand
  <2>2. Holds(t) = {}
    BY <1>1, <1>8 DEF IInv, ProcessorInv, Subject
  <2>3. Holds(t)' # {}
    BY <1>1, <1>2, <2>1, CommitHolds
  <2>4. t \in Of(l, "Withdrawal")
    BY <1>2, <1>4, <1>8 DEF Of
  <2>5. t \notin Held(l) /\ Held(l)' = Held(l) \cup {t}
    BY <1>5, <1>6, <2>2, <2>3, <2>4 DEF Held
  <2>6. \A u \in Recorded : Settlements(u)' = Settlements(u)
    BY <1>5, <2>1
  <2> QED BY <1>2, <1>3, <1>4, <2>1, <2>5, <2>6
<1>9. CASE q # Processor
  <2>1. q \in Runs /\ command = OutboxCommand(t) /\ command # DebitHold(t)
    BY <1>2, <1>9 DEF DebitHold, OutboxCommand
  <2>2. Held(l)' = Held(l) /\ \A u \in Recorded \ {t} : Settlements(u)' = Settlements(u)
    BY <1>5, <1>6, <2>1 DEF Held
  <2>3. PICK i : i \notin Settlements(t) /\ Settlements(t)' = Settlements(t) \cup {i}
    BY <1>1, <1>2, <2>1, CommitSettles
  <2>4. Cardinality(Settlements(t)') = Cardinality(Settlements(t)) + 1
    BY <1>2, <2>3, SettlementsFinite, FS_AddElement
  <2>5. /\ command.type = "Credit" <=> transactions[t].type = "Deposit"
        /\ command.type = "DebitRelease" <=> transactions[t].type = "Withdrawal"
    BY <1>7, <2>1 DEF OutboxCommand
  <2> QED BY <1>2, <1>3, <1>4, <2>2, <2>4, <2>5
<1> QED BY <1>8, <1>9

(* Other ledgers do not notice. *)
LEMMA CommitElsewhere ==
  ASSUME TypeOK, NEW q \in Actors, Commit(q), UNCHANGED transactions,
         exec[q].command \in LedgerCommand,
         NEW m \in Ledgers, m # exec[q].command.ledger
  PROVE  /\ ledger_events'[m] = ledger_events[m] /\ Held(m)' = Held(m)
         /\ \A type : \A t \in Of(m, type) : Settlements(t)' = Settlements(t)
<1>1. ledger_events'[m] = ledger_events[m]
  BY CommitFacts
<1>2. \A type : /\ Of(m, type)' = Of(m, type)
                /\ \A t \in Of(m, type) : transactions[t].account = m
  BY DEF Of, Recorded
<1>3. \A type : \A t \in Of(m, type) :
        Settlements(t)' = Settlements(t) /\ Holds(t)' = Holds(t)
  BY <1>1, <1>2 DEF Settlements, SettlingType, Holds, Movements
<1> QED BY <1>1, <1>2, <1>3 DEF Held

(* A sum of what was settled, after a commit. *)
LEMMA TotalSettledCommit ==
  ASSUME IInv, IsFiniteSet(Recorded), UNCHANGED transactions, NEW m, NEW type
  PROVE  /\ TotalSettled(m, type) \in Int
         /\ (\A u \in Of(m, type) : Settlements(u)' = Settlements(u)) =>
              TotalSettled(m, type)' = TotalSettled(m, type)
         /\ \A t \in Of(m, type) :
              /\ \A u \in Of(m, type) \ {t} : Settlements(u)' = Settlements(u)
              /\ Cardinality(Settlements(t)') = Cardinality(Settlements(t)) + 1
              => TotalSettled(m, type)' = TotalSettled(m, type) + transactions[t].amount
<1> DEFINE S == Of(m, type)
           f == Moved
           g == Moved'
<1>1. S \in SUBSET Recorded /\ IsFiniteSet(S)
  BY FS_Subset DEF Of
<1>2. /\ TotalSettled(m, type) = SumFunctionOnSet(f, S)
      /\ TotalSettled(m, type)' = SumFunctionOnSet(g, S)
  <2>1. Of(m, type)' = Of(m, type)
    BY DEF Of, Recorded
  <2> QED BY <2>1 DEF TotalSettled, Moved
<1>3. \A u \in S : /\ u \in TxId /\ f[u] \in Int
                   /\ f[u] = Cardinality(Settlements(u)) * transactions[u].amount
                   /\ g[u] = Cardinality(Settlements(u)') * transactions[u].amount
                   /\ Cardinality(Settlements(u)) \in Nat /\ transactions[u].amount \in Int
  <2> SUFFICES ASSUME NEW u \in S
               PROVE  /\ u \in TxId /\ f[u] \in Int
                      /\ f[u] = Cardinality(Settlements(u)) * transactions[u].amount
                      /\ g[u] = Cardinality(Settlements(u)') * transactions[u].amount
                      /\ Cardinality(Settlements(u)) \in Nat /\ transactions[u].amount \in Int
    OBVIOUS
  <2>1. u \in TxId /\ transactions[u].amount \in Int
    BY <1>1, RecordedType, PaymentsAssumption DEF IInv, Transaction
  <2>2. g[u] = Cardinality(Settlements(u)') * transactions[u].amount
    BY <2>1 DEF Moved
  <2> QED BY <1>1, <2>1, <2>2, MovedType, SettlementsFinite
<1>4. \A u \in S : Settlements(u)' = Settlements(u) => g[u] = f[u]
  BY <1>3
<1> HIDE DEF S, f, g
<1>5. SumFunctionOnSet(f, S) \in Int
  BY <1>1, <1>3, SumType
<1>6. ASSUME \A u \in S : Settlements(u)' = Settlements(u)
      PROVE  SumFunctionOnSet(g, S) = SumFunctionOnSet(f, S)
  BY <1>1, <1>4, <1>6, SumAgree
<1>7. ASSUME NEW t \in S, \A u \in S \ {t} : Settlements(u)' = Settlements(u),
             Cardinality(Settlements(t)') = Cardinality(Settlements(t)) + 1
      PROVE  SumFunctionOnSet(g, S) = SumFunctionOnSet(f, S) + transactions[t].amount
  <2>1. g[t] = f[t] + transactions[t].amount
    BY <1>3, <1>7, MovedMore
  <2>2. \A u \in S \ {t} : g[u] = f[u]
    BY <1>4, <1>7
  <2>3. transactions[t].amount \in Int /\ \A u \in S : f[u] \in Int
    BY <1>3
  <2> QED BY <1>1, <2>1, <2>2, <2>3, SumChange
<1> QED BY <1>2, <1>5, <1>6, <1>7 DEF S

(* A commit moves as much on the ledger as its transaction adds to one of *)
(* the sums.                                                              *)
LEMMA BalanceCommit ==
  ASSUME IInv, BalanceInv, NEW q \in Actors, Commit(q), StoreUnchangedElsewhere,
         NEW m \in Ledgers
  PROVE  LET balance == Replay(ledger_events'[m])
         IN  /\ balance.available = TotalSettled(m, "Deposit")' - Total(Held(m))'
             /\ balance.pending = Total(Held(m))' - TotalSettled(m, "Withdrawal")'
<1>1. PICK t, command, l : t = Subject(q) /\ command = exec[q].command /\ l = command.ledger
  OBVIOUS
<1>2. /\ t \in Recorded /\ command \in LedgerCommand
      /\ l = transactions[t].account /\ command.amount = transactions[t].amount
      /\ \/ /\ command.type = "DebitHold"
            /\ t \notin Held(l) /\ Held(l)' = Held(l) \cup {t}
            /\ \A u \in Recorded : Settlements(u)' = Settlements(u)
         \/ /\ command.type = "Credit" <=> transactions[t].type = "Deposit"
            /\ command.type = "DebitRelease" <=> transactions[t].type = "Withdrawal"
            /\ Held(l)' = Held(l)
            /\ Cardinality(Settlements(t)') = Cardinality(Settlements(t)) + 1
            /\ \A u \in Recorded \ {t} : Settlements(u)' = Settlements(u)
  BY <1>1, CommitSets
<1>3. UNCHANGED transactions /\ TypeOK /\ IsFiniteSet(Recorded)
  BY DEF StoreUnchangedElsewhere, databaseVars, IInv, BalanceInv
<1>4. Total(Held(m))' = Total(Held(m)')
  BY <1>3 DEF Total
<1>5. /\ Replay(ledger_events[m]).available = TotalSettled(m, "Deposit") - Total(Held(m))
      /\ Replay(ledger_events[m]).pending = Total(Held(m)) - TotalSettled(m, "Withdrawal")
  BY DEF BalanceInv, LedgerAddsUp
<1>6. CASE m # l
  <2>1. /\ ledger_events'[m] = ledger_events[m] /\ Held(m)' = Held(m)
        /\ \A type : \A u \in Of(m, type) : Settlements(u)' = Settlements(u)
    BY <1>1, <1>2, <1>3, <1>6, CommitElsewhere
  <2>2. \A type : TotalSettled(m, type)' = TotalSettled(m, type)
    BY <1>3, <2>1, TotalSettledCommit
  <2> QED BY <1>4, <1>5, <2>1, <2>2
<1>7. CASE m = l
  <2> DEFINE a == transactions[t].amount
             old == Replay(ledger_events[m])
             new == Replay(ledger_events'[m])
             D == TotalSettled(m, "Deposit")
             W == TotalSettled(m, "Withdrawal")
             H == Total(Held(m))
  <2>1. Held(m) \in SUBSET Recorded /\ \A type : Of(m, type) \in SUBSET Recorded
    BY DEF Held, Of
  <2>2. D \in Int /\ W \in Int
    BY <1>3, TotalSettledCommit
  <2>3. H \in Int /\ (t \notin Held(m) => Total(Held(m) \cup {t}) = H + a)
    BY <1>2, <1>3, <2>1, TotalFacts
  <2>4. ledger_events'[m] = ledger_events[m] \o Handle(command)
        /\ ledger_events[m] \in Seq(LedgerEvent)
    BY <1>1, <1>3, <1>7 DEF Commit, TypeOK, StoreTypeOK
  <2>5. /\ old.available \in Int /\ old.pending \in Int
        /\ command.type = "DebitHold" =>
             new.available = old.available - a /\ new.pending = old.pending + a
        /\ command.type = "DebitRelease" =>
             new.available = old.available /\ new.pending = old.pending - a
        /\ command.type = "Credit" =>
             new.available = old.available + a /\ new.pending = old.pending
    BY <1>2, <2>4, ReplayCommand
  <2>6. a \in Int
    BY <1>2 DEF LedgerCommand
  <2>7. old.available = D - H /\ old.pending = H - W
    BY <1>5
  <2>8. t \in Of(m, transactions[t].type) /\ transactions[t].type \in {"Deposit", "Withdrawal"}
        /\ \A type : type # transactions[t].type => t \notin Of(m, type)
    BY <1>2, <1>3, <1>7, RecordedType DEF Of, Transaction
  <2>9. CASE /\ command.type = "DebitHold"
             /\ t \notin Held(l) /\ Held(l)' = Held(l) \cup {t}
             /\ \A u \in Recorded : Settlements(u)' = Settlements(u)
    <3>1. Total(Held(m)') = H + a
      BY <1>7, <2>3, <2>9
    <3>2. TotalSettled(m, "Deposit")' = D /\ TotalSettled(m, "Withdrawal")' = W
      BY <1>3, <2>1, <2>9, TotalSettledCommit
    <3>3. new.available = old.available - a /\ new.pending = old.pending + a
      BY <2>5, <2>9
    <3> HIDE DEF a, old, new, D, W, H
    <3>4. new.available = D - (H + a) /\ new.pending = (H + a) - W
      BY <2>2, <2>3, <2>6, <2>7, <3>3
    <3> QED BY <1>4, <3>1, <3>2, <3>4 DEF new
  <2>10. CASE /\ command.type = "Credit" <=> transactions[t].type = "Deposit"
              /\ command.type = "DebitRelease" <=> transactions[t].type = "Withdrawal"
              /\ Held(l)' = Held(l)
              /\ Cardinality(Settlements(t)') = Cardinality(Settlements(t)) + 1
              /\ \A u \in Recorded \ {t} : Settlements(u)' = Settlements(u)
    <3>1. Total(Held(m)') = H
      BY <1>7, <2>10
    <3>2. ASSUME NEW type
          PROVE  /\ type = transactions[t].type =>
                       TotalSettled(m, type)' = TotalSettled(m, type) + a
                 /\ type # transactions[t].type =>
                       TotalSettled(m, type)' = TotalSettled(m, type)
      <4>1. \A u \in Of(m, type) \ {t} : Settlements(u)' = Settlements(u)
        BY <2>1, <2>10
      <4>2. CASE type = transactions[t].type
        <5>1. t \in Of(m, type)
          BY <2>8, <4>2
        <5> QED BY <1>3, <2>10, <4>1, <4>2, <5>1, TotalSettledCommit
      <4>3. CASE type # transactions[t].type
        <5>1. \A u \in Of(m, type) : Settlements(u)' = Settlements(u)
          BY <2>8, <4>1, <4>3
        <5> QED BY <1>3, <4>3, <5>1, TotalSettledCommit
      <4> QED BY <4>2, <4>3
    <3>3. CASE transactions[t].type = "Withdrawal"
      <4>1. TotalSettled(m, "Deposit")' = D /\ TotalSettled(m, "Withdrawal")' = W + a
        BY <3>2, <3>3
      <4>2. new.available = old.available /\ new.pending = old.pending - a
        BY <2>5, <2>10, <3>3
      <4> HIDE DEF a, old, new, D, W, H
      <4>3. new.available = D - H /\ new.pending = H - (W + a)
        BY <2>2, <2>3, <2>6, <2>7, <4>2
      <4> QED BY <1>4, <3>1, <4>1, <4>3 DEF new
    <3>4. CASE transactions[t].type = "Deposit"
      <4>1. TotalSettled(m, "Deposit")' = D + a /\ TotalSettled(m, "Withdrawal")' = W
        BY <3>2, <3>4
      <4>2. new.available = old.available + a /\ new.pending = old.pending
        BY <2>5, <2>10, <3>4
      <4> HIDE DEF a, old, new, D, W, H
      <4>3. new.available = (D + a) - H /\ new.pending = H - W
        BY <2>2, <2>3, <2>6, <2>7, <4>2
      <4> QED BY <1>4, <3>1, <4>1, <4>3 DEF new
    <3> QED BY <2>8, <3>3, <3>4
  <2> QED BY <1>2, <2>9, <2>10
<1> QED BY <1>6, <1>7

LEMMA BalanceStep ==
  ASSUME IInv, BalanceInv, [Next]_vars
  PROVE  BalanceInv'
<1>1. IsFiniteSet(Recorded')
  BY RecordedFinite DEF BalanceInv
<1> SUFFICES ASSUME NEW l \in Ledgers
             PROVE  LET balance == Replay(ledger_events'[l])
                    IN  /\ balance.available = TotalSettled(l, "Deposit")' - Total(Held(l))'
                        /\ balance.pending = Total(Held(l))' - TotalSettled(l, "Withdrawal")'
  BY <1>1 DEF BalanceInv, LedgerAddsUp
<1>2. CASE UNCHANGED ledger_events
  <2>1. /\ Total(Held(l))' = Total(Held(l))
        /\ \A type : TotalSettled(l, type)' = TotalSettled(l, type)
    BY <1>2, BalanceAtRest DEF BalanceInv
  <2> QED BY <1>2, <2>1 DEF BalanceInv, LedgerAddsUp
<1>3. CASE ~UNCHANGED ledger_events
  <2>1. PICK q \in Actors : Writes(q)
    BY <1>3, NextOnStore DEF StoreAtRest, IInv
  <2>2. Commit(q) /\ StoreUnchangedElsewhere
    BY <1>3, <2>1 DEF Writes, LoadView, UpdateView
  <2> QED BY <2>2, BalanceCommit
<1> QED BY <1>2, <1>3

LEMMA BalanceInit == Init => BalanceInv
<1> SUFFICES ASSUME Init PROVE BalanceInv
  OBVIOUS
<1>1. Recorded = {}
  BY DEF Init, Recorded, NoTransaction
<1>2. IsFiniteSet(Recorded)
  BY <1>1, FS_EmptySet
<1> SUFFICES ASSUME NEW l \in Ledgers
             PROVE  /\ Replay(ledger_events[l]).available = TotalSettled(l, "Deposit") - Total(Held(l))
                    /\ Replay(ledger_events[l]).pending = Total(Held(l)) - TotalSettled(l, "Withdrawal")
  BY <1>2 DEF BalanceInv, LedgerAddsUp
<1>3. Held(l) = {} /\ \A type : Of(l, type) = {}
  BY <1>1 DEF Held, Of
<1>4. Total({}) = 0 /\ \A type : TotalSettled(l, type) = 0
  BY <1>3, SumEmpty DEF Total, TotalSettled
<1>5. ledger_events[l] = << LedgerInitiated(0) >>
  BY DEF Init, StoreInit
<1>6. LedgerInitiated(0) \in LedgerEvent /\ << >> \in Seq(LedgerEvent)
      /\ << LedgerInitiated(0) >> = Append(<< >>, LedgerInitiated(0))
  BY DEF LedgerInitiated, LedgerEvent
<1>7. Replay(ledger_events[l]) = Update(Replay(<< >>), LedgerInitiated(0))
  BY <1>5, <1>6, ReplayAppend
<1>8. Replay(ledger_events[l]).available = 0 /\ Replay(ledger_events[l]).pending = 0
  BY <1>7 DEF Update, LedgerInitiated
<1> QED BY <1>3, <1>4, <1>8

(* Whatever overlapped, failed or crashed, and for any number of runs: a   *)
(* replay of a ledger's events gives what was deposited on it, as often as *)
(* it was settled, less what was held, and pending what is held and not    *)
(* yet released.  Between Ledger::handle, the outbox and the log nothing   *)
(* but a repeated settlement can lose money or make it.                    *)
THEOREM LedgerAddsUpAlways == Spec => []LedgerAddsUp
<1>1. Init => BalanceInv
  BY BalanceInit
<1>2. IInv /\ BalanceInv /\ [Next]_vars => BalanceInv'
  BY BalanceStep
<1>3. BalanceInv => LedgerAddsUp
  BY DEF BalanceInv
<1> QED BY <1>1, <1>2, <1>3, Invariant, PTL DEF Spec

(* With one run and no fault so far nothing is settled twice, so once all  *)
(* is processed the replay gives what the journal says.                    *)
THEOREM LedgerMatchesJournalAlways ==
  ASSUME \A r, s \in Runs : r = s
  PROVE  Spec => []LedgerMatchesJournal
<1>1. IsFiniteSet(Runs) /\ Cardinality(Runs) \in {0, 1}
  <2>1. Runs = {} \/ \E r : Runs = {r}
    OBVIOUS
  <2> QED BY <2>1, FS_EmptySet, FS_Singleton
<1>2. Spec => []ReplayBound
  BY <1>1, ReplayBoundAlways
<1>3. IInv /\ ReplayBound /\ BalanceInv => LedgerMatchesJournal
  <2> SUFFICES ASSUME IInv, ReplayBound, BalanceInv, AtRest, faults = 0, NEW l \in Ledgers
               PROVE  LET balance == Replay(ledger_events[l])
                      IN  /\ balance.available = Total(Of(l, "Deposit")) - Total(Held(l))
                          /\ balance.pending = Total(Held(l)) - Total(Of(l, "Withdrawal"))
    BY DEF LedgerMatchesJournal
  <2>1. ASSUME NEW t \in Recorded PROVE Cardinality(Settlements(t)) = 1
    <3>1. Cardinality(Settlements(t)) <= Cardinality(Runs) * (1 + 0)
      BY DEF ReplayBound
    <3>2. Cardinality(Settlements(t)) \in Nat /\ IsFiniteSet(Settlements(t))
      BY SettlementsFinite
    <3>3. t \in TxId /\ outbox[t] \in {"none", "pending", "processed"}
      BY DEF Recorded, IInv, TypeOK
    <3>4. outbox[t] # "pending"
      BY <3>3 DEF AtRest, Pending
    <3>5. outbox[t] # "none"
      BY <3>3 DEF IInv, Books, Recorded
    <3>6. Settlements(t) # {}
      BY <3>3, <3>4, <3>5 DEF IInv, Books
    <3>7. Cardinality(Settlements(t)) # 0
      BY <3>2, <3>6, FS_EmptySet
    <3> QED BY <1>1, <3>1, <3>2, <3>7
  <2>2. ASSUME NEW type PROVE TotalSettled(l, type) = Total(Of(l, type))
    <3>1. Of(l, type) \in SUBSET Recorded /\ IsFiniteSet(Of(l, type))
      BY FS_Subset DEF Of, BalanceInv
    <3>2. \A t \in Of(l, type) : Moved[t] = Amount[t]
      <4> SUFFICES ASSUME NEW t \in Of(l, type) PROVE Moved[t] = Amount[t]
        OBVIOUS
      <4>1. t \in TxId /\ transactions[t].amount \in Int
        BY <3>1, RecordedType, PaymentsAssumption DEF IInv, Transaction
      <4>2. Moved[t] = 1 * transactions[t].amount
        BY <2>1, <3>1, MovedType
      <4> QED BY <4>1, <4>2 DEF Amount
    <3> QED BY <3>1, <3>2, SumAgree DEF TotalSettled, Total, Moved, Amount
  <2> QED BY <2>2 DEF BalanceInv, LedgerAddsUp
<1>4. Init => BalanceInv
  BY BalanceInit
<1>5. IInv /\ BalanceInv /\ [Next]_vars => BalanceInv'
  BY BalanceStep
<1> QED BY <1>2, <1>3, <1>4, <1>5, Invariant, PTL DEF Spec
=============================================================================
