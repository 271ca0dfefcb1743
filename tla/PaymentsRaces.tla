---------------------------- MODULE PaymentsRaces ----------------------------
(***************************************************************************)
(* What the concurrent writers of a ledger cannot do to each other: the    *)
(* theorems about Payments that rest on who writes log and view, and when. *)
(*                                                                         *)
(*   the log    a call's events follow the events it was decided on        *)
(*   the view   between the check of a withdrawal and its hold only job    *)
(*              runs write it; one at a time, and where no amount is       *)
(*              negative, they never take away what was seen available     *)
(*   the rows   a job with one run never works on a row that is processed  *)
(***************************************************************************)
EXTENDS PaymentsProofs

AfterCommit == {"committed", "viewed"}

LEMMA CallTypes ==
  ASSUME TypeOK, NEW p \in Actors, exec[p].step \in AfterCommit \cup {"loaded"}
  PROVE  /\ exec[p] \in Call
         /\ exec[p].command \in LedgerCommand
         /\ exec[p].command.ledger \in Ledgers
         /\ exec[p].version \in Nat
         /\ ledger_events[exec[p].command.ledger] \in Seq(LedgerEvent)
<1>1. exec[p] \in Call
  BY DEF TypeOK, StoreTypeOK, OutOfCall, AfterCommit
<1> QED BY <1>1 DEF Call, LedgerCommand, TypeOK, StoreTypeOK

-----------------------------------------------------------------------------
(* Who writes.                                                             *)

(* The steps of a call that write the log or the view, or load the view. *)
Writes(p) ==
  /\ Commit(p) \/ LoadView(p) \/ UpdateView(p)
  /\ StoreUnchangedElsewhere

(* Log and view stay, and a call that has committed stays where it is. *)
StoreAtRest ==
  /\ UNCHANGED <<ledger_events, ledger_views>>
  /\ \A p \in Actors : exec'[p].step \in AfterCommit => exec'[p] = exec[p]

(* Calls that begin, fail or return. *)
LEMMA CallBeginsOrEnds ==
  ASSUME TypeOK, NEW q \in Actors, NEW command,
         \/ Execute(q, command)
         \/ ReturnFrom(q) /\ UNCHANGED <<ledger_events, ledger_views>>
         \/ OptimisticLockError(q)
         \/ StoreFault(q)
  PROVE  StoreAtRest
<1>1. exec \in [Actors -> Call \cup {OutOfCall(s) : s \in {"idle", "ok", "err"}}]
  BY DEF TypeOK, StoreTypeOK
<1>2. CASE Execute(q, command)
  BY <1>1, <1>2 DEF Execute, StoreAtRest, AfterCommit
<1>3. CASE ReturnFrom(q) /\ UNCHANGED <<ledger_events, ledger_views>>
  BY <1>1, <1>3 DEF ReturnFrom, StoreAtRest, OutOfCall, AfterCommit
<1>4. CASE OptimisticLockError(q) \/ StoreFault(q)
  BY <1>1, <1>4 DEF OptimisticLockError, StoreFault, StoreFails, DispatchFails,
       StoreAtRest, OutOfCall, AfterCommit
<1> QED BY <1>2, <1>3, <1>4

LEMMA NextOnStore ==
  ASSUME TypeOK, [Next]_vars
  PROVE  (\E q \in Actors : Writes(q)) \/ StoreAtRest
<1>1. ASSUME UNCHANGED storeVars PROVE StoreAtRest
  BY <1>1 DEF storeVars, StoreAtRest
<1>2. \A q \in Actors : InStore(q) => Writes(q) \/ StoreAtRest
  BY CallBeginsOrEnds DEF InStore, StoreStep, Writes
<1>3. CASE \E command \in Command : Submit(command)
  BY <1>1, <1>3 DEF Submit
<1>4. CASE ProcessorStep
  <2>1. Processor \in Actors
    BY DEF Actors
  <2>2. CASE ReceiveCommand \/ Validate \/ RecordTransaction
    BY <1>1, <2>2 DEF ReceiveCommand, Validate, RecordTransaction
  <2>3. CASE CallDebitHold
    BY <2>1, <2>3, CallBeginsOrEnds DEF CallDebitHold
  <2>4. CASE DebitHoldReturns
    BY <2>1, <2>4, CallBeginsOrEnds DEF DebitHoldReturns
  <2> QED BY <1>2, <1>4, <2>1, <2>2, <2>3, <2>4 DEF ProcessorStep
<1>5. ASSUME NEW r \in Runs, Fetch(r) \/ RunStep(r) PROVE StoreAtRest \/ Writes(r)
  <2>1. r \in Actors
    BY DEF Actors
  <2>2. CASE Fetch(r) \/ SetLock(r) \/ SetExpiry(r) \/ LockHeld(r)
             \/ CheckLock(r) \/ DeleteLock(r)
    BY <1>1, <2>2 DEF Fetch, SetLock, SetExpiry, LockHeld, CheckLock, DeleteLock
  <2>3. CASE ProcessEvent(r)
    BY <2>1, <2>3, CallBeginsOrEnds DEF ProcessEvent
  <2>4. CASE CompleteTransaction(r) \/ EventFailed(r)
    BY <2>1, <2>4, CallBeginsOrEnds DEF CompleteTransaction, EventFailed
  <2> QED BY <1>2, <1>5, <2>1, <2>2, <2>3, <2>4 DEF RunStep
<1>6. CASE LockExpires \/ UNCHANGED vars
  BY <1>1, <1>6 DEF LockExpires, vars, storeVars
<1>7. CASE Fault
  <2>1. CASE RecordFails
    BY <1>1, <2>1 DEF RecordFails
  <2>2. CASE \E p \in Actors : StoreFault(p)
    BY <2>2, CallBeginsOrEnds
  <2>3. ASSUME NEW r \in Runs, CompleteFails(r) \/ RedisFails(r) PROVE StoreAtRest
    <3>1. CASE CompleteFails(r)
      BY <3>1, CallBeginsOrEnds DEF CompleteFails, Actors
    <3>2. CASE RedisFails(r)
      BY <1>1, <3>2 DEF RedisFails
    <3> QED BY <2>3, <3>1, <3>2
  <2>4. CASE Crash
    BY <2>4 DEF Crash, StoreAtRest, OutOfCall, AfterCommit
  <2> QED BY <1>7, <2>1, <2>2, <2>3, <2>4 DEF Fault
<1>8. \A r \in Runs : r \in Actors
  BY DEF Actors
<1> QED BY <1>3, <1>4, <1>5, <1>6, <1>7, <1>8 DEF Next

(* What the two steps on the view do. *)
LEMMA LoadViewFacts ==
  ASSUME TypeOK, NEW q \in Actors, LoadView(q)
  PROVE  /\ exec[q].step = "committed"
         /\ UNCHANGED <<ledger_events, ledger_views>>
         /\ exec'[q].command = exec[q].command
         /\ exec'[q].version = exec[q].version
         /\ exec'[q].view = ledger_views[exec[q].command.ledger]
         /\ \A p \in Actors : p # q => exec'[p] = exec[p]
<1>1. exec \in [Actors -> Call \cup {OutOfCall(s) : s \in {"idle", "ok", "err"}}]
  BY DEF TypeOK, StoreTypeOK
<1>2. exec[q] \in Call /\ exec[q].step = "committed"
  BY CallTypes DEF LoadView, InCall, AfterCommit
<1> DEFINE view == ledger_views[exec[q].command.ledger]
<1>3. /\ exec' = [exec EXCEPT ![q].step = "viewed", ![q].view = view]
      /\ UNCHANGED <<ledger_events, ledger_views>>
  BY DEF LoadView
<1> HIDE DEF view
<1>4. /\ exec'[q].command = exec[q].command
      /\ exec'[q].version = exec[q].version
      /\ exec'[q].view = view
  BY <1>1, <1>2, <1>3 DEF Call
<1>5. \A p \in Actors : p # q => exec'[p] = exec[p]
  BY <1>1, <1>3
<1> QED BY <1>2, <1>3, <1>4, <1>5 DEF view

LEMMA UpdateViewFacts ==
  ASSUME TypeOK, NEW q \in Actors, UpdateView(q)
  PROVE  LET l == exec[q].command.ledger
         IN  /\ exec[q].step = "viewed"
             /\ UNCHANGED ledger_events
             /\ ledger_views'[l] = NewView(q)
             /\ \A m \in Ledgers : m # l => ledger_views'[m] = ledger_views[m]
             /\ exec'[q].step = "ok"
             /\ \A p \in Actors : p # q => exec'[p] = exec[p]
<1>1. exec[q].step = "viewed" /\ exec[q].command.ledger \in Ledgers
  BY CallTypes DEF UpdateView, InCall, AfterCommit
<1> QED BY <1>1 DEF UpdateView, TypeOK, StoreTypeOK, OutOfCall

-----------------------------------------------------------------------------
(* The log.                                                                *)

(* The events of p's call are in the log, right behind the loaded version. *)
Stored(p) ==
  LET log    == ledger_events[exec[p].command.ledger]
      events == Handle(exec[p].command)
  IN  /\ exec[p].version + Len(events) <= Len(log)
      /\ \A i \in 1..Len(events) : log[exec[p].version + i] = events[i]

(* The inductive form of DecidedOnLatest. *)
StoredInv == \A p \in Actors : exec[p].step \in AfterCommit => Stored(p)

(* A commit appends: what it finds stays, its own events follow the        *)
(* version it checked.                                                     *)
LEMMA CommitStored ==
  ASSUME TypeOK, StoredInv, NEW q \in Actors, Commit(q)
  PROVE  StoredInv'
<1> DEFINE l == exec[q].command.ledger
           n == Len(ledger_events[l])
           k == Len(Handle(exec[q].command))
<1>1. exec[q].step = "loaded" /\ exec[q].version = n
  BY DEF Commit, InCall, VersionUnchanged
<1>2. exec[q] \in Call /\ exec[q].command \in LedgerCommand /\ l \in Ledgers
  BY <1>1, CallTypes
<1>3. /\ \A m \in Ledgers : m # l => ledger_events'[m] = ledger_events[m]
      /\ n \in Nat /\ k \in Nat
      /\ ledger_events'[l] \in Seq(LedgerEvent)
      /\ DOMAIN ledger_events'[l] = 1..(n + k)
      /\ \A i \in 1..n : ledger_events'[l][i] = ledger_events[l][i]
      /\ \A i \in 1..k : ledger_events'[l][n + i] = Handle(exec[q].command)[i]
  BY <1>2, CommitFacts
<1>4. Len(ledger_events'[l]) = n + k
  <2> DEFINE len == Len(ledger_events'[l])
  <2>1. len \in Nat /\ 1..len = 1..(n + k)
    BY <1>3, LenProperties
  <2>2. n \in Nat /\ k \in Nat
    BY <1>3
  <2> HIDE DEF len, n, k
  <2>3. n + k \in Nat
    BY <2>2
  <2>4. CASE len < n + k
    <3>1. n + k \in 1..(n + k) /\ n + k \notin 1..len
      BY <2>1, <2>3, <2>4
    <3> QED BY <2>1, <3>1
  <2>5. CASE n + k < len
    <3>1. len \in 1..len /\ len \notin 1..(n + k)
      BY <2>1, <2>3, <2>5
    <3> QED BY <2>1, <3>1
  <2>6. len = n + k
    BY <2>1, <2>3, <2>4, <2>5
  <2> QED BY <2>6 DEF len, n, k
<1>5. /\ exec'[q].command = exec[q].command /\ exec'[q].version = exec[q].version
      /\ \A p \in Actors : p # q => exec'[p] = exec[p]
  BY <1>2 DEF Commit, Call, TypeOK, StoreTypeOK
<1>6. Stored(q)'
  <2>1. n + k <= Len(ledger_events'[l])
    BY <1>3, <1>4
  <2> QED BY <1>1, <1>3, <1>5, <2>1 DEF Stored
<1>7. ASSUME NEW p \in Actors, p # q, exec'[p].step \in AfterCommit PROVE Stored(p)'
  <2> DEFINE m == exec[p].command.ledger
             events == Handle(exec[p].command)
             v == exec[p].version
  <2>1. exec'[p] = exec[p] /\ exec[p].step \in AfterCommit /\ Stored(p)
    BY <1>5, <1>7 DEF StoredInv
  <2>2. exec[p].command \in LedgerCommand /\ m \in Ledgers /\ v \in Nat
        /\ ledger_events[m] \in Seq(LedgerEvent)
    BY <2>1, CallTypes
  <2>3. events \in Seq(LedgerEvent) /\ Len(events) \in Nat
    BY <2>2, HandleFacts, LenProperties
  <2>4. v + Len(events) <= Len(ledger_events[m])
        /\ \A i \in 1..Len(events) : ledger_events[m][v + i] = events[i]
    BY <2>1 DEF Stored
  <2>5. CASE m # l
    BY <1>3, <2>1, <2>2, <2>4, <2>5 DEF Stored
  <2>6. CASE m = l
    <3>1. \A i \in 1..Len(events) : v + i \in 1..n
      BY <1>3, <2>2, <2>3, <2>4, <2>6
    <3>2. \A i \in 1..Len(events) : ledger_events'[m][v + i] = events[i]
      BY <1>3, <2>4, <2>6, <3>1
    <3>3. v + Len(events) <= Len(ledger_events'[m])
      <4>1. Len(ledger_events'[m]) = n + k /\ v + Len(events) <= n
        BY <1>4, <2>4, <2>6
      <4>2. n \in Nat /\ k \in Nat /\ v + Len(events) \in Nat
        BY <1>3, <2>2, <2>3
      <4> HIDE DEF n, k, v, events
      <4> QED BY <4>1, <4>2
    <3> QED BY <2>1, <3>2, <3>3 DEF Stored
  <2> QED BY <2>5, <2>6
<1> QED BY <1>6, <1>7 DEF StoredInv

(* Every call's events stand right behind the state they were decided on,  *)
(* whoever else writes the ledger: the primary key (aggregate_id,          *)
(* sequence) lets one of two calls that loaded the same state commit.      *)
THEOREM DecidedOnLatestAlways == Spec => []DecidedOnLatest
<1>1. Init => StoredInv
  BY DEF Init, StoreInit, StoredInv, OutOfCall, AfterCommit
<1>2. TypeOK /\ StoredInv /\ [Next]_vars => StoredInv'
  <2> SUFFICES ASSUME TypeOK, StoredInv, [Next]_vars PROVE StoredInv'
    OBVIOUS
  <2>1. ASSUME NEW q \in Actors, Writes(q) PROVE StoredInv'
    <3>1. CASE Commit(q)
      BY <3>1, CommitStored
    <3>2. CASE LoadView(q)
      BY <3>2, LoadViewFacts DEF StoredInv, Stored, AfterCommit
    <3>3. CASE UpdateView(q)
      BY <3>3, UpdateViewFacts DEF StoredInv, Stored, AfterCommit
    <3> QED BY <2>1, <3>1, <3>2, <3>3 DEF Writes
  <2>2. CASE StoreAtRest
    BY <2>2 DEF StoreAtRest, StoredInv, Stored
  <2> QED BY <2>1, <2>2, NextOnStore
<1>3. TypeOK /\ StoredInv => DecidedOnLatest
  <2> SUFFICES ASSUME TypeOK, StoredInv, NEW p \in Actors, exec[p].step \in AfterCommit
               PROVE  LET log    == ledger_events[exec[p].command.ledger]
                          events == Handle(exec[p].command)
                      IN  SubSeq(log, exec[p].version + 1,
                                 exec[p].version + Len(events)) = events
    BY DEF DecidedOnLatest, AfterCommit
  <2> DEFINE log == ledger_events[exec[p].command.ledger]
             events == Handle(exec[p].command)
             v == exec[p].version
             part == SubSeq(log, v + 1, v + Len(events))
  <2>1. log \in Seq(LedgerEvent) /\ v \in Nat /\ exec[p].command \in LedgerCommand
    BY CallTypes
  <2>2. events \in Seq(LedgerEvent) /\ Len(events) \in Nat /\ Len(log) \in Nat
    BY <2>1, HandleFacts, LenProperties
  <2>3. v + Len(events) <= Len(log)
        /\ \A i \in 1..Len(events) : log[v + i] = events[i]
    BY DEF StoredInv, Stored
  <2> HIDE DEF log, events, v
  <2>4. \A i \in (v + 1)..(v + Len(events)) : log[i] \in LedgerEvent
    <3> SUFFICES ASSUME NEW i \in (v + 1)..(v + Len(events)) PROVE log[i] \in LedgerEvent
      OBVIOUS
    <3>1. i \in 1..Len(log)
      BY <2>1, <2>2, <2>3
    <3> QED BY <2>1, <3>1, ElementOfSeq
  <2>5. /\ part \in Seq(LedgerEvent)
        /\ Len(part) = Len(events)
        /\ \A i \in 1..Len(events) : part[i] = log[v + i]
    BY <2>1, <2>2, <2>4, SubSeqProperties
  <2> HIDE DEF part
  <2>6. part = events
    BY <2>2, <2>3, <2>5, SeqEqual
  <2> QED BY <2>6 DEF part, log, events, v
<1> QED BY <1>1, <1>2, <1>3, TypeCorrect, PTL DEF Spec

-----------------------------------------------------------------------------
(* The table of transactions.                                              *)

(* The steps that write the table of transactions. *)
LEMMA TransactionsWritten ==
  ASSUME [Next]_vars
  PROVE  \/ UNCHANGED transactions
         \/ RecordTransaction
         \/ \E r \in Runs : CompleteTransaction(r)
<1>1. CASE \E p \in Actors : InStore(p) \/ (StoreFault(p) /\ StoreUnchangedElsewhere)
  BY <1>1 DEF InStore, StoreUnchangedElsewhere, databaseVars
<1>2. CASE ReceiveCommand \/ Validate \/ CallDebitHold \/ DebitHoldReturns \/ RecordFails \/ Crash
  BY <1>2 DEF ReceiveCommand, Validate, CallDebitHold, DebitHoldReturns, RecordFails,
       Crash, databaseVars
<1>3. CASE (\E command \in Command : Submit(command)) \/ LockExpires \/ UNCHANGED vars
  BY <1>3 DEF Submit, LockExpires, vars, databaseVars
<1>4. CASE ProcessorStep
  BY <1>1, <1>2, <1>4 DEF ProcessorStep, Actors
<1>5. ASSUME NEW r \in Runs,
             \/ Fetch(r) \/ SetLock(r) \/ SetExpiry(r) \/ LockHeld(r) \/ CheckLock(r)
             \/ DeleteLock(r) \/ ProcessEvent(r) \/ EventFailed(r)
             \/ CompleteFails(r) \/ RedisFails(r)
      PROVE  UNCHANGED transactions
  BY <1>5 DEF Fetch, SetLock, SetExpiry, LockHeld, CheckLock, DeleteLock, ProcessEvent,
       EventFailed, CompleteFails, RedisFails, databaseVars
<1>6. CASE \E r \in Runs : Fetch(r) \/ RunStep(r)
  BY <1>1, <1>5, <1>6 DEF RunStep, Actors
<1>7. CASE Fault
  BY <1>1, <1>2, <1>5, <1>7 DEF Fault
<1> QED BY <1>3, <1>4, <1>6, <1>7 DEF Next

(* No recorded transaction disappears. *)
LEMMA RecordedStays ==
  ASSUME IInv, [Next]_vars, NEW t \in Recorded
  PROVE  t \in Recorded'
<1>1. t \in TxId /\ transactions[t] \in Transaction
      /\ transactions \in [TxId -> Transaction \cup {NoTransaction}]
  BY RecordedType DEF IInv, TypeOK
<1>2. CASE UNCHANGED transactions
  BY <1>2 DEF Recorded
<1>3. CASE RecordTransaction
  <2>1. PICK u \in TxId :
          /\ NextId(u)
          /\ transactions' = [transactions EXCEPT ![u] = TransactionOf(processor.command)]
    BY <1>3 DEF RecordTransaction
  <2>2. u # t
    BY <2>1 DEF NextId
  <2> QED BY <1>1, <2>1, <2>2 DEF Recorded
<1>4. ASSUME NEW r \in Runs, CompleteTransaction(r) PROVE transactions'[t].status # "none"
  <2>1. transactions' = [transactions EXCEPT ![runs[r].event].status = "completed"]
    BY <1>4 DEF CompleteTransaction
  <2> QED BY <1>1, <2>1 DEF Transaction, Recorded
<1> QED BY <1>1, <1>2, <1>3, <1>4, TransactionsWritten DEF Recorded

(* A recorded transaction keeps its account, its kind and its amount. *)
LEMMA TransactionsStay ==
  ASSUME IInv, [Next]_vars, NEW t \in Recorded
  PROVE  /\ transactions'[t].account = transactions[t].account
         /\ transactions'[t].type = transactions[t].type
         /\ transactions'[t].amount = transactions[t].amount
<1>1. t \in TxId /\ transactions[t] \in Transaction
      /\ transactions \in [TxId -> Transaction \cup {NoTransaction}]
  BY RecordedType DEF IInv, TypeOK
<1>2. CASE UNCHANGED transactions
  BY <1>2
<1>3. CASE RecordTransaction
  <2>1. PICK u \in TxId :
          /\ NextId(u)
          /\ transactions' = [transactions EXCEPT ![u] = TransactionOf(processor.command)]
    BY <1>3 DEF RecordTransaction
  <2>2. u # t
    BY <2>1 DEF NextId
  <2> QED BY <1>1, <2>1, <2>2
<1>4. ASSUME NEW r \in Runs, CompleteTransaction(r)
      PROVE  /\ transactions'[t].account = transactions[t].account
             /\ transactions'[t].type = transactions[t].type
             /\ transactions'[t].amount = transactions[t].amount
  <2>1. transactions' = [transactions EXCEPT ![runs[r].event].status = "completed"]
    BY <1>4 DEF CompleteTransaction
  <2> QED BY <1>1, <2>1 DEF Transaction
<1> QED BY <1>2, <1>3, <1>4, TransactionsWritten

-----------------------------------------------------------------------------
(* The view.                                                               *)

AvailableOf(p) == exec[p].view.available

ViewedLedger(p) == exec[p].command.ledger

(* Where no amount is negative, the processor's copy of a view is never    *)
(* above the row, and a run's copy never below it: neither write can then  *)
(* lower a row by more than the processor's own hold does.                 *)
CopiesInv ==
  /\ exec[Processor].step = "viewed" /\ ViewedLedger(Processor) \in WithoutNegatives =>
       AvailableOf(Processor) <= ledger_views[ViewedLedger(Processor)].available
  /\ \A r \in Runs :
       exec[r].step = "viewed" /\ ViewedLedger(r) \in WithoutNegatives =>
         ledger_views[ViewedLedger(r)].available <= AvailableOf(r)

(* The inductive form of ValidatedFundsRemain. *)
FundsInv == CopiesInv /\ ValidatedFundsRemain

(* A negative amount, once recorded for a ledger, stays. *)
LEMMA NegativesStay ==
  ASSUME IInv, [Next]_vars
  PROVE  WithoutNegatives' \subseteq WithoutNegatives
<1> SUFFICES ASSUME NEW l \in WithoutNegatives', NEW t \in Recorded,
                    transactions[t].account = l
             PROVE  l \in Ledgers /\ transactions[t].amount >= 0
  BY DEF WithoutNegatives
<1>1. t \in Recorded'
  BY RecordedStays
<1>2. transactions'[t].account = l /\ transactions'[t].amount = transactions[t].amount
  BY TransactionsStay
<1> QED BY <1>1, <1>2 DEF WithoutNegatives

(* The steps of a call write no transaction. *)
LEMMA NegativesInCall ==
  ASSUME StoreUnchangedElsewhere
  PROVE  WithoutNegatives' = WithoutNegatives
BY DEF StoreUnchangedElsewhere, databaseVars, WithoutNegatives, Recorded

(* What a hold, and what the command of an outbox row, does to `available`. *)
LEMMA NewViewAvailable ==
  ASSUME NEW view \in Balance, NEW command \in LedgerCommand
  PROVE  LET new == UpdateAll(view, Handle(command))
         IN  /\ command.type = "DebitHold" =>
                  new.available = view.available - command.amount
             /\ command.type = "DebitRelease" => new.available = view.available
             /\ command.type = "Credit" => new.available = view.available + command.amount
<1>1. view.available \in Int /\ command.amount \in Int
  BY DEF Balance, LedgerCommand
<1>2. CASE command.type = "DebitHold"
  <2>1. Handle(command) =
          << LedgerUpdated("debit_hold", command.transaction_id,
                           -command.amount, command.amount) >>
    BY <1>2 DEF Handle
  <2>2. UpdateAll(view, Handle(command)).available = view.available + (-command.amount)
    BY <2>1 DEF UpdateAll, Update, LedgerUpdated
  <2> QED BY <1>1, <1>2, <2>2
<1>3. CASE command.type = "DebitRelease"
  <2>1. Handle(command) =
          << LedgerUpdated("debit_release", command.transaction_id, 0, -command.amount) >>
    BY <1>3 DEF Handle
  <2>2. UpdateAll(view, Handle(command)).available = view.available + 0
    BY <2>1 DEF UpdateAll, Update, LedgerUpdated
  <2> QED BY <1>1, <1>3, <2>2
<1>4. CASE command.type = "Credit"
  <2> DEFINE hold == LedgerUpdated("credit_hold", command.transaction_id, 0, command.amount)
             release == LedgerUpdated("credit_release", command.transaction_id,
                                      command.amount, -command.amount)
  <2>1. Handle(command) = << hold, release >>
    BY <1>4 DEF Handle
  <2>2. UpdateAll(view, Handle(command)) = Update(Update(view, hold), release)
    <3> HIDE DEF hold, release
    <3> QED BY <2>1 DEF UpdateAll
  <2>3. Update(view, hold).available = view.available + 0
    BY DEF Update, LedgerUpdated
  <2>4. Update(Update(view, hold), release).available =
          Update(view, hold).available + command.amount
    BY DEF Update, LedgerUpdated
  <2> HIDE DEF hold, release
  <2>5. UpdateAll(view, Handle(command)).available = view.available + 0 + command.amount
    BY <2>2, <2>3, <2>4
  <2> QED BY <1>1, <1>4, <2>5
<1> QED BY <1>2, <1>3, <1>4 DEF LedgerCommand, CommandType

(* Where no amount is negative, the processor's write lowers what it read, *)
(* and a run's write does not.                                             *)
LEMMA WritesAvailable ==
  ASSUME IInv, NEW q \in Actors, exec[q].step = "viewed",
         ViewedLedger(q) \in WithoutNegatives
  PROVE  /\ AvailableOf(q) \in Int /\ NewView(q).available \in Int
         /\ q = Processor => NewView(q).available <= AvailableOf(q)
         /\ q # Processor => AvailableOf(q) <= NewView(q).available
<1> DEFINE t == Subject(q)
           command == exec[q].command
<1>1. /\ t \in Recorded
      /\ command \in {DebitHold(t), OutboxCommand(t)}
      /\ q = Processor => command = DebitHold(t)
      /\ q # Processor => command = OutboxCommand(t)
  BY CallSubject
<1>2. exec[q] \in Call /\ command \in LedgerCommand
  BY CallTypes DEF IInv, AfterCommit
<1>3. transactions[t].amount \in Int /\ transactions[t].amount >= 0
  <2>1. transactions[t] \in Transaction
    BY <1>1, RecordedType DEF IInv
  <2>2. transactions[t].account = ViewedLedger(q)
    BY <1>1 DEF DebitHold, OutboxCommand, ViewedLedger
  <2> QED BY <1>1, <2>1, <2>2, PaymentsAssumption DEF Transaction, WithoutNegatives
<1>4. command.amount = transactions[t].amount
  BY <1>1 DEF DebitHold, OutboxCommand
<1>5. exec[q].view \in Balance /\ AvailableOf(q) \in Int
  BY <1>2 DEF Call, Balance, AvailableOf
<1>6. /\ command.type = "DebitHold" => NewView(q).available = AvailableOf(q) - command.amount
      /\ command.type = "DebitRelease" => NewView(q).available = AvailableOf(q)
      /\ command.type = "Credit" => NewView(q).available = AvailableOf(q) + command.amount
  BY <1>2, <1>5, NewViewAvailable DEF NewView, AvailableOf
<1>7. /\ q = Processor => command.type = "DebitHold"
      /\ q # Processor => command.type \in {"Credit", "DebitRelease"}
  BY <1>1 DEF DebitHold, OutboxCommand
<1> HIDE DEF t, command
<1> QED BY <1>3, <1>4, <1>5, <1>6, <1>7

LEMMA ViewTypes ==
  ASSUME TypeOK, NEW l \in Ledgers
  PROVE  ledger_views[l].available \in Int
BY DEF TypeOK, StoreTypeOK, Balance

(* The command that ValidatedFundsRemain speaks about. *)
LEMMA CheckedCommand ==
  ASSUME TypeOK, processor.command.type = "Withdrawal"
  PROVE  /\ processor.command.id \in Ledgers
         /\ processor.command.amount \in Int
<1>1. processor.command \in Command
  BY DEF TypeOK, NoCommand
<1> QED BY <1>1, PaymentsAssumption DEF Command

LEMMA FundsLoadView ==
  ASSUME IInv, FundsInv, NEW q \in Actors, LoadView(q), StoreUnchangedElsewhere
  PROVE  FundsInv'
<1>1. /\ exec[q].command.ledger \in Ledgers /\ TypeOK
      /\ UNCHANGED ledger_views
      /\ exec'[q].command = exec[q].command
      /\ exec'[q].view = ledger_views[exec[q].command.ledger]
      /\ \A p \in Actors : p # q => exec'[p] = exec[p]
  BY LoadViewFacts, CallTypes DEF IInv, AfterCommit
<1>2. ledger_views[exec[q].command.ledger].available \in Int
  BY <1>1, ViewTypes
<1>3. WithoutNegatives' = WithoutNegatives
  BY NegativesInCall
<1>4. CopiesInv'
  BY <1>1, <1>2, <1>3 DEF FundsInv, CopiesInv, AvailableOf, ViewedLedger, Actors
<1>5. ValidatedFundsRemain'
  BY <1>1, <1>3 DEF FundsInv, ValidatedFundsRemain, StoreUnchangedElsewhere
<1> QED BY <1>4, <1>5 DEF FundsInv

(* The processor writes a row: what it lowers it to is below every copy a  *)
(* run has, and it checks nothing while its own call is under way.         *)
LEMMA FundsProcessorUpdates ==
  ASSUME IInv, FundsInv, UpdateView(Processor), StoreUnchangedElsewhere
  PROVE  FundsInv'
<1> DEFINE l == ViewedLedger(Processor)
<1>1. Processor \in Actors /\ Processor \notin Runs
  BY ActorAssumption DEF Actors
<1>2. /\ exec[Processor].step = "viewed" /\ l \in Ledgers /\ TypeOK
      /\ ledger_views'[l] = NewView(Processor)
      /\ \A m \in Ledgers : m # l => ledger_views'[m] = ledger_views[m]
      /\ exec'[Processor].step = "ok"
      /\ \A p \in Actors : p # Processor => exec'[p] = exec[p]
  BY <1>1, UpdateViewFacts, CallTypes DEF IInv, AfterCommit, ViewedLedger
<1>3. ASSUME l \in WithoutNegatives
      PROVE  /\ NewView(Processor).available <= ledger_views[l].available
             /\ NewView(Processor).available \in Int /\ ledger_views[l].available \in Int
  <2>1. AvailableOf(Processor) <= ledger_views[l].available
    BY <1>2, <1>3 DEF FundsInv, CopiesInv
  <2>2. /\ AvailableOf(Processor) \in Int /\ NewView(Processor).available \in Int
        /\ NewView(Processor).available <= AvailableOf(Processor)
    BY <1>1, <1>2, <1>3, WritesAvailable
  <2>3. ledger_views[l].available \in Int
    BY <1>2, ViewTypes
  <2> HIDE DEF l
  <2> QED BY <2>1, <2>2, <2>3
<1>4. ASSUME NEW r \in Runs, exec'[r].step = "viewed", ViewedLedger(r) \in WithoutNegatives
      PROVE  ledger_views'[ViewedLedger(r)].available <= AvailableOf(r)
  <2>1. exec[r].step = "viewed" /\ r \in Actors /\ r # Processor
    BY <1>1, <1>2, <1>4 DEF Actors
  <2>2. ledger_views[ViewedLedger(r)].available <= AvailableOf(r)
    BY <1>4, <2>1 DEF FundsInv, CopiesInv
  <2>3. ViewedLedger(r) \in Ledgers /\ AvailableOf(r) \in Int
    <3>1. exec[r] \in Call /\ exec[r].command.ledger \in Ledgers
      BY <1>2, <2>1, CallTypes DEF AfterCommit
    <3> QED BY <3>1 DEF ViewedLedger, AvailableOf, Call, Balance
  <2>4. CASE ViewedLedger(r) # l
    BY <1>2, <2>2, <2>3, <2>4
  <2>5. CASE ViewedLedger(r) = l
    <3> HIDE DEF l
    <3> QED BY <1>2, <1>3, <1>4, <2>2, <2>3, <2>5
  <2> QED BY <2>4, <2>5
<1>5. CopiesInv'
  <2>1. \A r \in Runs : ViewedLedger(r)' = ViewedLedger(r) /\ AvailableOf(r)' = AvailableOf(r)
    BY <1>1, <1>2 DEF ViewedLedger, AvailableOf, Actors
  <2>2. WithoutNegatives' = WithoutNegatives
    BY NegativesInCall
  <2> QED BY <1>2, <1>4, <2>1, <2>2 DEF CopiesInv
<1>6. ValidatedFundsRemain'
  <2>1. processor.step = "holding" /\ UNCHANGED processor
    BY <1>1, <1>2, CallSubject DEF StoreUnchangedElsewhere
  <2> QED BY <2>1 DEF ValidatedFundsRemain
<1> QED BY <1>5, <1>6 DEF FundsInv

(* A run writes a row: it is the only run in a call, and what it raises    *)
(* the row to is not below the row, so the processor's copy stays below it. *)
LEMMA FundsRunUpdates ==
  ASSUME IInv, LockExclusion, FundsInv,
         NEW q \in Runs, UpdateView(q), StoreUnchangedElsewhere
  PROVE  FundsInv'
<1> DEFINE l == ViewedLedger(q)
<1>0. WithoutNegatives' = WithoutNegatives
  BY NegativesInCall
<1>1. q \in Actors /\ q # Processor /\ Processor \in Actors
  BY ActorAssumption DEF Actors
<1>2. /\ exec[q].step = "viewed" /\ l \in Ledgers /\ TypeOK
      /\ ledger_views'[l] = NewView(q)
      /\ \A m \in Ledgers : m # l => ledger_views'[m] = ledger_views[m]
      /\ exec'[q].step = "ok"
      /\ \A p \in Actors : p # q => exec'[p] = exec[p]
  BY <1>1, UpdateViewFacts, CallTypes DEF IInv, AfterCommit, ViewedLedger
<1>3. ASSUME NEW m \in WithoutNegatives
      PROVE  /\ ledger_views[m].available <= ledger_views'[m].available
             /\ ledger_views[m].available \in Int /\ ledger_views'[m].available \in Int
  <2>1. m \in Ledgers /\ ledger_views[m].available \in Int
    BY <1>2, ViewTypes DEF WithoutNegatives
  <2>2. CASE m # l
    BY <1>2, <2>1, <2>2
  <2>3. CASE m = l
    <3>1. ledger_views[m].available <= AvailableOf(q)
      BY <1>2, <2>3 DEF FundsInv, CopiesInv
    <3>2. /\ AvailableOf(q) \in Int /\ NewView(q).available \in Int
          /\ AvailableOf(q) <= NewView(q).available
      BY <1>1, <1>2, <2>3, WritesAvailable
    <3> HIDE DEF l
    <3> QED BY <1>2, <2>1, <2>3, <3>1, <3>2
  <2> QED BY <2>2, <2>3
<1>4. \A r \in Runs : exec'[r].step # "viewed"
  <2> SUFFICES ASSUME NEW r \in Runs, exec'[r].step = "viewed" PROVE FALSE
    OBVIOUS
  <2>1. r # q /\ exec[r].step = "viewed" /\ r \in Actors /\ r # Processor
    BY <1>2, ActorAssumption DEF Actors
  <2>2. runs[r].step = "executing" /\ runs[q].step = "executing"
    BY <1>1, <1>2, <2>1, CallSubject
  <2> QED BY <2>1, <2>2 DEF LockExclusion
<1>5. CopiesInv'
  <2> SUFFICES ASSUME exec'[Processor].step = "viewed",
                      ViewedLedger(Processor)' \in WithoutNegatives'
               PROVE  (AvailableOf(Processor) <= ledger_views[ViewedLedger(Processor)].available)'
    BY <1>4 DEF CopiesInv
  <2>1. /\ exec'[Processor] = exec[Processor] /\ exec[Processor].step = "viewed"
        /\ ViewedLedger(Processor) \in WithoutNegatives
    BY <1>0, <1>1, <1>2 DEF ViewedLedger
  <2>2. AvailableOf(Processor) <= ledger_views[ViewedLedger(Processor)].available
    BY <2>1 DEF FundsInv, CopiesInv
  <2>3. AvailableOf(Processor) \in Int
    <3>1. exec[Processor] \in Call /\ exec[Processor].command.ledger \in Ledgers
      BY <1>1, <1>2, <2>1, CallTypes DEF AfterCommit
    <3> QED BY <3>1 DEF AvailableOf, Call, Balance
  <2>4. AvailableOf(Processor) <= ledger_views'[ViewedLedger(Processor)].available
    BY <1>3, <2>1, <2>2, <2>3
  <2> QED BY <2>1, <2>4 DEF AvailableOf, ViewedLedger
<1>6. ValidatedFundsRemain'
  <2> SUFFICES ASSUME processor'.step \in {"record", "hold"},
                      processor'.command.type = "Withdrawal",
                      processor'.command.id \in WithoutNegatives'
               PROVE  ledger_views'[processor'.command.id].available >= processor'.command.amount
    BY DEF ValidatedFundsRemain
  <2>1. UNCHANGED processor /\ processor.command.id \in WithoutNegatives
    BY <1>0 DEF StoreUnchangedElsewhere
  <2>2. processor.command.id \in Ledgers /\ processor.command.amount \in Int
    BY <1>2, <2>1, CheckedCommand
  <2>3. ledger_views[processor.command.id].available >= processor.command.amount
    BY <2>1 DEF FundsInv, ValidatedFundsRemain
  <2> QED BY <1>3, <2>1, <2>2, <2>3
<1> QED BY <1>5, <1>6 DEF FundsInv

(* Every way into "record" or "hold" passes the check, with no write since. *)
LEMMA FundsAtRest ==
  ASSUME IInv, FundsInv, StoreAtRest, [Next]_vars
  PROVE  FundsInv'
<1>0. WithoutNegatives' \subseteq WithoutNegatives
  BY NegativesStay
<1>1. CopiesInv'
  BY <1>0 DEF FundsInv, CopiesInv, StoreAtRest, AvailableOf, ViewedLedger, AfterCommit, Actors
<1> DEFINE Kept == processor'.step \in {"record", "hold"} =>
                     /\ processor.step \in {"record", "hold"}
                     /\ processor'.command = processor.command
<1>2. CASE Kept
  <2> SUFFICES ASSUME processor'.step \in {"record", "hold"},
                      processor'.command.type = "Withdrawal",
                      processor'.command.id \in WithoutNegatives'
               PROVE  ledger_views'[processor'.command.id].available >= processor'.command.amount
    BY <1>1 DEF FundsInv, ValidatedFundsRemain
  <2>1. /\ processor.step \in {"record", "hold"} /\ processor'.command = processor.command
        /\ processor.command.id \in WithoutNegatives
    BY <1>0, <1>2
  <2>2. ledger_views[processor.command.id].available >= processor.command.amount
    BY <2>1 DEF FundsInv, ValidatedFundsRemain
  <2>3. ledger_views' = ledger_views
    BY DEF StoreAtRest
  <2> QED BY <2>1, <2>2, <2>3
<1>3. CASE Validate
  <2>1. processor'.step \in {"record", "hold"} =>
          Valid(processor.command) /\ processor'.command = processor.command
    BY <1>3 DEF Validate, IdleProcessor, IInv, TypeOK
  <2> SUFFICES ASSUME processor'.step \in {"record", "hold"},
                      processor'.command.type = "Withdrawal"
               PROVE  ledger_views[processor.command.id].available >= processor.command.amount
    BY <1>1, <2>1 DEF FundsInv, ValidatedFundsRemain, StoreAtRest
  <2>2. processor.command.id \in Ledgers /\ processor.command.amount \in Int
        /\ ledger_views[processor.command.id].available \in Int
    BY <2>1, CheckedCommand, ViewTypes DEF IInv
  <2> QED BY <2>1, <2>2 DEF Valid
<1>4. CASE ~Validate
  <2>1. CASE UNCHANGED processor
    BY <1>2, <2>1
  <2>2. CASE ReceiveCommand \/ DebitHoldReturns \/ RecordFails \/ Crash
    <3>1. processor'.step \in {"idle", "validate"}
      <4>1. CASE ReceiveCommand
        BY <4>1 DEF ReceiveCommand, IdleProcessor
      <4>2. CASE DebitHoldReturns \/ RecordFails \/ Crash
        BY <4>2 DEF DebitHoldReturns, RecordFails, Crash, IdleProcessor
      <4> QED BY <2>2, <4>1, <4>2
    <3> QED BY <1>2, <3>1
  <2>3. CASE RecordTransaction \/ CallDebitHold
    <3>1. CASE RecordTransaction
      <4>1. Kept
        BY <3>1 DEF RecordTransaction, IdleProcessor, IInv, TypeOK
      <4> QED BY <1>2, <4>1
    <3>2. CASE CallDebitHold
      <4>1. processor'.step = "holding"
        BY <3>2 DEF CallDebitHold, IInv, TypeOK
      <4> QED BY <1>2, <4>1
    <3> QED BY <2>3, <3>1, <3>2
  <2>4. CASE \E command \in Command : Submit(command)
    BY <2>1, <2>4 DEF Submit
  <2>5. ASSUME NEW p \in Actors, InStore(p) \/ (StoreFault(p) /\ StoreUnchangedElsewhere)
        PROVE  UNCHANGED processor
    BY <2>5 DEF InStore, StoreUnchangedElsewhere
  <2>6. ASSUME NEW r \in Runs, Fetch(r) \/ RunStep(r) \/ CompleteFails(r) \/ RedisFails(r)
        PROVE  UNCHANGED processor
    BY <2>5, <2>6 DEF Fetch, RunStep, SetLock, SetExpiry, LockHeld, ProcessEvent,
         CompleteTransaction, EventFailed, CheckLock, DeleteLock, CompleteFails, RedisFails, Actors
  <2>7. CASE LockExpires \/ UNCHANGED vars
    BY <2>1, <2>7 DEF LockExpires, vars
  <2>8. Processor \in Actors
    BY DEF Actors
  <2>9. CASE ProcessorStep
    BY <1>4, <2>1, <2>2, <2>3, <2>5, <2>8, <2>9 DEF ProcessorStep
  <2>10. CASE Fault
    BY <2>1, <2>2, <2>5, <2>6, <2>10 DEF Fault
  <2> QED BY <2>1, <2>4, <2>6, <2>7, <2>9, <2>10 DEF Next
<1>5. ValidatedFundsRemain'
  BY <1>3, <1>4 DEF FundsInv
<1> QED BY <1>1, <1>5 DEF FundsInv

(* If no run outlives the lock, the money a withdrawal was seen to have is *)
(* still in the view when its hold is executed, although nothing is locked *)
(* between BankAccountLogic::validate and the DebitHold: for amounts of    *)
(* either sign, on every ledger that no negative one was recorded for,     *)
(* also when calls fail, the process dies and the view loses updates.      *)
THEOREM ValidatedFundsRemainAlways ==
  ASSUME ~RunsOutliveLock
  PROVE  Spec => []ValidatedFundsRemain
<1>1. Init => FundsInv
  BY DEF Init, StoreInit, FundsInv, CopiesInv, ValidatedFundsRemain, OutOfCall, IdleProcessor,
       Actors
<1>2. IInv /\ LockExclusion /\ FundsInv /\ [Next]_vars => FundsInv'
  <2> SUFFICES ASSUME IInv, LockExclusion, FundsInv, [Next]_vars PROVE FundsInv'
    OBVIOUS
  <2>1. ASSUME NEW q \in Actors, Writes(q) PROVE FundsInv'
    <3>1. CASE Commit(q)
      <4>1. UNCHANGED ledger_views /\ UNCHANGED processor
            /\ \A p \in Actors : exec'[p].step = "viewed" => exec'[p] = exec[p]
        BY <2>1, <3>1 DEF Writes, Commit, StoreUnchangedElsewhere, IInv, TypeOK, StoreTypeOK
      <4>2. WithoutNegatives' = WithoutNegatives
        BY <2>1, NegativesInCall DEF Writes
      <4> QED BY <4>1, <4>2 DEF FundsInv, CopiesInv, ValidatedFundsRemain, AvailableOf,
                 ViewedLedger, Actors
    <3>2. CASE LoadView(q)
      BY <2>1, <3>2, FundsLoadView DEF Writes
    <3>3. CASE UpdateView(q)
      BY <2>1, <3>3, FundsProcessorUpdates, FundsRunUpdates DEF Writes, Actors
    <3> QED BY <2>1, <3>1, <3>2, <3>3 DEF Writes
  <2> QED BY <2>1, FundsAtRest, NextOnStore DEF IInv
<1>3. FundsInv => ValidatedFundsRemain
  BY DEF FundsInv
<1> QED BY <1>1, <1>2, <1>3, Invariant, LockExclusionAlways, PTL DEF Spec

-----------------------------------------------------------------------------
(* The rows.                                                               *)

(* What a run is about to settle is still unprocessed. *)
FreshInv ==
  \A r \in Runs :
    /\ runs[r].batch \subseteq Pending
    /\ runs[r].step = "executing" => runs[r].event \in Pending

(* A run's step on its own memory, and on the row it completes. *)
LEMMA FreshRunStep ==
  ASSUME IInv, FreshInv, \A r, s \in Runs : r = s, NEW r \in Runs,
         \/ Fetch(r)
         \/ SetLock(r) \/ SetExpiry(r) \/ LockHeld(r) \/ CheckLock(r) \/ DeleteLock(r)
         \/ ProcessEvent(r) \/ CompleteTransaction(r) \/ EventFailed(r)
         \/ CompleteFails(r) \/ RedisFails(r)
  PROVE  FreshInv'
<1>1. TypeOK /\ runs \in [Runs -> [step: RunStates, batch: SUBSET TxId,
                                   event: TxId \cup {NoTxId}]]
  BY DEF IInv, TypeOK
<1>2. runs[r].batch \subseteq Pending
      /\ (runs[r].step = "executing" => runs[r].event \in Pending)
  BY DEF FreshInv
<1>3. ASSUME UNCHANGED outbox, runs'[r].batch \subseteq Pending,
             runs'[r].step = "executing" => runs'[r].event \in Pending
      PROVE  FreshInv'
  <2>1. Pending' = Pending
    BY <1>3 DEF Pending
  <2>2. \A s \in Runs : s = r
    OBVIOUS
  <2> QED BY <1>3, <2>1, <2>2 DEF FreshInv
<1>4. CASE Fetch(r)
  BY <1>1, <1>3, <1>4 DEF Fetch, Batch, IdleRun, databaseVars
<1>5. CASE SetLock(r) \/ SetExpiry(r)
  BY <1>1, <1>2, <1>3, <1>5 DEF SetLock, SetExpiry, databaseVars
<1>6. CASE LockHeld(r) \/ CheckLock(r) \/ DeleteLock(r) \/ RedisFails(r)
  <2>1. runs'[r].batch = {} /\ runs'[r].step # "executing" /\ UNCHANGED outbox
    <3>1. CASE CheckLock(r)
      BY <1>1, <3>1 DEF CheckLock, IdleRun, databaseVars
    <3>2. CASE LockHeld(r) \/ DeleteLock(r) \/ RedisFails(r)
      BY <1>1, <3>2 DEF LockHeld, DeleteLock, RedisFails, IdleRun, databaseVars
    <3> QED BY <1>6, <3>1, <3>2
  <2> QED BY <1>3, <2>1
<1>7. CASE ProcessEvent(r)
  BY <1>1, <1>2, <1>3, <1>7 DEF ProcessEvent, Oldest, databaseVars
<1>8. CASE CompleteTransaction(r) \/ EventFailed(r) \/ CompleteFails(r)
  <2>1. runs'[r].step = "locked" /\ runs'[r].batch = runs[r].batch \ {runs[r].event}
    BY <1>1, <1>8 DEF CompleteTransaction, EventFailed, CompleteFails, NextEvent
  <2>2. CASE UNCHANGED outbox
    BY <1>2, <1>3, <2>1, <2>2
  <2>3. CASE CompleteTransaction(r)
    <3>1. outbox' = [outbox EXCEPT ![runs[r].event] = "processed"]
      BY <2>3 DEF CompleteTransaction
    <3>2. \A t \in TxId : t # runs[r].event => outbox'[t] = outbox[t]
      BY <1>1, <3>1 DEF TypeOK
    <3>3. runs'[r].batch \subseteq Pending'
      BY <1>2, <2>1, <3>2 DEF Pending
    <3>4. \A s \in Runs : s = r
      OBVIOUS
    <3> QED BY <2>1, <3>3, <3>4 DEF FreshInv
  <2> QED BY <1>8, <2>2, <2>3 DEF EventFailed, CompleteFails, databaseVars
<1> QED BY <1>4, <1>5, <1>6, <1>7, <1>8

(* Nobody else touches a run's memory, except a crash, which clears it,    *)
(* and nobody else takes a row out of Pending.                             *)
LEMMA FreshStep ==
  ASSUME IInv, FreshInv, \A r, s \in Runs : r = s, [Next]_vars
  PROVE  FreshInv'
<1>1. CASE UNCHANGED <<runs, outbox>>
  BY <1>1 DEF FreshInv, Pending
<1>2. CASE RecordTransaction
  <2>1. UNCHANGED runs
    BY <1>2 DEF RecordTransaction, jobVars
  <2>2. Pending \subseteq Pending'
    BY <1>2 DEF RecordTransaction, Pending, IInv, TypeOK
  <2> QED BY <2>1, <2>2 DEF FreshInv
<1>3. CASE Crash
  BY <1>3 DEF Crash, FreshInv, IdleRun
<1>4. CASE \E p \in Actors : InStore(p) \/ (StoreFault(p) /\ StoreUnchangedElsewhere)
  BY <1>1, <1>4 DEF InStore, StoreUnchangedElsewhere, jobVars, databaseVars
<1>5. CASE ReceiveCommand \/ Validate \/ CallDebitHold \/ DebitHoldReturns \/ RecordFails
  BY <1>1, <1>5 DEF ReceiveCommand, Validate, CallDebitHold, DebitHoldReturns, RecordFails,
       jobVars, databaseVars
<1>6. CASE (\E command \in Command : Submit(command)) \/ LockExpires \/ UNCHANGED vars
  BY <1>1, <1>6 DEF Submit, LockExpires, vars, jobVars, databaseVars
<1>7. CASE ProcessorStep
  BY <1>2, <1>4, <1>5, <1>7 DEF ProcessorStep, Actors
<1>8. CASE \E r \in Runs : Fetch(r) \/ RunStep(r)
  BY <1>4, <1>8, FreshRunStep DEF RunStep, Actors
<1>9. CASE Fault
  BY <1>3, <1>4, <1>5, <1>9, FreshRunStep DEF Fault
<1> QED BY <1>6, <1>7, <1>8, <1>9 DEF Next

(* A transaction gets a settlement from the call of a run that works on    *)
(* its row, and from nothing else.                                         *)
LEMMA SettlingStep ==
  ASSUME IInv, [Next]_vars, NEW t \in Recorded, Settlements(t)' # Settlements(t)
  PROVE  \E r \in Runs : runs[r].step = "executing" /\ runs[r].event = t
<1>1. transactions'[t].account = transactions[t].account
      /\ transactions'[t].type = transactions[t].type
  BY TransactionsStay
<1>2. ledger_events' # ledger_events
  BY <1>1 DEF Settlements, SettlingType, Movements
<1>3. PICK q \in Actors : Writes(q)
  BY <1>2, NextOnStore DEF StoreAtRest, IInv
<1>4. Commit(q) /\ UNCHANGED transactions
  BY <1>2, <1>3 DEF Writes, LoadView, UpdateView, StoreUnchangedElsewhere, databaseVars
<1>5. exec[q].step = "loaded"
  BY <1>4 DEF Commit, InCall
<1>6. PICK u : u = Subject(q)
  OBVIOUS
<1>7. /\ u \in Recorded /\ exec[q].command \in {DebitHold(u), OutboxCommand(u)}
      /\ q = Processor => exec[q].command = DebitHold(u)
      /\ q # Processor => q \in Runs /\ runs[q].step = "executing"
  BY <1>5, <1>6, CallSubject
<1>8. t = u /\ exec[q].command = OutboxCommand(u)
  BY <1>4, <1>7, CommitMovements DEF IInv
<1>9. DebitHold(u) # OutboxCommand(u)
  BY DEF DebitHold, OutboxCommand
<1> QED BY <1>6, <1>7, <1>8, <1>9 DEF Subject

(* With one run at a time, what is completed is never settled again, not   *)
(* even after a failed call or a crash: job.rs reads only unprocessed      *)
(* rows, and drops each from its batch in the step that completes it.      *)
THEOREM NoLateSettlementAlways ==
  ASSUME \A r, s \in Runs : r = s
  PROVE  Spec => NoLateSettlement
<1>1. Init => FreshInv
  BY DEF Init, FreshInv, IdleRun
<1>2. IInv /\ FreshInv /\ [Next]_vars => FreshInv'
  BY FreshStep
<1>3. IInv /\ FreshInv /\ [Next]_vars =>
        \A t \in Recorded :
          transactions[t].status = "completed" => Settlements(t)' = Settlements(t)
  <2> SUFFICES ASSUME IInv, FreshInv, [Next]_vars, NEW t \in Recorded,
                      transactions[t].status = "completed", Settlements(t)' # Settlements(t)
               PROVE  FALSE
    OBVIOUS
  <2>1. PICK r \in Runs : runs[r].step = "executing" /\ runs[r].event = t
    BY SettlingStep
  <2>2. outbox[t] = "pending"
    BY <2>1 DEF FreshInv, Pending
  <2>3. t \in TxId /\ outbox[t] = "processed"
    BY DEF IInv, Books, Recorded
  <2> QED BY <2>2, <2>3
<1>4. Spec => [][\A t \in Recorded :
                   transactions[t].status = "completed" => Settlements(t)' = Settlements(t)]_vars
  BY <1>1, <1>2, <1>3, Invariant, PTL DEF Spec
<1> QED BY <1>4 DEF NoLateSettlement
=============================================================================
