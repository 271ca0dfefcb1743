--------------------------- MODULE PaymentsProofs ---------------------------
(***************************************************************************)
(* Theorems about Payments, for every set of accounts, transactions and    *)
(* runs, any amounts, any bound on faults and whether or not runs outlive  *)
(* the lock.                                                               *)
(***************************************************************************)
EXTENDS Payments, SequenceTheorems, FiniteSetTheorems, TLAPS

-----------------------------------------------------------------------------
(* The pure part: what Handle and Update return.                           *)

LEMMA HandleFacts ==
  ASSUME NEW command \in LedgerCommand
  PROVE  /\ Handle(command) \in Seq(LedgerEvent)
         /\ \A i \in 1..Len(Handle(command)) :
              Handle(command)[i].transaction_id = command.transaction_id
         /\ command.type = "DebitHold" =>
              /\ Len(Handle(command)) = 1
              /\ Handle(command)[1].transaction_type = "debit_hold"
         /\ command.type = "DebitRelease" =>
              /\ Len(Handle(command)) = 1
              /\ Handle(command)[1].transaction_type = "debit_release"
         /\ command.type = "Credit" =>
              /\ Len(Handle(command)) = 2
              /\ Handle(command)[1].transaction_type = "credit_hold"
              /\ Handle(command)[2].transaction_type = "credit_release"
<1> DEFINE t == command.transaction_id
           a == command.amount
<1>1. \A type \in MovementType, x, y \in Int : LedgerUpdated(type, t, x, y) \in LedgerEvent
  BY DEF LedgerCommand, LedgerUpdated, LedgerEvent
<1>2. a \in Int /\ -a \in Int /\ 0 \in Int
  BY DEF LedgerCommand
<1>3. CASE command.type = "DebitHold"
  <2>1. Handle(command) = << LedgerUpdated("debit_hold", t, -a, a) >>
    BY <1>3 DEF Handle
  <2>2. LedgerUpdated("debit_hold", t, -a, a) \in LedgerEvent
    BY <1>1, <1>2 DEF MovementType
  <2> QED BY <2>1, <2>2, <1>3 DEF LedgerUpdated
<1>4. CASE command.type = "DebitRelease"
  <2>1. Handle(command) = << LedgerUpdated("debit_release", t, 0, -a) >>
    BY <1>4 DEF Handle
  <2>2. LedgerUpdated("debit_release", t, 0, -a) \in LedgerEvent
    BY <1>1, <1>2 DEF MovementType
  <2> QED BY <2>1, <2>2, <1>4 DEF LedgerUpdated
<1>5. CASE command.type = "Credit"
  <2>1. Handle(command) = << LedgerUpdated("credit_hold", t, 0, a),
                             LedgerUpdated("credit_release", t, a, -a) >>
    BY <1>5 DEF Handle
  <2>2. /\ LedgerUpdated("credit_hold", t, 0, a) \in LedgerEvent
        /\ LedgerUpdated("credit_release", t, a, -a) \in LedgerEvent
    BY <1>1, <1>2 DEF MovementType
  <2> QED BY <2>1, <2>2, <1>5 DEF LedgerUpdated
<1> QED BY <1>3, <1>4, <1>5 DEF LedgerCommand, CommandType

LEMMA UpdateType ==
  ASSUME NEW view \in Balance, NEW event \in LedgerEvent
  PROVE  Update(view, event) \in Balance
BY DEF Balance, LedgerEvent, Update

LEMMA UpdateAllType ==
  ASSUME NEW view \in Balance, NEW command \in LedgerCommand
  PROVE  UpdateAll(view, Handle(command)) \in Balance
<1> DEFINE events == Handle(command)
<1>1. events \in Seq(LedgerEvent) /\ Len(events) \in {1, 2}
  BY HandleFacts DEF LedgerCommand, CommandType
<1>2. CASE Len(events) = 1
  <2>1. events[1] \in LedgerEvent
    BY <1>1, <1>2
  <2> QED BY <2>1, <1>2, UpdateType DEF UpdateAll
<1>3. CASE Len(events) = 2
  <2>1. events[1] \in LedgerEvent /\ events[2] \in LedgerEvent
    <3>1. 1 \in 1..Len(events) /\ 2 \in 1..Len(events)
      BY <1>3
    <3> QED BY <1>1, <3>1, ElementOfSeq
  <2>2. Update(view, events[1]) \in Balance
    BY <2>1, UpdateType
  <2> QED BY <2>1, <2>2, <1>3, UpdateType DEF UpdateAll
<1> QED BY <1>1, <1>2, <1>3

-----------------------------------------------------------------------------
(* The inductive invariant.                                                *)

(* What the tables say of transactions and ledgers.  MovementIsRecorded    *)
(* has to be here: a transaction id that is handed out must have no        *)
(* movements yet, or the record would make up for one that had no record.  *)
Books ==
  /\ \A t \in TxId :
       /\ outbox[t] = "none" <=> transactions[t].status = "none"
       /\ outbox[t] = "processed" <=> transactions[t].status = "completed"
  /\ \A t \in Recorded :
       AccountView[transactions[t].account] =
         [status |-> "Approved", currency |-> transactions[t].currency]
  /\ \A t \in Recorded : outbox[t] = "processed" => Settlements(t) # {}
  /\ MovementIsRecorded
  /\ \A t \in Recorded : \A i, j \in Holds(t) : i = j

(* How far the processor is, and what its withdrawal has on the ledger: no *)
(* hold before its call of execute has committed one.                      *)
ProcessorInv ==
  /\ processor.step \in {"validate", "record"} => processor.command \in Command
  /\ processor.step = "record" =>
       AccountView[processor.command.id] =
         [status |-> "Approved", currency |-> processor.command.currency]
  /\ processor.step \in {"hold", "holding"} =>
       /\ processor.transaction \in Recorded
       /\ transactions[processor.transaction].type = "Withdrawal"
  /\ processor.step = "hold" => Holds(processor.transaction) = {}
  /\ processor.step # "holding" => exec[Processor].step = "idle"
  /\ exec[Processor].step \in {"loaded", "committed", "viewed"} =>
       exec[Processor].command = DebitHold(processor.transaction)
  /\ exec[Processor].step = "loaded" => Holds(processor.transaction) = {}

(* How far a run is: it is in a call exactly while it executes its event,  *)
(* and past the commit that event is settled.                              *)
RunInv(r) ==
  /\ runs[r].batch \subseteq Recorded
  /\ runs[r].step = "executing" => runs[r].event \in Recorded
  /\ runs[r].step # "executing" => exec[r].step = "idle"
  /\ exec[r].step \in {"loaded", "committed", "viewed"} =>
       exec[r].command = OutboxCommand(runs[r].event)
  /\ exec[r].step \in {"committed", "viewed", "ok"} => Settlements(runs[r].event) # {}

IInv ==
  /\ TypeOK
  /\ Books
  /\ ProcessorInv
  /\ \A r \in Runs : RunInv(r)

-----------------------------------------------------------------------------
(* Consequences of the types.                                              *)

LEMMA RecordedType ==
  ASSUME TypeOK, NEW t \in Recorded
  PROVE  t \in TxId /\ transactions[t] \in Transaction
BY DEF Recorded, TypeOK, Transaction, NoTransaction

LEMMA CommandTypes ==
  ASSUME TypeOK, NEW t \in Recorded
  PROVE  /\ DebitHold(t) \in LedgerCommand
         /\ OutboxCommand(t) \in LedgerCommand
<1>1. t \in TxId /\ transactions[t] \in Transaction
  BY RecordedType
<1>2. transactions[t].account \in Ledgers /\ transactions[t].amount \in Int
  BY <1>1, PaymentsAssumption DEF Transaction
<1> QED BY <1>1, <1>2 DEF DebitHold, OutboxCommand, LedgerCommand, CommandType

(* A commit adds the command's events to the end of a log. *)
LEMMA LogGrows ==
  ASSUME NEW log \in Seq(LedgerEvent), NEW command \in LedgerCommand
  PROVE  LET new == log \o Handle(command)
         IN  /\ new \in Seq(LedgerEvent)
             /\ Len(new) = Len(log) + Len(Handle(command))
             /\ \A i \in 1..Len(log) : new[i] = log[i]
             /\ \A i \in 1..Len(Handle(command)) : new[Len(log) + i] = Handle(command)[i]
<1>1. Handle(command) \in Seq(LedgerEvent)
  BY HandleFacts
<1> QED BY <1>1, ConcatProperties

-----------------------------------------------------------------------------
LEMMA InitInv == Init => IInv
<1> SUFFICES ASSUME Init PROVE IInv
  OBVIOUS
<1> USE DEF Init, StoreInit
<1>1. \A t \in TxId : transactions[t].status = "none" /\ outbox[t] = "none"
  BY DEF NoTransaction
<1>2. Recorded = {}
  BY <1>1 DEF Recorded
<1>3. TypeOK
  <2>1. LedgerInitiated(0) \in LedgerEvent
    BY DEF LedgerInitiated, LedgerEvent
  <2>2. ZeroBalance \in Balance
    BY DEF ZeroBalance, Balance
  <2>3. Update(ZeroBalance, LedgerInitiated(0)) \in Balance
    BY <2>1, <2>2, UpdateType
  <2>4. StoreTypeOK
    BY <2>1, <2>3 DEF StoreTypeOK
  <2>5. /\ processor \in [step: {"idle", "validate", "record", "hold", "holding"},
                           command: Command \cup {NoCommand},
                           transaction: TxId \cup {NoTxId}]
        /\ IdleRun \in [step: RunStates,
                        batch: SUBSET TxId, event: TxId \cup {NoTxId}]
    BY DEF IdleProcessor, IdleRun, RunStates
  <2>6. runs \in [Runs -> [step: RunStates, batch: SUBSET TxId, event: TxId \cup {NoTxId}]]
    BY <2>5
  <2>7. lock_expires \in BOOLEAN
    OBVIOUS
  <2>8. command_queue \in Seq(Command)
    OBVIOUS
  <2> QED BY <2>4, <2>5, <2>6, <2>7, <2>8, PaymentsAssumption DEF TypeOK
<1>4. Books
  <2>1. MovementIsRecorded
    BY DEF MovementIsRecorded, LedgerInitiated
  <2> QED BY <1>1, <1>2, <2>1 DEF Books
<1>5. ProcessorInv
  BY DEF ProcessorInv, IdleProcessor, OutOfCall, Actors
<1>6. \A r \in Runs : RunInv(r)
  BY DEF RunInv, IdleRun, OutOfCall, Actors
<1> QED BY <1>3, <1>4, <1>5, <1>6 DEF IInv

-----------------------------------------------------------------------------
(* Parts that a step leaves alone.                                         *)

LEMMA BooksStay ==
  ASSUME Books, UNCHANGED <<ledger_events, transactions, outbox>>
  PROVE  Books'
BY DEF Books, MovementIsRecorded, Recorded, Settlements, SettlingType, Holds, Movements

LEMMA ProcessorStays ==
  ASSUME ProcessorInv,
         UNCHANGED <<ledger_events, transactions, processor>>,
         exec'[Processor] = exec[Processor]
  PROVE  ProcessorInv'
BY DEF ProcessorInv, Recorded, Holds, Movements, DebitHold

LEMMA RunStays ==
  ASSUME NEW r \in Runs, RunInv(r),
         UNCHANGED <<ledger_events, transactions>>,
         runs'[r] = runs[r], exec'[r] = exec[r]
  PROVE  RunInv(r)'
BY DEF RunInv, Recorded, Settlements, SettlingType, Movements, OutboxCommand

-----------------------------------------------------------------------------
(* The command channel and its processor.                                  *)

LEMMA SubmitInv ==
  ASSUME IInv, NEW command \in Command, Submit(command)
  PROVE  IInv'
<1> USE DEF Submit, storeVars, databaseVars, jobVars, lockVars
<1>1. TypeOK'
  BY AppendProperties DEF IInv, TypeOK, StoreTypeOK
<1>2. Books'
  BY BooksStay DEF IInv
<1>3. ProcessorInv'
  BY ProcessorStays DEF IInv
<1>4. \A r \in Runs : RunInv(r)'
  BY RunStays DEF IInv
<1> QED BY <1>1, <1>2, <1>3, <1>4 DEF IInv

LEMMA ReceiveCommandInv ==
  ASSUME IInv, ReceiveCommand
  PROVE  IInv'
<1> USE DEF ReceiveCommand, storeVars, databaseVars, jobVars, lockVars
<1>1. Head(command_queue) \in Command /\ Tail(command_queue) \in Seq(Command)
  BY HeadTailProperties DEF IInv, TypeOK
<1>2. TypeOK'
  BY <1>1 DEF IInv, TypeOK, StoreTypeOK, IdleProcessor
<1>3. Books'
  BY BooksStay DEF IInv
<1>4. ProcessorInv'
  BY <1>1 DEF IInv, ProcessorInv, IdleProcessor
<1>5. \A r \in Runs : RunInv(r)'
  BY RunStays DEF IInv
<1> QED BY <1>2, <1>3, <1>4, <1>5 DEF IInv

LEMMA ValidateInv ==
  ASSUME IInv, Validate
  PROVE  IInv'
<1> USE DEF Validate, storeVars, databaseVars, jobVars, lockVars
<1>1. TypeOK'
  BY DEF IInv, TypeOK, StoreTypeOK, IdleProcessor
<1>2. Books'
  BY BooksStay DEF IInv
<1>3. ProcessorInv'
  <2>1. processor.command \in Command
    BY DEF IInv, ProcessorInv
  <2>2. CASE ~Valid(processor.command)
    BY <2>2 DEF IInv, ProcessorInv, IdleProcessor
  <2>3. CASE Valid(processor.command)
    <3>1. AccountView[processor.command.id] \in
            [status: {"Pending", "Approved"}, currency: Currencies]
      BY <2>1, PaymentsAssumption DEF Command
    <3>2. AccountView[processor.command.id] =
            [status |-> "Approved", currency |-> processor.command.currency]
      BY <2>3, <3>1 DEF Valid
    <3>3. processor' = [processor EXCEPT !.step = "record"]
      BY <2>3
    <3>4. processor'.step = "record" /\ processor'.command = processor.command
      BY <3>3 DEF IInv, TypeOK
    <3> QED BY <2>1, <3>2, <3>4 DEF IInv, ProcessorInv
  <2> QED BY <2>2, <2>3
<1>4. \A r \in Runs : RunInv(r)'
  BY RunStays DEF IInv
<1> QED BY <1>1, <1>2, <1>3, <1>4 DEF IInv

(* A transaction that is recorded has no movements yet, and nobody is at *)
(* work for it.                                                          *)
LEMMA RecordTransactionInv ==
  ASSUME IInv, RecordTransaction
  PROVE  IInv'
<1> USE DEF storeVars, databaseVars, jobVars, lockVars
<1> DEFINE command == processor.command
           tx == TransactionOf(command)
<1>1. PICK t \in TxId :
        /\ NextId(t)
        /\ transactions' = [transactions EXCEPT ![t] = tx]
        /\ outbox' = [outbox EXCEPT ![t] = "pending"]
        /\ processor' = IF command.type = "Withdrawal"
                        THEN [processor EXCEPT !.step = "hold", !.transaction = t]
                        ELSE IdleProcessor
  BY DEF RecordTransaction
<1>2. UNCHANGED <<ledger_events, ledger_views, exec, command_queue, runs, lock, lock_expires, faults>>
      /\ processor.step = "record"
  BY DEF RecordTransaction
<1>3. command \in Command /\ tx \in Transaction
  BY <1>2 DEF IInv, ProcessorInv, TransactionOf, Command, Transaction
<1>4. TypeOK'
  <2>1. processor' \in [step: {"idle", "validate", "record", "hold", "holding"},
                        command: Command \cup {NoCommand},
                        transaction: TxId \cup {NoTxId}]
    BY <1>1 DEF IInv, TypeOK, IdleProcessor
  <2>2. transactions' \in [TxId -> Transaction \cup {NoTransaction}]
    BY <1>1, <1>3 DEF IInv, TypeOK
  <2>3. outbox' \in [TxId -> {"none", "pending", "processed"}]
    BY <1>1 DEF IInv, TypeOK
  <2> QED BY <1>2, <2>1, <2>2, <2>3 DEF IInv, TypeOK, StoreTypeOK
<1>5. /\ t \notin Recorded
      /\ \A u \in Recorded : u # t /\ transactions'[u] = transactions[u] /\ outbox'[u] = outbox[u]
      /\ transactions'[t] = tx /\ outbox'[t] = "pending"
      /\ \A u \in TxId : u # t => transactions'[u] = transactions[u] /\ outbox'[u] = outbox[u]
  BY <1>1 DEF NextId, Recorded, IInv, TypeOK
<1>6. tx.status = "processing" /\ tx.type = command.type /\ tx.account = command.id
      /\ tx.currency = command.currency
  BY DEF TransactionOf
<1>7. Recorded' = Recorded \cup {t}
  BY <1>5, <1>6 DEF Recorded
<1>8. \A u \in Recorded : Settlements(u)' = Settlements(u) /\ Holds(u)' = Holds(u)
  BY <1>2, <1>5 DEF Settlements, SettlingType, Holds, Movements
<1>9. Holds(t)' = {}
  <2>1. SUFFICES ASSUME NEW i \in Holds(t)' PROVE FALSE
    OBVIOUS
  <2>2. tx.account \in Ledgers
    BY <1>3 DEF Transaction
  <2>3. /\ i \in DOMAIN ledger_events[tx.account]
        /\ ledger_events[tx.account][i].transaction_id = t
        /\ ledger_events[tx.account][i].transaction_type = "debit_hold"
    BY <2>1, <1>2, <1>5 DEF Holds, Movements
  <2>4. t \in Recorded
    BY <2>2, <2>3 DEF IInv, Books, MovementIsRecorded
  <2> QED BY <2>4, <1>5
<1>10. Books'
  <2>1. \A u \in TxId :
          /\ outbox'[u] = "none" <=> transactions'[u].status = "none"
          /\ outbox'[u] = "processed" <=> transactions'[u].status = "completed"
    BY <1>5, <1>6 DEF IInv, Books
  <2>2. \A u \in Recorded' :
          AccountView[transactions'[u].account] =
            [status |-> "Approved", currency |-> transactions'[u].currency]
    BY <1>2, <1>5, <1>6, <1>7 DEF IInv, Books, ProcessorInv
  <2>3. \A u \in Recorded' : outbox'[u] = "processed" => Settlements(u)' # {}
    BY <1>5, <1>7, <1>8 DEF IInv, Books
  <2>4. MovementIsRecorded'
    <3>1. SUFFICES ASSUME NEW l \in Ledgers, NEW i \in DOMAIN ledger_events[l],
                          ledger_events[l][i].transaction_type # "initiated"
                   PROVE  LET u == ledger_events[l][i].transaction_id
                          IN  u \in Recorded /\ u \in Recorded' /\ transactions'[u] = transactions[u]
      BY <1>2 DEF IInv, Books, MovementIsRecorded
    <3> QED BY <1>5, <1>7, <3>1 DEF IInv, Books, MovementIsRecorded
  <2>5. \A u \in Recorded' : \A i, j \in Holds(u)' : i = j
    BY <1>7, <1>8, <1>9 DEF IInv, Books
  <2> QED BY <2>1, <2>2, <2>3, <2>4, <2>5 DEF Books
<1>11. ProcessorInv'
  <2>1. exec'[Processor].step = "idle"
    BY <1>2 DEF IInv, ProcessorInv
  <2>2. CASE command.type = "Withdrawal"
    <3>1. processor'.step = "hold" /\ processor'.transaction = t
      BY <1>1, <2>2 DEF IInv, TypeOK
    <3>2. t \in Recorded' /\ transactions'[t].type = "Withdrawal"
      BY <1>5, <1>6, <1>7, <2>2
    <3>3. Holds(processor.transaction)' = {}
      BY <1>9, <3>1 DEF Holds, Movements
    <3> QED BY <2>1, <3>1, <3>2, <3>3 DEF ProcessorInv
  <2>3. CASE command.type # "Withdrawal"
    <3>1. processor' = IdleProcessor
      BY <1>1, <2>3
    <3> QED BY <2>1, <3>1 DEF ProcessorInv, IdleProcessor
  <2> QED BY <2>2, <2>3
<1>12. \A r \in Runs : RunInv(r)'
  <2> SUFFICES ASSUME NEW r \in Runs PROVE RunInv(r)'
    OBVIOUS
  <2>1. RunInv(r)
    BY DEF IInv
  <2>2. runs[r].batch \subseteq Recorded'
    BY <1>7, <2>1 DEF RunInv
  <2>3. CASE runs[r].step # "executing"
    BY <1>2, <2>1, <2>2, <2>3 DEF RunInv
  <2>4. CASE runs[r].step = "executing"
    <3>1. runs[r].event \in Recorded
      BY <2>1, <2>4 DEF RunInv
    <3>2. transactions'[runs[r].event] = transactions[runs[r].event]
      BY <1>5, <3>1
    <3>3. /\ OutboxCommand(runs[r].event)' = OutboxCommand(runs[r].event)
          /\ Settlements(runs[r].event)' = Settlements(runs[r].event)
      BY <1>2, <3>2 DEF OutboxCommand, Settlements, SettlingType, Movements
    <3> QED BY <1>2, <1>7, <2>1, <2>2, <3>1, <3>3 DEF RunInv
  <2> QED BY <2>3, <2>4
<1> QED BY <1>4, <1>10, <1>11, <1>12 DEF IInv

LEMMA RecordFailsInv ==
  ASSUME IInv, RecordFails, faults < MaxFaults, faults' = faults + 1
  PROVE  IInv'
<1> USE DEF RecordFails, storeVars, databaseVars, jobVars, lockVars
<1>1. TypeOK'
  BY PaymentsAssumption DEF IInv, TypeOK, StoreTypeOK, IdleProcessor
<1>2. Books'
  BY BooksStay DEF IInv
<1>3. ProcessorInv'
  BY DEF IInv, ProcessorInv, IdleProcessor
<1>4. \A r \in Runs : RunInv(r)'
  BY RunStays DEF IInv
<1> QED BY <1>1, <1>2, <1>3, <1>4 DEF IInv

-----------------------------------------------------------------------------
(* The ledgers.                                                            *)

(* A commit leaves the events that are there, and adds the command's. *)
LEMMA CommitFacts ==
  ASSUME TypeOK, NEW p \in Actors, Commit(p), exec[p].command \in LedgerCommand
  PROVE  LET command == exec[p].command
             l == command.ledger
             n == Len(ledger_events[l])
             k == Len(Handle(command))
         IN  /\ ledger_events' \in [Ledgers -> Seq(LedgerEvent)]
             /\ \A m \in Ledgers : m # l => ledger_events'[m] = ledger_events[m]
             /\ n \in Nat /\ k \in Nat
             /\ DOMAIN ledger_events[l] = 1..n
             /\ DOMAIN ledger_events'[l] = 1..(n + k)
             /\ \A i \in 1..n : ledger_events'[l][i] = ledger_events[l][i]
             /\ \A i \in 1..k : ledger_events'[l][n + i] = Handle(command)[i]
<1> DEFINE command == exec[p].command
           l == command.ledger
           new == ledger_events[l] \o Handle(command)
<1>1. ledger_events \in [Ledgers -> Seq(LedgerEvent)] /\ l \in Ledgers
  BY DEF TypeOK, StoreTypeOK, LedgerCommand
<1>2. ledger_events' = [ledger_events EXCEPT ![l] = new]
  BY DEF Commit
<1>3. /\ new \in Seq(LedgerEvent)
      /\ Len(new) = Len(ledger_events[l]) + Len(Handle(command))
      /\ \A i \in 1..Len(ledger_events[l]) : new[i] = ledger_events[l][i]
      /\ \A i \in 1..Len(Handle(command)) :
           new[Len(ledger_events[l]) + i] = Handle(command)[i]
  <2> HIDE DEF new
  <2>1. ledger_events[l] \in Seq(LedgerEvent)
    BY <1>1
  <2> QED BY <2>1, LogGrows DEF new
<1>4. Handle(command) \in Seq(LedgerEvent)
  BY HandleFacts
<1>5. ledger_events'[l] = new
  BY <1>1, <1>2
<1>6. DOMAIN new = 1..Len(new) /\ DOMAIN ledger_events[l] = 1..Len(ledger_events[l])
  BY <1>1, <1>3, LenProperties
<1> HIDE DEF new
<1>7. ledger_events' \in [Ledgers -> Seq(LedgerEvent)]
      /\ \A m \in Ledgers : m # l => ledger_events'[m] = ledger_events[m]
  BY <1>1, <1>2, <1>3
<1>8. Len(ledger_events[l]) \in Nat /\ Len(Handle(command)) \in Nat
  BY <1>1, <1>4, LenProperties
<1> QED BY <1>3, <1>5, <1>6, <1>7, <1>8

(* What a commit for transaction t does to the movements of a transaction: *)
(* none is lost, the outbox command settles t, and only a debit hold adds  *)
(* a hold: one, of t.                                                      *)
LEMMA CommitMovements ==
  ASSUME TypeOK, NEW p \in Actors, Commit(p), UNCHANGED transactions,
         NEW t \in Recorded, exec[p].command \in {DebitHold(t), OutboxCommand(t)}
  PROVE  /\ \A u \in Recorded : Settlements(u) \subseteq Settlements(u)'
         /\ \A u \in Recorded :
              Settlements(u)' # Settlements(u) => u = t /\ exec[p].command = OutboxCommand(t)
         /\ exec[p].command = OutboxCommand(t) => Settlements(t)' # {}
         /\ \A u \in Recorded :
              Holds(u)' # Holds(u) =>
                /\ u = t /\ exec[p].command = DebitHold(t)
                /\ \E i : Holds(t)' = Holds(t) \cup {i}
<1> DEFINE command == exec[p].command
           l == command.ledger
           n == Len(ledger_events[l])
           k == Len(Handle(command))
<1>1. command \in LedgerCommand
  BY CommandTypes
<1>2. /\ \A m \in Ledgers : m # l => ledger_events'[m] = ledger_events[m]
      /\ n \in Nat /\ k \in Nat
      /\ DOMAIN ledger_events[l] = 1..n
      /\ DOMAIN ledger_events'[l] = 1..(n + k)
      /\ \A i \in 1..n : ledger_events'[l][i] = ledger_events[l][i]
      /\ \A i \in 1..k : ledger_events'[l][n + i] = Handle(command)[i]
  BY <1>1, CommitFacts
<1>3. l = transactions[t].account /\ command.transaction_id = t
  BY DEF DebitHold, OutboxCommand
<1>4. \A u \in Recorded : transactions[u] \in Transaction /\ transactions[u].account \in Ledgers
  BY RecordedType DEF Transaction
<1>5. /\ \A i \in 1..k : Handle(command)[i].transaction_id = t
      /\ command = OutboxCommand(t) =>
           /\ k >= 1 /\ Handle(command)[k].transaction_type = SettlingType(t)
           /\ \A i \in 1..k : Handle(command)[i].transaction_type # "debit_hold"
      /\ command = DebitHold(t) => k = 1 /\ Handle(command)[1].transaction_type = "debit_hold"
  <2>1. CASE command = DebitHold(t)
    <3>1. command.type = "DebitHold" /\ command # OutboxCommand(t)
      BY <2>1 DEF DebitHold, OutboxCommand
    <3> QED BY <1>1, <1>3, <3>1, HandleFacts
  <2>2. CASE command = OutboxCommand(t) /\ transactions[t].type = "Deposit"
    <3>1. command.type = "Credit" /\ command # DebitHold(t) /\ SettlingType(t) = "credit_release"
      BY <2>2 DEF DebitHold, OutboxCommand, SettlingType
    <3> QED BY <1>1, <1>3, <3>1, HandleFacts
  <2>3. CASE command = OutboxCommand(t) /\ transactions[t].type # "Deposit"
    <3>1. command.type = "DebitRelease" /\ command # DebitHold(t) /\ SettlingType(t) = "debit_release"
      BY <2>3 DEF DebitHold, OutboxCommand, SettlingType
    <3> QED BY <1>1, <1>3, <3>1, HandleFacts
  <2> QED BY <2>1, <2>2, <2>3
<1> HIDE DEF n, k, l, command
<1>6. \A m \in Ledgers : \A u, type : Movements(m, u, type) \subseteq Movements(m, u, type)'
  BY <1>2 DEF Movements
<1>7. \A m \in Ledgers : \A u, type :
        (\A i \in 1..k : ~(m = l /\ u = t /\ Handle(command)[i].transaction_type = type))
          => Movements(m, u, type)' = Movements(m, u, type)
  <2> SUFFICES ASSUME NEW m \in Ledgers, NEW u, NEW type,
                      \A i \in 1..k : ~(m = l /\ u = t /\ Handle(command)[i].transaction_type = type),
                      NEW i \in Movements(m, u, type)'
               PROVE  i \in Movements(m, u, type)
    BY <1>6
  <2>1. CASE m # l
    BY <1>2, <2>1 DEF Movements
  <2>2. CASE m = l /\ i \in 1..n
    BY <1>2, <2>2 DEF Movements
  <2>3. CASE m = l /\ i \notin 1..n
    <3>1. i \in 1..(n + k)
      BY <1>2, <2>3 DEF Movements
    <3>2. PICK j \in 1..k : i = n + j
      <4>1. i - n \in 1..k /\ i = n + (i - n)
        BY <1>2, <2>3, <3>1
      <4> QED BY <4>1
    <3>3. ledger_events'[l][i] = Handle(command)[j]
      BY <1>2, <3>2
    <3> QED BY <1>5, <2>3, <3>3 DEF Movements
  <2> QED BY <2>1, <2>2, <2>3
<1>8. \A u \in Recorded : Settlements(u) \subseteq Settlements(u)'
  BY <1>4, <1>6 DEF Settlements, SettlingType
<1>9. \A u \in Recorded :
         Settlements(u)' # Settlements(u) => u = t /\ command = OutboxCommand(t)
  <2> SUFFICES ASSUME NEW u \in Recorded, u # t \/ command # OutboxCommand(t)
               PROVE  Settlements(u)' = Settlements(u)
    OBVIOUS
  <2>1. PICK type \in {"credit_release", "debit_release"} : type = SettlingType(u)
    BY DEF SettlingType
  <2>2. Settlements(u)' = Movements(transactions[u].account, u, type)'
    BY <2>1 DEF Settlements, SettlingType
  <2>3. command = DebitHold(t) \/ command = OutboxCommand(t)
    BY DEF command
  <2>4. \A i \in 1..k : ~(transactions[u].account = l /\ u = t
                          /\ Handle(command)[i].transaction_type = type)
    BY <1>5, <2>1, <2>3
  <2>5. Movements(transactions[u].account, u, type)' = Movements(transactions[u].account, u, type)
    BY <1>4, <1>7, <2>4
  <2> QED BY <2>1, <2>2, <2>5 DEF Settlements
<1>10. command = OutboxCommand(t) => Settlements(t)' # {}
  <2> SUFFICES ASSUME command = OutboxCommand(t) PROVE n + k \in Settlements(t)'
    OBVIOUS
  <2>1. k \in 1..k /\ n + k \in 1..(n + k)
    BY <1>2, <1>5
  <2>2. ledger_events'[l][n + k] = Handle(command)[k]
    BY <1>2, <2>1
  <2> QED BY <1>2, <1>3, <1>5, <2>1, <2>2 DEF Settlements, SettlingType, Movements
<1>11. \A u \in Recorded :
         Holds(u)' # Holds(u) => u = t /\ command = DebitHold(t)
  <2> SUFFICES ASSUME NEW u \in Recorded, u # t \/ command # DebitHold(t)
               PROVE  Holds(u)' = Holds(u)
    OBVIOUS
  <2>1. command = DebitHold(t) \/ command = OutboxCommand(t)
    BY DEF command
  <2> QED BY <1>4, <1>5, <1>7, <2>1 DEF Holds
<1>12. command = DebitHold(t) => Holds(t)' = Holds(t) \cup {n + 1}
  <2> SUFFICES ASSUME command = DebitHold(t) PROVE Holds(t)' = Holds(t) \cup {n + 1}
    OBVIOUS
  <2>1. k = 1 /\ Handle(command)[1].transaction_type = "debit_hold"
        /\ Handle(command)[1].transaction_id = t
    BY <1>5
  <2>2. ledger_events'[l][n + 1] = Handle(command)[1]
    BY <1>2, <2>1
  <2>3. Holds(t)' = {i \in 1..(n + 1) : /\ ledger_events'[l][i].transaction_id = t
                                        /\ ledger_events'[l][i].transaction_type = "debit_hold"}
    BY <1>2, <1>3, <2>1 DEF Holds, Movements
  <2>4. Holds(t) = {i \in 1..n : /\ ledger_events[l][i].transaction_id = t
                                 /\ ledger_events[l][i].transaction_type = "debit_hold"}
    BY <1>2, <1>3 DEF Holds, Movements
  <2>5. \A i \in 1..(n + 1) : i \in 1..n \/ i = n + 1
    BY <1>2
  <2>6. n + 1 \in 1..(n + 1) /\ 1..n \subseteq 1..(n + 1)
    BY <1>2
  <2> QED BY <1>2, <2>1, <2>2, <2>3, <2>4, <2>5, <2>6
<1> QED BY <1>8, <1>10, <1>11, <1>12, <1>9 DEF command

(* The transaction an actor's call is for. *)
Subject(p) == IF p = Processor THEN processor.transaction ELSE runs[p].event

(* A call is in progress only for a recorded transaction; the processor's  *)
(* is its debit hold, a run's the command of its outbox row.               *)
LEMMA CallSubject ==
  ASSUME IInv, NEW p \in Actors, exec[p].step \in {"loaded", "committed", "viewed"}
  PROVE  /\ Subject(p) \in Recorded
         /\ exec[p].command \in {DebitHold(Subject(p)), OutboxCommand(Subject(p))}
         /\ p = Processor =>
              /\ exec[p].command = DebitHold(Subject(p))
              /\ transactions[Subject(p)].type = "Withdrawal"
              /\ processor.step = "holding"
         /\ p # Processor =>
              /\ p \in Runs /\ exec[p].command = OutboxCommand(Subject(p))
              /\ runs[p].step = "executing"
<1>1. CASE p = Processor
  BY <1>1 DEF IInv, TypeOK, ProcessorInv, Subject
<1>2. CASE p # Processor
  <2>1. p \in Runs /\ RunInv(p)
    BY <1>2 DEF Actors, IInv
  <2> QED BY <1>2, <2>1 DEF RunInv, Subject
<1> QED BY <1>1, <1>2

LEMMA CommitInv ==
  ASSUME IInv, NEW p \in Actors, InStore(p), Commit(p)
  PROVE  IInv'
<1>0. PICK t : t = Subject(p)
  OBVIOUS
<1> DEFINE command == exec[p].command
           l == command.ledger
           n == Len(ledger_events[l])
           k == Len(Handle(command))
<1>1. /\ UNCHANGED <<ledger_views, command_queue, processor, transactions, outbox, runs, lock, lock_expires, faults>>
      /\ exec[p].step = "loaded"
      /\ exec' = [exec EXCEPT ![p].step = "committed"]
  BY DEF InStore, StoreUnchangedElsewhere, Commit, InCall, databaseVars, jobVars, lockVars
<1>2. /\ t \in Recorded
      /\ command \in {DebitHold(t), OutboxCommand(t)}
      /\ p = Processor =>
           /\ command = DebitHold(t)
           /\ transactions[t].type = "Withdrawal"
           /\ processor.step = "holding"
      /\ p # Processor =>
           /\ p \in Runs /\ command = OutboxCommand(t)
           /\ runs[p].step = "executing"
  BY <1>0, <1>1, CallSubject
<1>3. TypeOK
  BY DEF IInv
<1>4. command \in LedgerCommand
  BY <1>2, <1>3, CommandTypes
<1>5. /\ ledger_events' \in [Ledgers -> Seq(LedgerEvent)]
      /\ \A m \in Ledgers : m # l => ledger_events'[m] = ledger_events[m]
      /\ n \in Nat /\ k \in Nat
      /\ DOMAIN ledger_events[l] = 1..n
      /\ DOMAIN ledger_events'[l] = 1..(n + k)
      /\ \A i \in 1..n : ledger_events'[l][i] = ledger_events[l][i]
      /\ \A i \in 1..k : ledger_events'[l][n + i] = Handle(command)[i]
  BY <1>3, <1>4, CommitFacts
<1>6. /\ \A u \in Recorded : Settlements(u) \subseteq Settlements(u)'
      /\ command = OutboxCommand(t) => Settlements(t)' # {}
      /\ \A u \in Recorded :
           Holds(u)' # Holds(u) =>
             /\ u = t /\ command = DebitHold(t)
             /\ \E i : Holds(t)' = Holds(t) \cup {i}
  BY <1>1, <1>2, <1>3, CommitMovements
<1>7. DebitHold(t) # OutboxCommand(t)
  BY DEF DebitHold, OutboxCommand
<1>8. Recorded' = Recorded
  BY <1>1 DEF Recorded
<1>9. exec' \in [Actors -> Call \cup {OutOfCall(s) : s \in {"idle", "ok", "err"}}]
      /\ exec'[p].step = "committed" /\ exec'[p].command = command
      /\ \A q \in Actors : q # p => exec'[q] = exec[q]
  <2>1. exec[p] \in Call
    BY <1>1, <1>3 DEF TypeOK, StoreTypeOK, OutOfCall
  <2>2. [exec[p] EXCEPT !.step = "committed"] \in Call
    BY <2>1 DEF Call
  <2> QED BY <1>1, <1>3, <2>1, <2>2 DEF TypeOK, StoreTypeOK, Call
<1>10. TypeOK'
  BY <1>1, <1>3, <1>5, <1>9 DEF TypeOK, StoreTypeOK
<1>11. Processor \in Actors /\ \A r \in Runs : r \in Actors /\ r # Processor
  BY ActorAssumption DEF Actors
<1>12. \A i \in 1..k :
         /\ Handle(command)[i].transaction_id = t
         /\ Handle(command)[i].transaction_type \in
              (IF transactions[t].type = "Deposit"
               THEN {"credit_hold", "credit_release"}
               ELSE {"debit_hold", "debit_release"})
  <2>1. transactions[t] \in Transaction
    BY <1>2, <1>3, RecordedType
  <2>2. CASE command = DebitHold(t) /\ p = Processor
    <3>1. command.type = "DebitHold" /\ command.transaction_id = t
          /\ transactions[t].type = "Withdrawal"
      BY <1>2, <2>2 DEF DebitHold
    <3> QED BY <1>4, <3>1, HandleFacts
  <2>3. CASE command = OutboxCommand(t) /\ transactions[t].type = "Deposit"
    <3>1. command.type = "Credit" /\ command.transaction_id = t
      BY <2>3 DEF OutboxCommand
    <3> QED BY <1>4, <2>3, <3>1, HandleFacts
  <2>4. CASE command = OutboxCommand(t) /\ transactions[t].type # "Deposit"
    <3>1. command.type = "DebitRelease" /\ command.transaction_id = t
      BY <2>4 DEF OutboxCommand
    <3> QED BY <1>4, <2>4, <3>1, HandleFacts
  <2> QED BY <1>2, <2>2, <2>3, <2>4
<1>13. l = transactions[t].account
  BY <1>2 DEF DebitHold, OutboxCommand
<1>14. MovementIsRecorded'
  <2> DEFINE OnRecord(event, m) ==
               LET u == event.transaction_id
               IN  /\ u \in Recorded
                   /\ transactions[u].account = m
                   /\ event.transaction_type \in
                        (IF transactions[u].type = "Deposit"
                         THEN {"credit_hold", "credit_release"}
                         ELSE {"debit_hold", "debit_release"})
                   /\ AccountView[m] = [status |-> "Approved",
                                        currency |-> transactions[u].currency]
  <2>1. \A m \in Ledgers : \A i \in DOMAIN ledger_events[m] :
          ledger_events[m][i].transaction_type # "initiated" => OnRecord(ledger_events[m][i], m)
    BY DEF IInv, Books, MovementIsRecorded
  <2>2. \A i \in 1..k : OnRecord(Handle(command)[i], l)
    BY <1>2, <1>12, <1>13 DEF IInv, Books
  <2> HIDE DEF OnRecord, command, l, n, k
  <2>3. \A m \in Ledgers : \A i \in DOMAIN ledger_events'[m] :
          ledger_events'[m][i].transaction_type # "initiated" => OnRecord(ledger_events'[m][i], m)
    <3> SUFFICES ASSUME NEW m \in Ledgers, NEW i \in DOMAIN ledger_events'[m],
                        ledger_events'[m][i].transaction_type # "initiated"
                 PROVE  OnRecord(ledger_events'[m][i], m)
      OBVIOUS
    <3>1. CASE m # l
      BY <1>5, <2>1, <3>1
    <3>2. CASE m = l /\ i \in 1..n
      BY <1>5, <2>1, <3>2
    <3>3. CASE m = l /\ i \notin 1..n
      <4>1. i - n \in 1..k /\ i = n + (i - n)
        BY <1>5, <3>3
      <4>2. ledger_events'[m][i] = Handle(command)[i - n]
        BY <1>5, <3>3, <4>1
      <4> QED BY <2>2, <3>3, <4>1, <4>2
    <3> QED BY <3>1, <3>2, <3>3
  <2> QED BY <1>1, <1>8, <2>3 DEF OnRecord, MovementIsRecorded
<1>15. \A u \in Recorded : \A i, j \in Holds(u)' : i = j
  <2> SUFFICES ASSUME NEW u \in Recorded PROVE \A i, j \in Holds(u)' : i = j
    OBVIOUS
  <2>1. CASE Holds(u)' = Holds(u)
    BY <2>1 DEF IInv, Books
  <2>2. CASE Holds(u)' # Holds(u)
    <3>1. u = t /\ command = DebitHold(t) /\ \E i : Holds(t)' = Holds(t) \cup {i}
      BY <1>6, <2>2
    <3>2. p = Processor
      BY <1>2, <1>7, <3>1
    <3>3. Holds(t) = {}
      BY <1>0, <1>1, <3>2 DEF IInv, ProcessorInv, Subject
    <3> QED BY <3>1, <3>3
  <2> QED BY <2>1, <2>2
<1>16. Books'
  <2>1. \A u \in Recorded : outbox[u] = "processed" => Settlements(u)' # {}
    BY <1>6 DEF IInv, Books
  <2>2. /\ \A u \in TxId :
             /\ outbox'[u] = "none" <=> transactions'[u].status = "none"
             /\ outbox'[u] = "processed" <=> transactions'[u].status = "completed"
        /\ \A u \in Recorded' :
             AccountView[transactions'[u].account] =
               [status |-> "Approved", currency |-> transactions'[u].currency]
    BY <1>1, <1>8 DEF IInv, Books
  <2> QED BY <1>1, <1>8, <1>14, <1>15, <2>1, <2>2 DEF Books
<1>17. ProcessorInv'
  <2>1. PICK u : u = processor.transaction
    OBVIOUS
  <2>2. ProcessorInv /\ DebitHold(u)' = DebitHold(u)
    BY <1>1 DEF IInv, DebitHold
  <2>3. CASE p = Processor
    <3>1. exec'[Processor].step = "committed" /\ exec'[Processor].command = DebitHold(u)
      BY <1>0, <1>2, <1>9, <2>1, <2>3 DEF Subject
    <3>2. processor.step = "holding" /\ u \in Recorded /\ transactions[u].type = "Withdrawal"
      BY <1>0, <1>2, <2>1, <2>3 DEF Subject
    <3> QED BY <1>1, <1>8, <2>1, <2>2, <3>1, <3>2 DEF ProcessorInv, DebitHold
  <2>4. CASE p # Processor
    <3>1. exec'[Processor] = exec[Processor]
      BY <1>9, <1>11, <2>4
    <3>2. u \in Recorded => Holds(u)' = Holds(u)
      BY <1>2, <1>6, <1>7, <2>4
    <3>3. exec[Processor].step = "loaded" => processor.step = "holding"
      BY <2>2 DEF ProcessorInv
    <3>4. Holds(processor.transaction)' = Holds(u)'
      BY <1>1, <2>1 DEF Holds, Movements
    <3>5. DebitHold(processor.transaction)' = DebitHold(u)
      BY <1>1, <2>1 DEF DebitHold
    <3> QED BY <1>1, <1>8, <2>1, <2>2, <3>1, <3>2, <3>3, <3>4, <3>5 DEF ProcessorInv
  <2> QED BY <2>3, <2>4
<1>18. \A r \in Runs : RunInv(r)'
  <2> SUFFICES ASSUME NEW r \in Runs PROVE RunInv(r)'
    OBVIOUS
  <2>1. RunInv(r) /\ r \in Actors /\ r # Processor
    BY <1>11 DEF IInv
  <2>2. PICK u : u = runs[r].event
    OBVIOUS
  <2>3. /\ OutboxCommand(runs[r].event)' = OutboxCommand(u)
        /\ Settlements(runs[r].event)' = Settlements(u)'
    BY <1>1, <2>2 DEF OutboxCommand, Settlements, SettlingType, Movements
  <2>4. CASE r = p
    <3>1. u = t
      BY <1>0, <2>1, <2>2, <2>4 DEF Subject
    <3>2. Settlements(u)' # {}
      BY <1>2, <1>6, <2>1, <2>4, <3>1
    <3>3. exec'[r].step = "committed" /\ exec'[r].command = OutboxCommand(u)
      BY <1>2, <1>9, <2>1, <2>4, <3>1
    <3> QED BY <1>1, <1>2, <1>8, <2>1, <2>2, <2>3, <2>4, <3>2, <3>3 DEF RunInv
  <2>5. CASE r # p
    <3>1. exec'[r] = exec[r]
      BY <1>9, <2>1, <2>5
    <3>2. u \in Recorded => Settlements(u) \subseteq Settlements(u)'
      BY <1>6
    <3>3. exec[r].step # "idle" => u \in Recorded
      BY <2>1, <2>2 DEF RunInv
    <3> QED BY <1>1, <1>8, <2>1, <2>2, <2>3, <3>1, <3>2, <3>3 DEF RunInv
  <2> QED BY <2>4, <2>5
<1> QED BY <1>10, <1>16, <1>17, <1>18 DEF IInv

(* The other steps of a call store no events. *)
LEMMA CallStepInv ==
  ASSUME IInv, NEW p \in Actors,
         OptimisticLockError(p) \/ LoadView(p) \/ UpdateView(p) \/ StoreFault(p),
         StoreUnchangedElsewhere, faults' \in 0..MaxFaults
  PROVE  IInv'
<1>1. UNCHANGED <<ledger_events, command_queue, processor, transactions, outbox, runs, lock, lock_expires>>
  BY DEF OptimisticLockError, LoadView, UpdateView, StoreFault, StoreFails, DispatchFails,
         StoreUnchangedElsewhere, databaseVars, jobVars, lockVars
<1>2. TypeOK
  BY DEF IInv
<1>3. \/ /\ exec[p].step = "loaded"
         /\ exec' = [exec EXCEPT ![p] = OutOfCall("err")] /\ UNCHANGED ledger_views
      \/ /\ exec[p].step = "committed"
         /\ exec' = [exec EXCEPT ![p].step = "viewed",
                                 ![p].view = ledger_views[exec[p].command.ledger]]
         /\ UNCHANGED ledger_views
      \/ /\ exec[p].step \in {"committed", "viewed"}
         /\ exec' = [exec EXCEPT ![p] = OutOfCall("ok")]
         /\ \/ UNCHANGED ledger_views
            \/ ledger_views' = [ledger_views EXCEPT ![exec[p].command.ledger] = NewView(p)]
  BY DEF OptimisticLockError, LoadView, UpdateView, StoreFault, StoreFails, DispatchFails, InCall
<1>4. exec[p] \in Call
  BY <1>2, <1>3 DEF TypeOK, StoreTypeOK, OutOfCall
<1>5. NewView(p) \in Balance
  BY <1>4, UpdateAllType DEF NewView, Call
<1>6. exec[p].command.ledger \in Ledgers
  BY <1>4 DEF Call, LedgerCommand
<1>7. ledger_views' \in [Ledgers -> Balance]
  BY <1>2, <1>3, <1>5, <1>6 DEF TypeOK, StoreTypeOK
<1>8. /\ exec' \in [Actors -> Call \cup {OutOfCall(s) : s \in {"idle", "ok", "err"}}]
      /\ \A q \in Actors : q # p => exec'[q] = exec[q]
      /\ \/ exec[p].step = "loaded" /\ exec'[p].step = "err"
         \/ exec[p].step = "committed" /\ exec'[p].step = "viewed" /\ exec'[p].command = exec[p].command
         \/ exec[p].step \in {"committed", "viewed"} /\ exec'[p].step = "ok"
  <2>1. CASE exec[p].step = "committed" /\
             exec' = [exec EXCEPT ![p].step = "viewed",
                                  ![p].view = ledger_views[exec[p].command.ledger]]
    <3>1. ledger_views[exec[p].command.ledger] \in Balance
      BY <1>2, <1>6 DEF TypeOK, StoreTypeOK
    <3>2. [exec[p] EXCEPT !.step = "viewed",
                          !.view = ledger_views[exec[p].command.ledger]] \in Call
      BY <1>4, <3>1 DEF Call
    <3>3. exec'[p] = [exec[p] EXCEPT !.step = "viewed",
                                     !.view = ledger_views[exec[p].command.ledger]]
      BY <1>2, <2>1 DEF TypeOK, StoreTypeOK
    <3>4. exec'[p].step = "viewed" /\ exec'[p].command = exec[p].command
      BY <1>4, <3>3 DEF Call
    <3> QED BY <1>2, <2>1, <3>2, <3>3, <3>4 DEF TypeOK, StoreTypeOK
  <2>2. CASE exec[p].step = "loaded" /\ exec' = [exec EXCEPT ![p] = OutOfCall("err")]
    BY <1>2, <2>2 DEF TypeOK, StoreTypeOK, OutOfCall
  <2>3. CASE exec[p].step \in {"committed", "viewed"} /\ exec' = [exec EXCEPT ![p] = OutOfCall("ok")]
    BY <1>2, <2>3 DEF TypeOK, StoreTypeOK, OutOfCall
  <2> QED BY <1>3, <2>1, <2>2, <2>3
<1>9. TypeOK'
  BY <1>1, <1>2, <1>7, <1>8 DEF TypeOK, StoreTypeOK
<1>10. Books'
  BY <1>1, BooksStay DEF IInv
<1>11. Processor \in Actors /\ \A r \in Runs : r \in Actors /\ r # Processor
  BY ActorAssumption DEF Actors
<1>12. ProcessorInv'
  <2>1. CASE p # Processor
    BY <1>1, <1>8, <1>11, <2>1, ProcessorStays DEF IInv
  <2>2. CASE p = Processor
    <3>1. ProcessorInv /\ processor.step = "holding"
      BY <1>3, <2>2 DEF IInv, ProcessorInv
    <3>2. PICK u : u = processor.transaction
      OBVIOUS
    <3>3. /\ exec'[Processor].step \in {"viewed", "ok", "err"}
          /\ exec'[Processor].step = "viewed" => exec'[Processor].command = DebitHold(u)
      BY <1>8, <2>2, <3>1, <3>2 DEF ProcessorInv
    <3>4. DebitHold(u)' = DebitHold(u) /\ Recorded' = Recorded
      BY <1>1 DEF DebitHold, Recorded
    <3>5. u \in Recorded /\ transactions[u].type = "Withdrawal"
      BY <3>1, <3>2 DEF ProcessorInv
    <3>6. processor'.step = "holding" /\ processor'.transaction = u
      BY <1>1, <3>1, <3>2
    <3> QED BY <1>1, <3>3, <3>4, <3>5, <3>6 DEF ProcessorInv
  <2> QED BY <2>1, <2>2
<1>13. \A r \in Runs : RunInv(r)'
  <2> SUFFICES ASSUME NEW r \in Runs PROVE RunInv(r)'
    OBVIOUS
  <2>1. RunInv(r)
    BY DEF IInv
  <2>2. CASE r # p
    BY <1>1, <1>8, <1>11, <2>1, <2>2, RunStays
  <2>3. CASE r = p
    <3>1. runs[r].step = "executing"
      BY <1>3, <2>1, <2>3 DEF RunInv
    <3>2. \/ exec'[r].step = "err"
          \/ /\ exec'[r].step \in {"viewed", "ok"}
             /\ Settlements(runs[r].event) # {}
             /\ exec'[r].step = "viewed" => exec'[r].command = OutboxCommand(runs[r].event)
      BY <1>8, <2>1, <2>3 DEF RunInv
    <3>3. /\ OutboxCommand(runs[r].event)' = OutboxCommand(runs[r].event)
          /\ Settlements(runs[r].event)' = Settlements(runs[r].event)
          /\ Recorded' = Recorded
      BY <1>1 DEF OutboxCommand, Settlements, SettlingType, Movements, Recorded
    <3> QED BY <1>1, <2>1, <3>1, <3>2, <3>3 DEF RunInv
  <2> QED BY <2>2, <2>3
<1> QED BY <1>9, <1>10, <1>12, <1>13 DEF IInv

LEMMA InStoreInv ==
  ASSUME IInv, NEW p \in Actors, InStore(p)
  PROVE  IInv'
<1>1. CASE Commit(p)
  BY <1>1, CommitInv
<1>2. CASE OptimisticLockError(p) \/ LoadView(p) \/ UpdateView(p)
  BY <1>2, CallStepInv DEF InStore, IInv, TypeOK
<1> QED BY <1>1, <1>2 DEF InStore, StoreStep

-----------------------------------------------------------------------------
(* Calls of execute begin and return.                                      *)

LEMMA ExecuteType ==
  ASSUME TypeOK, NEW p \in Actors, NEW command \in LedgerCommand, Execute(p, command)
  PROVE  /\ StoreTypeOK'
         /\ exec'[p].step = "loaded" /\ exec'[p].command = command
         /\ \A q \in Actors : q # p => exec'[q] = exec[q]
<1> DEFINE call == [step |-> "loaded", command |-> command,
                    version |-> Len(ledger_events[command.ledger]), view |-> ZeroBalance]
<1>1. Len(ledger_events[command.ledger]) \in Nat
  BY LenProperties DEF TypeOK, StoreTypeOK, LedgerCommand
<1>2. call \in Call
  BY <1>1 DEF Call, ZeroBalance, Balance
<1>3. exec' = [exec EXCEPT ![p] = call] /\ UNCHANGED <<ledger_events, ledger_views>>
  BY DEF Execute
<1> QED BY <1>2, <1>3 DEF TypeOK, StoreTypeOK

LEMMA ReturnType ==
  ASSUME TypeOK, NEW p \in Actors, ReturnFrom(p), UNCHANGED <<ledger_events, ledger_views>>
  PROVE  /\ StoreTypeOK'
         /\ exec'[p].step = "idle"
         /\ \A q \in Actors : q # p => exec'[q] = exec[q]
BY DEF TypeOK, StoreTypeOK, ReturnFrom, OutOfCall

LEMMA CallDebitHoldInv ==
  ASSUME IInv, CallDebitHold
  PROVE  IInv'
<1> DEFINE t == processor.transaction
<1>1. /\ UNCHANGED <<ledger_events, command_queue, transactions, outbox, runs, lock, lock_expires, faults>>
      /\ processor.step = "hold" /\ processor' = [processor EXCEPT !.step = "holding"]
      /\ Execute(Processor, DebitHold(t))
  BY DEF CallDebitHold, Execute, databaseVars, jobVars, lockVars
<1>2. TypeOK /\ ProcessorInv /\ t \in Recorded /\ Processor \in Actors
  BY <1>1 DEF IInv, ProcessorInv, Actors
<1>3. /\ StoreTypeOK'
      /\ exec'[Processor].step = "loaded" /\ exec'[Processor].command = DebitHold(t)
      /\ \A q \in Actors : q # Processor => exec'[q] = exec[q]
  <2>1. DebitHold(t) \in LedgerCommand
    BY <1>2, CommandTypes
  <2> QED BY <1>1, <1>2, <2>1, ExecuteType
<1>4. processor'.step = "holding" /\ processor'.transaction = t
  BY <1>1, <1>2 DEF TypeOK
<1>5. TypeOK'
  BY <1>1, <1>2, <1>3 DEF TypeOK
<1>6. Books'
  BY <1>1, BooksStay DEF IInv
<1>7. ProcessorInv'
  <2>1. DebitHold(processor.transaction)' = DebitHold(t) /\ Recorded' = Recorded
        /\ Holds(processor.transaction)' = Holds(t)
    BY <1>1, <1>4 DEF DebitHold, Recorded, Holds, Movements
  <2> QED BY <1>1, <1>2, <1>3, <1>4, <2>1 DEF ProcessorInv
<1>8. \A r \in Runs : RunInv(r)'
  BY <1>1, <1>3, ActorAssumption, RunStays DEF IInv, Actors
<1> QED BY <1>5, <1>6, <1>7, <1>8 DEF IInv

LEMMA DebitHoldReturnsInv ==
  ASSUME IInv, DebitHoldReturns
  PROVE  IInv'
<1>1. /\ UNCHANGED <<ledger_events, ledger_views, command_queue, transactions, outbox, runs, lock, lock_expires, faults>>
      /\ processor' = IdleProcessor /\ ReturnFrom(Processor)
  BY DEF DebitHoldReturns, databaseVars, jobVars, lockVars
<1>2. /\ StoreTypeOK' /\ exec'[Processor].step = "idle"
      /\ \A q \in Actors : q # Processor => exec'[q] = exec[q]
  BY <1>1, ReturnType DEF IInv, Actors
<1>3. TypeOK'
  BY <1>1, <1>2 DEF IInv, TypeOK, IdleProcessor
<1>4. Books'
  BY <1>1, BooksStay DEF IInv
<1>5. ProcessorInv'
  BY <1>1, <1>2 DEF ProcessorInv, IdleProcessor
<1>6. \A r \in Runs : RunInv(r)'
  BY <1>1, <1>2, ActorAssumption, RunStays DEF IInv, Actors
<1> QED BY <1>3, <1>4, <1>5, <1>6 DEF IInv

-----------------------------------------------------------------------------
(* The job.                                                                *)

(* Steps that only change what run r has in memory, while it is in no call: *)
(* starting, giving up, the steps on the lock.                             *)
LEMMA RunOnlyInv ==
  ASSUME IInv, NEW r \in Runs,
         UNCHANGED <<storeVars, command_queue, processor, transactions, outbox>>,
         NEW run \in [step: RunStates \ {"executing"}, batch: SUBSET Recorded,
                      event: TxId \cup {NoTxId}],
         runs' = [runs EXCEPT ![r] = run], runs[r].step # "executing",
         lock' \in Runs \cup {NoRun}, lock_expires' \in BOOLEAN, faults' \in 0..MaxFaults
  PROVE  IInv'
<1> USE DEF storeVars
<1>1. TypeOK /\ RunInv(r) /\ Recorded' = Recorded /\ Recorded \subseteq TxId
  BY DEF IInv, Recorded
<1>2. runs'[r] = run /\ \A q \in Runs : q # r => runs'[q] = runs[q]
  BY <1>1 DEF TypeOK
<1>3. TypeOK'
  <2>1. run \in [step: RunStates,
                 batch: SUBSET TxId, event: TxId \cup {NoTxId}]
    BY <1>1
  <2> QED BY <1>1, <2>1 DEF TypeOK, StoreTypeOK
<1>4. Books'
  BY BooksStay DEF IInv
<1>5. ProcessorInv'
  BY ProcessorStays DEF IInv
<1>6. RunInv(r)'
  <2>1. exec[r].step = "idle"
    BY <1>1 DEF RunInv
  <2> QED BY <1>1, <1>2, <2>1 DEF RunInv
<1>7. \A q \in Runs : RunInv(q)'
  BY <1>2, <1>6, RunStays DEF IInv
<1> QED BY <1>3, <1>4, <1>5, <1>7 DEF IInv

LEMMA FetchInv ==
  ASSUME IInv, NEW r \in Runs, Fetch(r)
  PROVE  IInv'
<1> DEFINE run == [IdleRun EXCEPT !.step = "fetched", !.batch = Batch]
<1>1. Batch \subseteq Recorded
  BY DEF Batch, Pending, Recorded, IInv, Books
<1>2. run \in [step: RunStates \ {"executing"}, batch: SUBSET Recorded,
               event: TxId \cup {NoTxId}]
  BY <1>1 DEF IdleRun, RunStates
<1>3. runs' = [runs EXCEPT ![r] = run] /\ runs[r].step # "executing"
      /\ UNCHANGED <<storeVars, command_queue, processor, transactions, outbox, lock, lock_expires, faults>>
  BY DEF Fetch, databaseVars, lockVars
<1> HIDE DEF run
<1> QED BY <1>2, <1>3, RunOnlyInv DEF IInv, TypeOK

(* Where a run is outside a call, its record fits RunOnlyInv. *)
LEMMA RunRecord ==
  ASSUME IInv, NEW r \in Runs, NEW step \in RunStates \ {"executing"}
  PROVE  /\ [runs[r] EXCEPT !.step = step] \in
              [step: RunStates \ {"executing"}, batch: SUBSET Recorded,
               event: TxId \cup {NoTxId}]
         /\ IdleRun \in
              [step: RunStates \ {"executing"}, batch: SUBSET Recorded,
               event: TxId \cup {NoTxId}]
<1>1. runs[r] \in [step: RunStates,
                   batch: SUBSET TxId, event: TxId \cup {NoTxId}]
  BY DEF IInv, TypeOK
<1>2. runs[r].batch \subseteq Recorded
  BY DEF IInv, RunInv
<1> QED BY <1>1, <1>2 DEF IdleRun, RunStates

LEMMA SetLockInv ==
  ASSUME IInv, NEW r \in Runs, SetLock(r)
  PROVE  IInv'
<1>1. PICK run : run = [runs[r] EXCEPT !.step = "acquired"]
  OBVIOUS
<1>2. runs' = [runs EXCEPT ![r] = run] /\ runs[r].step # "executing"
      /\ lock' = r /\ lock_expires' = FALSE
      /\ UNCHANGED <<storeVars, command_queue, processor, transactions, outbox, faults>>
  BY <1>1 DEF SetLock, databaseVars
<1>3. run \in [step: RunStates \ {"executing"}, batch: SUBSET Recorded,
               event: TxId \cup {NoTxId}]
  BY <1>1, RunRecord DEF RunStates
<1> QED BY <1>2, <1>3, RunOnlyInv DEF IInv, TypeOK

LEMMA SetExpiryInv ==
  ASSUME IInv, NEW r \in Runs, SetExpiry(r)
  PROVE  IInv'
<1>1. PICK run : run = [runs[r] EXCEPT !.step = "locked"]
  OBVIOUS
<1>2. runs' = [runs EXCEPT ![r] = run] /\ runs[r].step # "executing"
      /\ lock_expires' \in BOOLEAN
      /\ UNCHANGED <<storeVars, command_queue, processor, transactions, outbox, lock, faults>>
  BY <1>1 DEF SetExpiry, databaseVars
<1>3. run \in [step: RunStates \ {"executing"}, batch: SUBSET Recorded,
               event: TxId \cup {NoTxId}]
  BY <1>1, RunRecord DEF RunStates
<1> QED BY <1>2, <1>3, RunOnlyInv DEF IInv, TypeOK

LEMMA LockHeldInv ==
  ASSUME IInv, NEW r \in Runs, LockHeld(r)
  PROVE  IInv'
<1>1. runs' = [runs EXCEPT ![r] = IdleRun] /\ runs[r].step # "executing"
      /\ UNCHANGED <<storeVars, command_queue, processor, transactions, outbox, lock, lock_expires, faults>>
  BY DEF LockHeld, databaseVars, lockVars
<1> QED BY <1>1, RunRecord, RunOnlyInv DEF IInv, TypeOK, RunStates

LEMMA CheckLockInv ==
  ASSUME IInv, NEW r \in Runs, CheckLock(r)
  PROVE  IInv'
<1>1. PICK run : run = IF lock = r THEN [IdleRun EXCEPT !.step = "releasing"] ELSE IdleRun
  OBVIOUS
<1>2. runs' = [runs EXCEPT ![r] = run] /\ runs[r].step # "executing"
      /\ UNCHANGED <<storeVars, command_queue, processor, transactions, outbox,
                     lock, lock_expires, faults>>
  BY <1>1 DEF CheckLock, databaseVars, lockVars
<1>3. run \in [step: RunStates \ {"executing"}, batch: SUBSET Recorded,
               event: TxId \cup {NoTxId}]
  BY <1>1 DEF IdleRun, RunStates
<1> QED BY <1>2, <1>3, RunOnlyInv DEF IInv, TypeOK

LEMMA DeleteLockInv ==
  ASSUME IInv, NEW r \in Runs, DeleteLock(r)
  PROVE  IInv'
<1>1. runs' = [runs EXCEPT ![r] = IdleRun] /\ runs[r].step # "executing"
      /\ UNCHANGED <<storeVars, command_queue, processor, transactions, outbox, faults>>
      /\ lock' = NoRun /\ lock_expires' = FALSE
  BY DEF DeleteLock, databaseVars
<1> QED BY <1>1, RunRecord, RunOnlyInv DEF IInv, TypeOK, RunStates

LEMMA RedisFailsInv ==
  ASSUME IInv, NEW r \in Runs, RedisFails(r), faults' \in 0..MaxFaults
  PROVE  IInv'
<1>1. runs' = [runs EXCEPT ![r] = IdleRun] /\ runs[r].step # "executing"
      /\ UNCHANGED <<storeVars, command_queue, processor, transactions, outbox, lock, lock_expires>>
  BY DEF RedisFails, databaseVars, lockVars
<1> QED BY <1>1, RunRecord, RunOnlyInv DEF IInv, TypeOK, RunStates

LEMMA LockExpiresInv ==
  ASSUME IInv, LockExpires
  PROVE  IInv'
<1> USE DEF LockExpires, storeVars, databaseVars, lockVars
<1>1. TypeOK'
  BY DEF IInv, TypeOK, StoreTypeOK
<1>2. Books' /\ ProcessorInv'
  BY BooksStay, ProcessorStays DEF IInv
<1>3. \A r \in Runs : RunInv(r)'
  BY RunStays DEF IInv
<1> QED BY <1>1, <1>2, <1>3 DEF IInv

LEMMA ProcessEventInv ==
  ASSUME IInv, NEW r \in Runs, ProcessEvent(r)
  PROVE  IInv'
<1>1. PICK t \in TxId :
        /\ Oldest(r, t)
        /\ Execute(r, OutboxCommand(t))
        /\ runs' = [runs EXCEPT ![r].step = "executing", ![r].event = t]
  BY DEF ProcessEvent
<1>2. UNCHANGED <<ledger_events, command_queue, processor, transactions, outbox, lock, lock_expires, faults>>
  BY <1>1 DEF ProcessEvent, Execute, databaseVars, lockVars
<1>3. TypeOK /\ RunInv(r) /\ r \in Actors /\ r # Processor
  BY ActorAssumption DEF IInv, Actors
<1>4. t \in Recorded
  BY <1>1, <1>3 DEF Oldest, RunInv
<1>5. /\ StoreTypeOK'
      /\ exec'[r].step = "loaded" /\ exec'[r].command = OutboxCommand(t)
      /\ \A q \in Actors : q # r => exec'[q] = exec[q]
  <2>1. OutboxCommand(t) \in LedgerCommand
    BY <1>3, <1>4, CommandTypes
  <2> QED BY <1>1, <1>3, <2>1, ExecuteType
<1>6. /\ runs'[r].step = "executing" /\ runs'[r].event = t /\ runs'[r].batch = runs[r].batch
      /\ \A q \in Runs : q # r => runs'[q] = runs[q]
  BY <1>1, <1>3 DEF TypeOK
<1>7. TypeOK'
  <2>1. [runs[r] EXCEPT !.step = "executing", !.event = t] \in
          [step: RunStates,
           batch: SUBSET TxId, event: TxId \cup {NoTxId}]
    BY <1>3 DEF TypeOK, RunStates
  <2>2. runs' = [runs EXCEPT ![r] = [runs[r] EXCEPT !.step = "executing", !.event = t]]
    BY <1>1
  <2> QED BY <1>2, <1>3, <1>5, <2>1, <2>2 DEF TypeOK
<1>8. Books'
  BY <1>2, BooksStay DEF IInv
<1>9. ProcessorInv'
  BY <1>2, <1>3, <1>5, ProcessorStays DEF IInv, Actors
<1>10. RunInv(r)'
  <2>1. OutboxCommand(t)' = OutboxCommand(t) /\ Recorded' = Recorded
    BY <1>2 DEF OutboxCommand, Recorded
  <2> QED BY <1>3, <1>4, <1>5, <1>6, <2>1 DEF RunInv
<1>11. \A q \in Runs : q # r => RunInv(q)'
  BY <1>2, <1>5, <1>6, RunStays DEF IInv, Actors
<1> QED BY <1>7, <1>8, <1>9, <1>10, <1>11 DEF IInv

(* What holds however a run leaves the call for its event. *)
LEMMA EventEnds ==
  ASSUME IInv, NEW r \in Runs, runs[r].step = "executing", ReturnFrom(r), NextEvent(r),
         UNCHANGED <<ledger_events, ledger_views, command_queue, processor>>,
         Recorded' = Recorded,
         \A u \in Recorded : /\ transactions'[u].type = transactions[u].type
                             /\ transactions'[u].account = transactions[u].account
                             /\ transactions'[u].amount = transactions[u].amount
  PROVE  /\ StoreTypeOK'
         /\ runs' \in [Runs -> [step: RunStates,
                                batch: SUBSET TxId, event: TxId \cup {NoTxId}]]
         /\ \A u \in Recorded : Settlements(u)' = Settlements(u) /\ Holds(u)' = Holds(u)
         /\ ProcessorInv'
         /\ \A q \in Runs : RunInv(q)'
<1>1. TypeOK /\ ProcessorInv /\ RunInv(r) /\ r \in Actors /\ r # Processor /\ Processor \in Actors
  BY ActorAssumption DEF IInv, Actors
<1>2. /\ StoreTypeOK' /\ exec'[r].step = "idle"
      /\ \A q \in Actors : q # r => exec'[q] = exec[q]
  BY <1>1, ReturnType
<1>3. /\ runs'[r].step = "locked" /\ runs'[r].batch \subseteq runs[r].batch
      /\ \A q \in Runs : q # r => runs'[q] = runs[q]
      /\ runs' \in [Runs -> [step: RunStates,
                             batch: SUBSET TxId, event: TxId \cup {NoTxId}]]
  BY <1>1 DEF NextEvent, TypeOK, RunStates
<1>4. \A u \in Recorded : Settlements(u)' = Settlements(u) /\ Holds(u)' = Holds(u)
  BY DEF Settlements, SettlingType, Holds, Movements
<1>5. ProcessorInv'
  <2>1. PICK u : u = processor.transaction
    OBVIOUS
  <2>2. exec'[Processor] = exec[Processor]
    BY <1>1, <1>2
  <2>3. exec[Processor].step # "idle" => processor.step = "holding"
    BY <1>1 DEF ProcessorInv
  <2>4. u \in Recorded => DebitHold(u)' = DebitHold(u)
    BY DEF DebitHold
  <2> QED BY <1>1, <1>4, <2>1, <2>2, <2>3, <2>4 DEF ProcessorInv
<1>6. RunInv(r)'
  BY <1>1, <1>2, <1>3 DEF RunInv
<1>7. ASSUME NEW q \in Runs, q # r PROVE RunInv(q)'
  <2>1. PICK u : u = runs[q].event
    OBVIOUS
  <2>2. RunInv(q) /\ runs'[q] = runs[q] /\ exec'[q] = exec[q]
    BY <1>2, <1>3, <1>7 DEF IInv, Actors
  <2>3. exec[q].step # "idle" => u \in Recorded
    BY <2>1, <2>2 DEF RunInv
  <2>4. u \in Recorded => OutboxCommand(u)' = OutboxCommand(u)
    BY DEF OutboxCommand
  <2> QED BY <1>4, <2>1, <2>2, <2>3, <2>4 DEF RunInv
<1> QED BY <1>2, <1>3, <1>4, <1>5, <1>6, <1>7

LEMMA EventNotCompletedInv ==
  ASSUME IInv, NEW r \in Runs,
         (EventFailed(r) /\ UNCHANGED faults) \/ CompleteFails(r), faults' \in 0..MaxFaults
  PROVE  IInv'
<1>1. /\ runs[r].step = "executing" /\ ReturnFrom(r) /\ NextEvent(r)
      /\ UNCHANGED <<ledger_events, ledger_views, command_queue, processor,
                     transactions, outbox, lock, lock_expires>>
  BY DEF EventFailed, CompleteFails, databaseVars, lockVars
<1>2. Recorded' = Recorded
  BY <1>1 DEF Recorded
<1>3. Books'
  BY <1>1, BooksStay DEF IInv
<1>4. /\ StoreTypeOK'
      /\ runs' \in [Runs -> [step: RunStates,
                             batch: SUBSET TxId, event: TxId \cup {NoTxId}]]
      /\ ProcessorInv'
      /\ \A q \in Runs : RunInv(q)'
  BY <1>1, <1>2, EventEnds
<1>5. TypeOK'
  BY <1>1, <1>4 DEF IInv, TypeOK
<1> QED BY <1>3, <1>4, <1>5 DEF IInv

LEMMA CompleteTransactionInv ==
  ASSUME IInv, NEW r \in Runs, CompleteTransaction(r)
  PROVE  IInv'
<1>1. PICK e : e = runs[r].event
  OBVIOUS
<1>2. /\ runs[r].step = "executing" /\ exec[r].step = "ok" /\ ReturnFrom(r) /\ NextEvent(r)
      /\ UNCHANGED <<ledger_events, ledger_views, command_queue, processor, lock, lock_expires, faults>>
      /\ transactions' = [transactions EXCEPT ![e].status = "completed"]
      /\ outbox' = [outbox EXCEPT ![e] = "processed"]
  BY <1>1 DEF CompleteTransaction, EventApplied, lockVars
<1>3. e \in Recorded /\ e \in TxId /\ Settlements(e) # {} /\ transactions[e] \in Transaction
  BY <1>1, <1>2, RecordedType DEF IInv, RunInv
<1>4. /\ transactions'[e] = [transactions[e] EXCEPT !.status = "completed"]
      /\ outbox'[e] = "processed"
      /\ \A u \in TxId : u # e => transactions'[u] = transactions[u] /\ outbox'[u] = outbox[u]
      /\ transactions'[e] \in Transaction
  BY <1>2, <1>3 DEF IInv, TypeOK, Transaction
<1>5. /\ \A u \in TxId : /\ transactions'[u].status = "none" <=> transactions[u].status = "none"
                         /\ transactions'[u].status = "completed"
                              <=> (u = e \/ transactions[u].status = "completed")
      /\ \A u \in TxId : /\ transactions'[u].type = transactions[u].type
                         /\ transactions'[u].account = transactions[u].account
                         /\ transactions'[u].amount = transactions[u].amount
                         /\ transactions'[u].currency = transactions[u].currency
  BY <1>3, <1>4 DEF Recorded, Transaction
<1>6. Recorded' = Recorded
  BY <1>5 DEF Recorded
<1>7. /\ StoreTypeOK'
      /\ runs' \in [Runs -> [step: RunStates,
                             batch: SUBSET TxId, event: TxId \cup {NoTxId}]]
      /\ \A u \in Recorded : Settlements(u)' = Settlements(u) /\ Holds(u)' = Holds(u)
      /\ ProcessorInv'
      /\ \A q \in Runs : RunInv(q)'
  BY <1>2, <1>5, <1>6, EventEnds DEF Recorded
<1>8. TypeOK'
  <2>1. transactions' \in [TxId -> Transaction \cup {NoTransaction}]
    BY <1>2, <1>4 DEF IInv, TypeOK
  <2>2. outbox' \in [TxId -> {"none", "pending", "processed"}]
    BY <1>2, <1>3 DEF IInv, TypeOK
  <2> QED BY <1>2, <1>7, <2>1, <2>2 DEF IInv, TypeOK
<1>9. Books'
  <2>1. \A u \in TxId :
          /\ outbox'[u] = "none" <=> transactions'[u].status = "none"
          /\ outbox'[u] = "processed" <=> transactions'[u].status = "completed"
    BY <1>3, <1>4, <1>5 DEF IInv, Books, Recorded
  <2>2. \A u \in Recorded' :
          AccountView[transactions'[u].account] =
            [status |-> "Approved", currency |-> transactions'[u].currency]
    BY <1>5, <1>6 DEF IInv, Books, Recorded
  <2>3. \A u \in Recorded' : outbox'[u] = "processed" => Settlements(u)' # {}
    BY <1>3, <1>4, <1>6, <1>7 DEF IInv, Books, Recorded
  <2>4. MovementIsRecorded'
    <3> SUFFICES ASSUME NEW l \in Ledgers, NEW i \in DOMAIN ledger_events[l],
                        ledger_events[l][i].transaction_type # "initiated",
                        NEW u, u = ledger_events[l][i].transaction_id
                 PROVE  /\ u \in Recorded
                        /\ transactions'[u].account = l
                        /\ ledger_events[l][i].transaction_type \in
                             (IF transactions'[u].type = "Deposit"
                              THEN {"credit_hold", "credit_release"}
                              ELSE {"debit_hold", "debit_release"})
                        /\ AccountView[l] = [status |-> "Approved",
                                             currency |-> transactions'[u].currency]
      BY <1>2, <1>6 DEF MovementIsRecorded
    <3>1. /\ u \in Recorded
          /\ transactions[u].account = l
          /\ ledger_events[l][i].transaction_type \in
               (IF transactions[u].type = "Deposit"
                THEN {"credit_hold", "credit_release"}
                ELSE {"debit_hold", "debit_release"})
          /\ AccountView[l] = [status |-> "Approved",
                               currency |-> transactions[u].currency]
      BY DEF IInv, Books, MovementIsRecorded
    <3> QED BY <1>5, <3>1 DEF Recorded
  <2>5. \A u \in Recorded' : \A i, j \in Holds(u)' : i = j
    BY <1>6, <1>7 DEF IInv, Books
  <2> QED BY <2>1, <2>2, <2>3, <2>4, <2>5 DEF Books
<1> QED BY <1>7, <1>8, <1>9 DEF IInv

LEMMA CrashInv ==
  ASSUME IInv, Crash, faults' \in 0..MaxFaults
  PROVE  IInv'
<1> USE DEF Crash, databaseVars, lockVars
<1>1. TypeOK'
  BY DEF IInv, TypeOK, StoreTypeOK, IdleProcessor, IdleRun, RunStates
<1>2. Books'
  BY BooksStay DEF IInv
<1>3. ProcessorInv'
  BY DEF ProcessorInv, IdleProcessor, OutOfCall, Actors
<1>4. \A r \in Runs : RunInv(r)'
  BY DEF RunInv, IdleRun, OutOfCall, Actors
<1> QED BY <1>1, <1>2, <1>3, <1>4 DEF IInv

LEMMA FaultInv ==
  ASSUME IInv, Fault
  PROVE  IInv'
<1>1. faults' \in 0..MaxFaults /\ faults < MaxFaults /\ faults' = faults + 1
  BY PaymentsAssumption DEF Fault, IInv, TypeOK
<1>2. CASE RecordFails
  BY <1>1, <1>2, RecordFailsInv
<1>3. CASE \E p \in Actors : StoreFault(p) /\ StoreUnchangedElsewhere
  BY <1>1, <1>3, CallStepInv
<1>4. CASE \E r \in Runs : CompleteFails(r)
  BY <1>1, <1>4, EventNotCompletedInv
<1>5. CASE \E r \in Runs : RedisFails(r)
  BY <1>1, <1>5, RedisFailsInv
<1>6. CASE Crash
  BY <1>1, <1>6, CrashInv
<1> QED BY <1>2, <1>3, <1>4, <1>5, <1>6 DEF Fault

LEMMA StutterInv ==
  ASSUME IInv, UNCHANGED vars
  PROVE  IInv'
<1> USE DEF vars
<1>1. TypeOK'
  BY DEF IInv, TypeOK, StoreTypeOK
<1>2. Books' /\ ProcessorInv'
  BY BooksStay, ProcessorStays DEF IInv
<1>3. \A r \in Runs : RunInv(r)'
  BY RunStays DEF IInv
<1> QED BY <1>1, <1>2, <1>3 DEF IInv

LEMMA StepInv == IInv /\ [Next]_vars => IInv'
<1> SUFFICES ASSUME IInv, [Next]_vars PROVE IInv'
  OBVIOUS
<1>1. CASE \E command \in Command : Submit(command)
  BY <1>1, SubmitInv
<1>2. CASE ProcessorStep
  <2>1. Processor \in Actors
    BY DEF Actors
  <2> QED BY <1>2, <2>1, ReceiveCommandInv, ValidateInv, RecordTransactionInv,
             CallDebitHoldInv, DebitHoldReturnsInv, InStoreInv DEF ProcessorStep
<1>3. CASE \E r \in Runs : Fetch(r)
  BY <1>3, FetchInv
<1>4. ASSUME NEW r \in Runs, RunStep(r) PROVE IInv'
  <2>1. CASE SetLock(r) \/ SetExpiry(r) \/ LockHeld(r) \/ CheckLock(r) \/ DeleteLock(r)
    BY <2>1, SetLockInv, SetExpiryInv, LockHeldInv, CheckLockInv, DeleteLockInv
  <2>2. CASE ProcessEvent(r) \/ CompleteTransaction(r)
    BY <2>2, ProcessEventInv, CompleteTransactionInv
  <2>3. CASE EventFailed(r)
    BY <2>3, EventNotCompletedInv DEF EventFailed, IInv, TypeOK
  <2>4. CASE InStore(r)
    BY <2>4, InStoreInv DEF Actors
  <2> QED BY <1>4, <2>1, <2>2, <2>3, <2>4 DEF RunStep
<1>5. CASE LockExpires
  BY <1>5, LockExpiresInv
<1>6. CASE Fault
  BY <1>6, FaultInv
<1>7. CASE UNCHANGED vars
  BY <1>7, StutterInv
<1> QED BY <1>1, <1>2, <1>3, <1>4, <1>5, <1>6, <1>7 DEF Next

(* What tables, processor, runs and the calls under way say of each other, *)
(* between any two steps of the processor, the job, Redis and the faults.  *)
THEOREM Invariant == Spec => []IInv
<1>1. Init => IInv
  BY InitInv
<1>2. IInv /\ [Next]_vars => IInv'
  BY StepInv
<1> QED BY <1>1, <1>2, PTL DEF Spec

-----------------------------------------------------------------------------
(* The theorems.                                                           *)

(* Every variable stays in its type: among others, nothing a call of       *)
(* execute does can put a value on a ledger or a view that is no balance.  *)
THEOREM TypeCorrect == Spec => []TypeOK
<1>1. IInv => TypeOK
  BY DEF IInv
<1> QED BY <1>1, Invariant, PTL

(* A completed transaction has been settled on its ledger, and its outbox  *)
(* row is processed, wherever calls fail and crashes fall (job.rs calls    *)
(* complete_transaction after process_event, in another transaction).      *)
THEOREM CompletedWasAppliedAlways == Spec => []CompletedWasApplied
<1>1. IInv => CompletedWasApplied
  BY DEF IInv, Books, CompletedWasApplied, Recorded
<1> QED BY <1>1, Invariant, PTL

(* No ledger ever moves without a transaction recorded for it. *)
THEOREM MovementIsRecordedAlways == Spec => []MovementIsRecorded
<1>1. IInv => MovementIsRecorded
  BY DEF IInv, Books
<1> QED BY <1>1, Invariant, PTL

(* No withdrawal is held twice: only the processor holds, it holds each    *)
(* transaction once, and replays by the job only release.                  *)
THEOREM HoldAtMostOnceAlways == Spec => []HoldAtMostOnce
<1>1. IInv => HoldAtMostOnce
  <2> SUFFICES ASSUME IInv, NEW t \in Recorded PROVE Cardinality(Holds(t)) <= 1
    BY DEF HoldAtMostOnce
  <2>1. \A i, j \in Holds(t) : i = j
    BY DEF IInv, Books
  <2>2. CASE Holds(t) = {}
    BY <2>2, FS_EmptySet
  <2>3. CASE Holds(t) # {}
    <3>1. PICK i : Holds(t) = {i}
      BY <2>1, <2>3
    <3>2. Cardinality({i}) = 1
      BY FS_Singleton
    <3> QED BY <3>1, <3>2
  <2> QED BY <2>2, <2>3
<1> QED BY <1>1, Invariant, PTL

(* A run that has the lock or believes so. *)
HasLock(r) == runs[r].step \in {"acquired", "locked", "executing", "releasing"}

(* The inductive form of LockExclusion: the key is there and has this run's value. *)
LockInv ==
  /\ TypeOK
  /\ \A r \in Runs : HasLock(r) => lock = r

(* As long as no run outlives LOCK_TIMEOUT, one run at a time is at work   *)
(* on a batch: SETNX, the expiry of a key whose owner is gone, and the     *)
(* comparison before DEL never take the lock from a run that works.        *)
THEOREM LockExclusionAlways ==
  ASSUME ~RunsOutliveLock
  PROVE  Spec => []LockExclusion
<1>1. Init => LockInv
  BY InitInv DEF LockInv, IInv, Init, IdleRun, HasLock
<1>2. LockInv /\ TypeOK' /\ [Next]_vars => LockInv'
  <2> SUFFICES ASSUME LockInv, TypeOK', [Next]_vars,
                      NEW q \in Runs, HasLock(q)'
               PROVE  lock' = q
    BY DEF LockInv
  <2> USE DEF HasLock
  <2>1. HasLock(q) => lock = q
    BY DEF LockInv
  <2>2. CASE UNCHANGED <<runs, lock, lock_expires>>
    BY <2>1, <2>2
  <2>3. ASSUME NEW r \in Runs, Fetch(r) \/ LockHeld(r) \/ RedisFails(r) PROVE lock' = q
    <3>1. runs'[r].step \in {"idle", "fetched"} /\ UNCHANGED lock
          /\ (q # r => runs'[q] = runs[q])
      <4>1. runs \in [Runs -> [step: RunStates,
                             batch: SUBSET TxId, event: TxId \cup {NoTxId}]]
        BY DEF LockInv, TypeOK
      <4>2. CASE Fetch(r)
        BY <4>1, <4>2 DEF Fetch, IdleRun, lockVars
      <4>3. CASE LockHeld(r)
        BY <4>1, <4>3 DEF LockHeld, IdleRun, lockVars
      <4>4. CASE RedisFails(r)
        BY <4>1, <4>4 DEF RedisFails, IdleRun, lockVars
      <4> QED BY <2>3, <4>2, <4>3, <4>4
    <3> QED BY <2>1, <3>1
  <2>4. ASSUME NEW r \in Runs, SetLock(r) \/ SetExpiry(r) PROVE lock' = q
    <3>1. q # r => runs'[q] = runs[q]
      BY <2>4 DEF SetLock, SetExpiry, LockInv, TypeOK
    <3>2. CASE SetLock(r)
      <4>1. lock = NoRun /\ lock' = r
        BY <3>2 DEF SetLock, LockFree
      <4> QED BY <2>1, <3>1, <4>1, PaymentsAssumption
    <3>3. CASE SetExpiry(r)
      <4>1. HasLock(r) /\ UNCHANGED lock
        BY <3>3 DEF SetExpiry
      <4> QED BY <2>1, <3>1, <4>1
    <3> QED BY <2>4, <3>2, <3>3
  <2>5. ASSUME NEW r \in Runs, CheckLock(r) \/ DeleteLock(r) PROVE lock' = q
    <3>1. HasLock(r) /\ (q # r => runs'[q] = runs[q])
      BY <2>5 DEF CheckLock, DeleteLock, LockInv, TypeOK
    <3>2. lock = r
      BY <3>1 DEF LockInv
    <3>3. CASE CheckLock(r)
      BY <2>1, <3>1, <3>3 DEF CheckLock, lockVars
    <3>4. CASE DeleteLock(r)
      <4>1. runs'[r] = IdleRun
        BY <3>4 DEF DeleteLock, LockInv, TypeOK
      <4>2. q # r
        BY <4>1 DEF IdleRun
      <4> QED BY <2>1, <3>1, <3>2, <4>2
    <3> QED BY <2>5, <3>3, <3>4
  <2>6. ASSUME NEW r \in Runs, ProcessEvent(r) PROVE lock' = q
    <3>1. runs[r].step = "locked" /\ UNCHANGED lock /\ (q # r => runs'[q] = runs[q])
      BY <2>6 DEF ProcessEvent, LockInv, TypeOK, lockVars
    <3> QED BY <2>1, <3>1
  <2>7. ASSUME NEW r \in Runs, CompleteTransaction(r) \/ EventFailed(r) \/ CompleteFails(r)
        PROVE  lock' = q
    <3>1. runs[r].step = "executing" /\ (q # r => runs'[q] = runs[q])
      BY <2>7 DEF CompleteTransaction, EventFailed, CompleteFails, NextEvent, LockInv, TypeOK
    <3>2. UNCHANGED lock
      BY <2>7 DEF CompleteTransaction, EventFailed, CompleteFails, NextEvent, lockVars
    <3> QED BY <2>1, <3>1, <3>2
  <2>8. CASE LockExpires
    <3>1. runs[lock].step \in {"idle", "fetched"} /\ UNCHANGED runs
      BY <2>8 DEF LockExpires, Abandoned
    <3> QED BY <2>1, <3>1
  <2>9. CASE Crash
    BY <2>9 DEF Crash, IdleRun
  <2>10. CASE ProcessorStep \/ \E command \in Command : Submit(command)
    BY <2>2, <2>10 DEF ProcessorStep, Submit, ReceiveCommand, Validate, RecordTransaction,
         CallDebitHold, DebitHoldReturns, InStore, StoreUnchangedElsewhere, jobVars, lockVars
  <2>11. CASE \E p \in Actors : InStore(p) \/ (StoreFault(p) /\ StoreUnchangedElsewhere)
    BY <2>2, <2>11 DEF InStore, StoreUnchangedElsewhere, jobVars, lockVars
  <2>12. CASE RecordFails
    BY <2>2, <2>12 DEF RecordFails, jobVars, lockVars
  <2>13. CASE UNCHANGED vars
    BY <2>2, <2>13 DEF vars
  <2>14. CASE Fault
    BY <2>3, <2>7, <2>9, <2>11, <2>12, <2>14 DEF Fault
  <2>15. CASE \E r \in Runs : Fetch(r) \/ RunStep(r)
    BY <2>3, <2>4, <2>5, <2>6, <2>7, <2>11, <2>15 DEF RunStep, Actors
  <2> QED BY <2>8, <2>10, <2>13, <2>14, <2>15 DEF Next
<1>3. LockInv => LockExclusion
  BY DEF LockInv, LockExclusion, HasLock
<1> QED BY <1>1, <1>2, <1>3, TypeCorrect, PTL DEF Spec

-----------------------------------------------------------------------------
(* Payments implements PaymentPromise: every step of the system, with all  *)
(* its interleavings, failed calls and crashes, is one step of the promise *)
(* for one transaction, or none.                                           *)

(* What of Payments the promise speaks about. *)
PromiseHeld == {t \in Recorded : Holds(t) # {}}
PromiseSettled == {t \in Recorded : Settlements(t) # {}}
PromiseCompleted == {t \in Recorded : transactions[t].status = "completed"}

LEMMA PromiseInit == Init => Promise!Init
<1> SUFFICES ASSUME Init PROVE Promise!Init
  OBVIOUS
<1>1. Recorded = {}
  BY DEF Init, Recorded, NoTransaction
<1> QED BY <1>1 DEF Promise!Init

(* A step that touches neither the events nor the transactions. *)
LEMMA PromiseStutters ==
  ASSUME UNCHANGED <<ledger_events, transactions>>
  PROVE  UNCHANGED Promise!vars
<1>1. Recorded' = Recorded
  BY DEF Recorded
<1>2. \A t : Settlements(t)' = Settlements(t) /\ Holds(t)' = Holds(t)
  BY DEF Settlements, SettlingType, Holds, Movements
<1>3. PromiseHeld' = PromiseHeld /\ PromiseSettled' = PromiseSettled /\ PromiseCompleted' = PromiseCompleted
  BY <1>1, <1>2 DEF PromiseHeld, PromiseSettled, PromiseCompleted
<1> QED BY <1>1, <1>3 DEF Promise!vars, PromiseHeld, PromiseSettled, PromiseCompleted

(* A new transaction enters the promise with nothing done for it. *)
LEMMA PromiseRecord ==
  ASSUME IInv, RecordTransaction
  PROVE  \E t \in TxId : Promise!Record(t)
<1>1. PICK t \in TxId :
        /\ NextId(t)
        /\ transactions' = [transactions EXCEPT ![t] = TransactionOf(processor.command)]
  BY DEF RecordTransaction
<1>2. UNCHANGED ledger_events /\ processor.command \in Command
  BY DEF RecordTransaction, storeVars, IInv, ProcessorInv
<1>3. /\ t \notin Recorded
      /\ transactions'[t] = TransactionOf(processor.command)
      /\ \A u \in TxId : u # t => transactions'[u] = transactions[u]
  BY <1>1 DEF NextId, IInv, TypeOK
<1>4. /\ transactions'[t].status = "processing"
      /\ transactions'[t].account \in Ledgers
  BY <1>2, <1>3 DEF TransactionOf, Command
<1>5. Recorded' = Recorded \cup {t}
  BY <1>3, <1>4 DEF Recorded
<1>6. \A u \in Recorded : Settlements(u)' = Settlements(u) /\ Holds(u)' = Holds(u)
  BY <1>2, <1>3 DEF Recorded, Settlements, SettlingType, Holds, Movements
<1>7. \A l \in Ledgers : \A i \in DOMAIN ledger_events[l] :
        ledger_events[l][i].transaction_id = t => ledger_events[l][i].transaction_type = "initiated"
  <2> SUFFICES ASSUME NEW l \in Ledgers, NEW i \in DOMAIN ledger_events[l],
                      ledger_events[l][i].transaction_id = t,
                      ledger_events[l][i].transaction_type # "initiated"
               PROVE  t \in Recorded
    BY <1>3
  <2> QED BY DEF IInv, Books, MovementIsRecorded
<1>8. Settlements(t)' = {} /\ Holds(t)' = {}
  BY <1>2, <1>4, <1>7 DEF Settlements, SettlingType, Holds, Movements
<1>9. PromiseHeld' = PromiseHeld /\ PromiseSettled' = PromiseSettled
  BY <1>5, <1>6, <1>8 DEF PromiseHeld, PromiseSettled
<1>10. PromiseCompleted' = PromiseCompleted
  BY <1>3, <1>4, <1>5 DEF PromiseCompleted, Recorded
<1> QED BY <1>3, <1>5, <1>9, <1>10 DEF Promise!Record, PromiseHeld, PromiseSettled, PromiseCompleted

(* A commit holds or settles one transaction, or settles one again. *)
LEMMA PromiseCommit ==
  ASSUME IInv, NEW p \in Actors, InStore(p), Commit(p)
  PROVE  (\E t \in TxId : Promise!Hold(t) \/ Promise!Settle(t)) \/ UNCHANGED Promise!vars
<1>1. PICK t : t = Subject(p)
  OBVIOUS
<1>2. UNCHANGED transactions /\ exec[p].step = "loaded"
  BY DEF InStore, StoreUnchangedElsewhere, databaseVars, Commit, InCall
<1>3. /\ TypeOK /\ t \in Recorded /\ t \in TxId
      /\ exec[p].command \in {DebitHold(t), OutboxCommand(t)}
      /\ p = Processor => exec[p].command = DebitHold(t)
      /\ p # Processor => exec[p].command = OutboxCommand(t)
  BY <1>1, <1>2, CallSubject DEF IInv, Recorded
<1>4. /\ \A u \in Recorded : Settlements(u) \subseteq Settlements(u)'
      /\ \A u \in Recorded :
           Settlements(u)' # Settlements(u) => u = t /\ exec[p].command = OutboxCommand(t)
      /\ exec[p].command = OutboxCommand(t) => Settlements(t)' # {}
      /\ \A u \in Recorded :
           Holds(u)' # Holds(u) =>
             /\ u = t /\ exec[p].command = DebitHold(t)
             /\ \E i : Holds(t)' = Holds(t) \cup {i}
  BY <1>2, <1>3, CommitMovements
<1>5. DebitHold(t) # OutboxCommand(t)
  BY DEF DebitHold, OutboxCommand
<1>6. Recorded' = Recorded /\ PromiseCompleted' = PromiseCompleted
  BY <1>2 DEF Recorded, PromiseCompleted
<1>7. CASE exec[p].command = DebitHold(t)
  <2>1. PromiseSettled' = PromiseSettled
    BY <1>4, <1>5, <1>6, <1>7 DEF PromiseSettled
  <2>2. \A u \in Recorded : u # t => Holds(u)' = Holds(u)
    BY <1>4
  <2>3. CASE Holds(t)' = Holds(t)
    <3>1. PromiseHeld' = PromiseHeld
      BY <1>6, <2>2, <2>3 DEF PromiseHeld
    <3> QED BY <1>6, <2>1, <3>1 DEF Promise!vars, PromiseHeld, PromiseSettled, PromiseCompleted
  <2>4. CASE Holds(t)' # Holds(t)
    <3>1. Holds(t)' # {} /\ Holds(t) = {}
      <4>1. p = Processor
        BY <1>3, <1>5, <1>7
      <4>2. Holds(t) = {}
        BY <1>1, <1>2, <4>1 DEF IInv, ProcessorInv, Subject
      <4> QED BY <2>4, <4>2
    <3>2. PromiseHeld' = PromiseHeld \cup {t} /\ t \notin PromiseHeld
      BY <1>3, <1>6, <2>2, <3>1 DEF PromiseHeld
    <3>3. Promise!Hold(t)
      BY <1>3, <1>6, <2>1, <3>2 DEF Promise!Hold, PromiseHeld, PromiseSettled, PromiseCompleted
    <3> QED BY <1>3, <3>3
  <2> QED BY <2>3, <2>4
<1>8. CASE exec[p].command = OutboxCommand(t)
  <2>1. PromiseHeld' = PromiseHeld
    BY <1>4, <1>5, <1>6, <1>8 DEF PromiseHeld
  <2>2. \A u \in Recorded : u # t => Settlements(u)' = Settlements(u)
    BY <1>4
  <2>3. CASE Settlements(t) # {}
    <3>1. PromiseSettled' = PromiseSettled
      BY <1>3, <1>4, <1>6, <1>8, <2>2, <2>3 DEF PromiseSettled
    <3> QED BY <1>6, <2>1, <3>1 DEF Promise!vars, PromiseHeld, PromiseSettled, PromiseCompleted
  <2>4. CASE Settlements(t) = {}
    <3>1. PromiseSettled' = PromiseSettled \cup {t} /\ t \notin PromiseSettled
      BY <1>3, <1>4, <1>6, <1>8, <2>2, <2>4 DEF PromiseSettled
    <3>2. t \notin PromiseCompleted
      BY <1>3, <2>4 DEF IInv, Books, PromiseCompleted
    <3>3. Promise!Settle(t)
      BY <1>3, <1>6, <2>1, <3>1, <3>2 DEF Promise!Settle, PromiseHeld, PromiseSettled, PromiseCompleted
    <3> QED BY <1>3, <3>3
  <2> QED BY <2>3, <2>4
<1> QED BY <1>3, <1>7, <1>8

(* Completion comes after settlement; a second one changes nothing. *)
LEMMA PromiseComplete ==
  ASSUME IInv, NEW r \in Runs, CompleteTransaction(r)
  PROVE  (\E t \in TxId : Promise!Complete(t)) \/ UNCHANGED Promise!vars
<1>1. PICK e : e = runs[r].event
  OBVIOUS
<1>2. /\ UNCHANGED ledger_events
      /\ transactions' = [transactions EXCEPT ![e].status = "completed"]
      /\ e \in Recorded /\ e \in TxId /\ Settlements(e) # {}
      /\ transactions[e] \in Transaction
  BY <1>1, RecordedType DEF CompleteTransaction, EventApplied, IInv, RunInv
<1>3. /\ transactions'[e] = [transactions[e] EXCEPT !.status = "completed"]
      /\ \A u \in TxId : u # e => transactions'[u] = transactions[u]
  BY <1>2 DEF IInv, TypeOK
<1>4. /\ transactions'[e].type = transactions[e].type
      /\ transactions'[e].account = transactions[e].account
      /\ transactions'[e].status = "completed"
  BY <1>2, <1>3 DEF Transaction
<1>5. Recorded' = Recorded
  BY <1>2, <1>3, <1>4 DEF Recorded
<1>6. \A u \in Recorded : Settlements(u)' = Settlements(u) /\ Holds(u)' = Holds(u)
  BY <1>2, <1>3, <1>4 DEF Recorded, Settlements, SettlingType, Holds, Movements
<1>7. PromiseHeld' = PromiseHeld /\ PromiseSettled' = PromiseSettled /\ e \in PromiseSettled
  BY <1>2, <1>5, <1>6 DEF PromiseHeld, PromiseSettled
<1>8. PromiseCompleted' = PromiseCompleted \cup {e}
  BY <1>2, <1>3, <1>4, <1>5 DEF PromiseCompleted, Recorded
<1>9. CASE e \in PromiseCompleted
  <2>1. PromiseCompleted' = PromiseCompleted
    BY <1>8, <1>9
  <2> QED BY <1>5, <1>7, <2>1 DEF Promise!vars, PromiseHeld, PromiseSettled, PromiseCompleted
<1>10. CASE e \notin PromiseCompleted
  <2>1. Promise!Complete(e)
    BY <1>5, <1>7, <1>8, <1>10 DEF Promise!Complete, PromiseHeld, PromiseSettled, PromiseCompleted
  <2> QED BY <1>2, <2>1
<1> QED BY <1>9, <1>10

LEMMA PromiseStep == IInv /\ [Next]_vars => [Promise!Next]_(Promise!vars)
<1> DEFINE Kept == Promise!Next \/ UNCHANGED Promise!vars
<1> SUFFICES ASSUME IInv, [Next]_vars PROVE Kept
  OBVIOUS
<1>1. UNCHANGED <<ledger_events, transactions>> => Kept
  BY PromiseStutters
<1>2. RecordTransaction => Kept
  BY PromiseRecord DEF Promise!Next
<1>3. ASSUME NEW r \in Runs, CompleteTransaction(r) PROVE Kept
  BY <1>3, PromiseComplete DEF Promise!Next
<1>4. ASSUME NEW p \in Actors, InStore(p) PROVE Kept
  <2>1. CASE Commit(p)
    BY <1>4, <2>1, PromiseCommit DEF Promise!Next
  <2>2. CASE OptimisticLockError(p) \/ LoadView(p) \/ UpdateView(p)
    <3>1. UNCHANGED <<ledger_events, transactions>>
      BY <1>4, <2>2 DEF InStore, StoreUnchangedElsewhere, databaseVars,
           OptimisticLockError, LoadView, UpdateView
    <3> QED BY <1>1, <3>1
  <2> QED BY <1>4, <2>1, <2>2 DEF InStore, StoreStep
<1> HIDE DEF Kept
<1>5. CASE \E command \in Command : Submit(command)
  BY <1>1, <1>5 DEF Submit, storeVars, databaseVars, lockVars
<1>6. CASE ProcessorStep
  <2>1. Processor \in Actors
    BY DEF Actors
  <2>2. CASE ReceiveCommand \/ Validate
    BY <1>1, <2>2 DEF ReceiveCommand, Validate, storeVars, databaseVars, lockVars
  <2>3. CASE CallDebitHold \/ DebitHoldReturns
    BY <1>1, <2>3 DEF CallDebitHold, DebitHoldReturns, Execute, databaseVars
  <2> QED BY <1>2, <1>4, <1>6, <2>1, <2>2, <2>3 DEF ProcessorStep
<1>7. ASSUME NEW r \in Runs, Fetch(r) \/ RunStep(r) PROVE Kept
  <2>1. r \in Actors
    BY DEF Actors
  <2>2. CASE Fetch(r) \/ SetLock(r) \/ SetExpiry(r) \/ LockHeld(r) \/ CheckLock(r) \/ DeleteLock(r)
    BY <1>1, <2>2 DEF Fetch, SetLock, SetExpiry, LockHeld, CheckLock, DeleteLock, storeVars, databaseVars, lockVars
  <2>3. CASE ProcessEvent(r) \/ EventFailed(r)
    BY <1>1, <2>3 DEF ProcessEvent, EventFailed, Execute, databaseVars
  <2> QED BY <1>3, <1>4, <1>7, <2>1, <2>2, <2>3 DEF RunStep
<1>8. CASE LockExpires \/ UNCHANGED vars
  BY <1>1, <1>8 DEF LockExpires, vars, storeVars, databaseVars, lockVars
<1>9. CASE Fault
  <2>1. UNCHANGED <<ledger_events, transactions>>
    BY <1>9 DEF Fault, RecordFails, StoreFault, StoreFails, DispatchFails,
         StoreUnchangedElsewhere, CompleteFails, RedisFails, Crash, storeVars, databaseVars, lockVars
  <2> QED BY <1>1, <2>1
<1> QED BY <1>5, <1>6, <1>7, <1>8, <1>9 DEF Next

(* Every behaviour of Payments is one that PaymentPromise allows: records  *)
(* before money, money before completion, and nothing ever taken back.     *)
THEOREM PromiseKeptAlways == Spec => PromiseKept
<1>1. Init => Promise!Init
  BY PromiseInit
<1>2. IInv /\ [Next]_vars => [Promise!Next]_(Promise!vars)
  BY PromiseStep
<1> QED BY <1>1, <1>2, Invariant, PTL DEF Spec, PromiseKept, Promise!Spec
=============================================================================
