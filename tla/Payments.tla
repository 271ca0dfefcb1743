------------------------------ MODULE Payments ------------------------------
(***************************************************************************)
(* Deposits and withdrawals, from the HTTP handler to the ledger.          *)
(*                                                                         *)
(*   handler    puts the command on a channel and answers at once          *)
(*   processor  takes commands one at a time: checks the account and its   *)
(*              ledger view, records transaction, journal and outbox row   *)
(*              in one database transaction, and for a withdrawal then     *)
(*              holds the money on the ledger                              *)
(*   job runs   started by cron every ten seconds, also while an earlier   *)
(*              run is alive: read the unprocessed outbox rows, take the   *)
(*              Redis lock, and for each row execute the ledger command    *)
(*              and complete the transaction; then release the lock        *)
(*                                                                         *)
(* They share the ledgers (LedgerStore), the transactions and the outbox.  *)
(* Money that moves and the rows that say so are written in different      *)
(* database transactions, so what a crash, a failed call or another run    *)
(* leaves half done is what the properties are about.                      *)
(*                                                                         *)
(* An account and its ledger share a name.  The journal lines of a         *)
(* transaction (one on the account's ledger, one on the house ledger, same *)
(* amount) are written once, with it, and are not kept apart from it.      *)
(***************************************************************************)
EXTENDS LedgerStore

CONSTANTS
  Currencies,
  HouseCurrencies,   \* currencies with an active house account
  AccountView,       \* status and currency of each account: nothing here changes them
  Amounts,           \* amounts of the commands
  BatchLimit,        \* LIMIT of get_unprocessed_outbox, 100 in the code
  MaxQueue,          \* bound: commands waiting in the (unbounded) channel
  MaxFaults,         \* bound: failed calls, panics and crashes
  RunsOutliveLock    \* may a run work for longer than LOCK_TIMEOUT?

NoRun == "no run"

ASSUME PaymentsAssumption ==
  /\ HouseCurrencies \subseteq Currencies
  /\ AccountView \in [Ledgers -> [status: {"Pending", "Approved"}, currency: Currencies]]
  /\ Amounts \subseteq Int
  /\ BatchLimit \in Nat \ {0}
  /\ MaxQueue \in Nat
  /\ MaxFaults \in Nat
  /\ RunsOutliveLock \in BOOLEAN
  /\ NoRun \notin Runs

VARIABLES
  command_queue,   \* the mpsc channel of accepted commands
  processor,       \* the command being processed, and how far
  transactions,    \* table transactions, with the journal of each
  outbox,          \* table outbox: one row per transaction
  runs,            \* the job runs: the rows each has read, and how far it is
  lock,            \* the key outbox_lock: the run that set it
  lock_expires,    \* has that key a time to live?
  faults           \* faults so far

vars == <<ledger_events, ledger_views, exec, command_queue, processor,
          transactions, outbox, runs, lock, lock_expires, faults>>

Command ==
  [type: {"Deposit", "Withdrawal"}, id: Ledgers, amount: Amounts, currency: Currencies]

Transaction ==
  [type: {"Deposit", "Withdrawal"}, account: Ledgers, amount: Amounts,
   currency: Currencies, status: {"processing", "completed"}]

NoTransaction == [status |-> "none"]

IdleProcessor == [step |-> "idle", command |-> NoCommand, transaction |-> NoTxId]

(* "acquired": SETNX done, EXPIRE to come; "releasing": GET done, DEL to come. *)
RunStates == {"idle", "fetched", "acquired", "locked", "executing", "releasing"}

IdleRun == [step |-> "idle", batch |-> {}, event |-> NoTxId]

TypeOK ==
  /\ StoreTypeOK
  /\ command_queue \in Seq(Command)
  /\ processor \in [step: {"idle", "validate", "record", "hold", "holding"},
                    command: Command \cup {NoCommand},
                    transaction: TxId \cup {NoTxId}]
  /\ transactions \in [TxId -> Transaction \cup {NoTransaction}]
  /\ outbox \in [TxId -> {"none", "pending", "processed"}]
  /\ runs \in [Runs -> [step: RunStates,
                        batch: SUBSET TxId,
                        event: TxId \cup {NoTxId}]]
  /\ lock \in Runs \cup {NoRun}
  /\ lock_expires \in BOOLEAN
  /\ faults \in 0..MaxFaults

Init ==
  /\ StoreInit
  /\ command_queue = <<>>
  /\ processor = IdleProcessor
  /\ transactions = [t \in TxId |-> NoTransaction]
  /\ outbox = [t \in TxId |-> "none"]
  /\ runs = [r \in Runs |-> IdleRun]
  /\ lock = NoRun
  /\ lock_expires = FALSE
  /\ faults = 0

databaseVars == <<transactions, outbox>>
lockVars == <<lock, lock_expires>>
jobVars == <<runs, lockVars>>

-----------------------------------------------------------------------------
(* The command channel and its processor.                                  *)

Recorded == {t \in TxId : transactions[t].status # "none"}

Pending == {t \in TxId : outbox[t] = "pending"}

(* Bound: transaction ids left for the commands under way. *)
IdsLeft ==
  LET checking == IF processor.step \in {"validate", "record"} THEN 1 ELSE 0
  IN  Cardinality(TxId) - Cardinality(Recorded) - Len(command_queue) - checking

(* The handler accepts the command and answers. *)
Submit(command) ==
  /\ IdsLeft > 0
  /\ Len(command_queue) < MaxQueue
  /\ command_queue' = Append(command_queue, command)
  /\ UNCHANGED <<storeVars, processor, databaseVars, jobVars, faults>>

(* get_house_account fails, and the command with it, for other currencies. *)
ReceiveCommand ==
  /\ processor.step = "idle"
  /\ command_queue # <<>>
  /\ command_queue' = Tail(command_queue)
  /\ processor' = IF Head(command_queue).currency \in HouseCurrencies
                  THEN [IdleProcessor EXCEPT !.step = "validate",
                                             !.command = Head(command_queue)]
                  ELSE IdleProcessor
  /\ UNCHANGED <<storeVars, databaseVars, jobVars, faults>>

(* Mutant of Valid: the account's currency is not compared. *)
ValidInAnyCurrency(command) ==
  /\ AccountView[command.id].status = "Approved"
  /\ command.type = "Withdrawal" => ~(ledger_views[command.id].available < command.amount)

(* BankAccountLogic::validate, on the views. *)
Valid(command) ==
  /\ AccountView[command.id].status = "Approved"
  /\ AccountView[command.id].currency = command.currency
  /\ command.type = "Withdrawal" => ~(ledger_views[command.id].available < command.amount)

Validate ==
  /\ processor.step = "validate"
  /\ processor' = IF Valid(processor.command)
                  THEN [processor EXCEPT !.step = "record"]
                  ELSE IdleProcessor
  /\ UNCHANGED <<storeVars, command_queue, databaseVars, jobVars, faults>>

(* Ids are new uuids; here they also give the order of created_at. *)
NextId(t) == t \notin Recorded /\ \A u \in TxId : u < t => u \in Recorded

(* Mutant of TransactionOf: a status of the outbox for one of transactions. *)
TransactionPending(command) ==
  [type |-> command.type, account |-> command.id, amount |-> command.amount,
   currency |-> command.currency, status |-> "pending"]

TransactionOf(command) ==
  [type |-> command.type, account |-> command.id, amount |-> command.amount,
   currency |-> command.currency, status |-> "processing"]

(* create_transaction_with_journal: all rows in one database transaction. *)
RecordTransaction ==
  /\ processor.step = "record"
  /\ \E t \in TxId :
       /\ NextId(t)
       /\ transactions' = [transactions EXCEPT ![t] = TransactionOf(processor.command)]
       /\ outbox' = [outbox EXCEPT ![t] = "pending"]
       /\ processor' = IF processor.command.type = "Withdrawal"
                       THEN [processor EXCEPT !.step = "hold", !.transaction = t]
                       ELSE IdleProcessor
  /\ UNCHANGED <<storeVars, command_queue, jobVars, faults>>

RecordFails ==
  /\ processor.step = "record"
  /\ processor' = IdleProcessor
  /\ UNCHANGED <<storeVars, command_queue, databaseVars, jobVars>>

DebitHold(t) ==
  [type |-> "DebitHold", ledger |-> transactions[t].account,
   transaction_id |-> t, amount |-> transactions[t].amount]

CallDebitHold ==
  /\ processor.step = "hold"
  /\ Execute(Processor, DebitHold(processor.transaction))
  /\ processor' = [processor EXCEPT !.step = "holding"]
  /\ UNCHANGED <<command_queue, databaseVars, jobVars, faults>>

(* Ok or Err: process_commands logs it and turns to the next command. *)
DebitHoldReturns ==
  /\ processor.step = "holding"
  /\ exec[Processor].step \in {"ok", "err"}
  /\ ReturnFrom(Processor)
  /\ processor' = IdleProcessor
  /\ UNCHANGED <<ledger_events, ledger_views, command_queue, databaseVars, jobVars, faults>>

-----------------------------------------------------------------------------
(* The outbox job.                                                         *)

(* Mutant of Batch: one row too few. *)
BatchOffByOne == {t \in Pending : Cardinality({u \in Pending : u < t}) < BatchLimit - 1}

(* Mutant of Batch: rows already processed are read again. *)
BatchOfRecorded == {t \in Recorded : Cardinality({u \in Recorded : u < t}) < BatchLimit}

(* get_unprocessed_outbox: the oldest rows, at most BatchLimit. *)
Batch == {t \in Pending : Cardinality({u \in Pending : u < t}) < BatchLimit}

(* Cron starts a run; it reads the outbox before it asks for the lock. *)
Fetch(r) ==
  /\ runs[r].step = "idle"
  /\ runs' = [runs EXCEPT ![r] = [IdleRun EXCEPT !.step = "fetched", !.batch = Batch]]
  /\ UNCHANGED <<storeVars, command_queue, processor, databaseVars, lockVars, faults>>

(* Mutant of LockFree: SET instead of SETNX. *)
LockIgnored == TRUE

LockFree == lock = NoRun

(* acquire_lock: SETNX, then EXPIRE. *)
SetLock(r) ==
  /\ runs[r].step = "fetched"
  /\ LockFree
  /\ lock' = r
  /\ lock_expires' = FALSE
  /\ runs' = [runs EXCEPT ![r].step = "acquired"]
  /\ UNCHANGED <<storeVars, command_queue, processor, databaseVars, faults>>

SetExpiry(r) ==
  /\ runs[r].step = "acquired"
  /\ lock_expires' = (lock # NoRun)
  /\ runs' = [runs EXCEPT ![r].step = "locked"]
  /\ UNCHANGED <<storeVars, command_queue, processor, databaseVars, lock, faults>>

(* acquire_lock returns None, and the unwrap ends this run. *)
LockHeld(r) ==
  /\ runs[r].step = "fetched"
  /\ ~LockFree
  /\ runs' = [runs EXCEPT ![r] = IdleRun]
  /\ UNCHANGED <<storeVars, command_queue, processor, databaseVars, lockVars, faults>>

Oldest(r, t) == t \in runs[r].batch /\ \A u \in runs[r].batch : t <= u

(* Mutant of OutboxCommand: both kinds of rows say Credit. *)
OutboxCommandCredits(t) ==
  [type |-> "Credit", ledger |-> transactions[t].account,
   transaction_id |-> t, amount |-> transactions[t].amount]

(* Mutant of OutboxCommand: the row of a withdrawal says DebitHold. *)
OutboxCommandHolds(t) ==
  [type |-> IF transactions[t].type = "Deposit" THEN "Credit" ELSE "DebitHold",
   ledger |-> transactions[t].account,
   transaction_id |-> t, amount |-> transactions[t].amount]

(* The command the outbox row carries. *)
OutboxCommand(t) ==
  [type |-> IF transactions[t].type = "Deposit" THEN "Credit" ELSE "DebitRelease",
   ledger |-> transactions[t].account,
   transaction_id |-> t, amount |-> transactions[t].amount]

ProcessEvent(r) ==
  /\ runs[r].step = "locked"
  /\ \E t \in TxId :
       /\ Oldest(r, t)
       /\ Execute(r, OutboxCommand(t))
       /\ runs' = [runs EXCEPT ![r].step = "executing", ![r].event = t]
  /\ UNCHANGED <<command_queue, processor, databaseVars, lockVars, faults>>

(* On to the batch's next event, whatever became of this one. *)
NextEvent(r) ==
  runs' = [runs EXCEPT ![r] = [step |-> "locked", event |-> NoTxId,
                               batch |-> runs[r].batch \ {runs[r].event}]]

(* Mutant of EventApplied: an error of execute is taken for success. *)
EventAppliedOrNot(r) == exec[r].step \in {"ok", "err"}

EventApplied(r) == exec[r].step = "ok"

(* complete_transaction: both rows in one database transaction. *)
CompleteTransaction(r) ==
  /\ runs[r].step = "executing"
  /\ EventApplied(r)
  /\ transactions' = [transactions EXCEPT ![runs[r].event].status = "completed"]
  /\ outbox' = [outbox EXCEPT ![runs[r].event] = "processed"]
  /\ ReturnFrom(r)
  /\ NextEvent(r)
  /\ UNCHANGED <<ledger_events, ledger_views, command_queue, processor, lockVars, faults>>

(* process_event failed: the error is logged and the row stays. *)
EventFailed(r) ==
  /\ runs[r].step = "executing"
  /\ exec[r].step = "err"
  /\ ReturnFrom(r)
  /\ NextEvent(r)
  /\ UNCHANGED <<ledger_events, ledger_views, command_queue, processor,
                 databaseVars, lockVars, faults>>

CompleteFails(r) ==
  /\ runs[r].step = "executing"
  /\ EventApplied(r)
  /\ ReturnFrom(r)
  /\ NextEvent(r)
  /\ UNCHANGED <<ledger_events, ledger_views, command_queue, processor, databaseVars, lockVars>>

(* release_lock: GET; the key is deleted if it has the value this run gave *)
(* it, and a key that is gone or of another run ends this one.             *)
CheckLock(r) ==
  /\ runs[r].step = "locked"
  /\ runs[r].batch = {}
  /\ runs' = [runs EXCEPT ![r] = IF lock = r THEN [IdleRun EXCEPT !.step = "releasing"]
                                             ELSE IdleRun]
  /\ UNCHANGED <<storeVars, command_queue, processor, databaseVars, lockVars, faults>>

(* DEL, whosever the key is by now. *)
DeleteLock(r) ==
  /\ runs[r].step = "releasing"
  /\ lock' = NoRun
  /\ lock_expires' = FALSE
  /\ runs' = [runs EXCEPT ![r] = IdleRun]
  /\ UNCHANGED <<storeVars, command_queue, processor, databaseVars, faults>>

(* Redis cannot be reached, for any of the four commands: the unwrap ends *)
(* the run and the key stays as it is.                                    *)
RedisFails(r) ==
  /\ \/ runs[r].step \in {"fetched", "acquired", "releasing"}
     \/ runs[r].step = "locked" /\ runs[r].batch = {}
  /\ runs' = [runs EXCEPT ![r] = IdleRun]
  /\ UNCHANGED <<storeVars, command_queue, processor, databaseVars, lockVars>>

(* LOCK_TIMEOUT is over, if EXPIRE ever set it.  Of a run that is still at *)
(* work only when runs may take that long; the key a dead run left is      *)
(* always waited out.                                                      *)
Abandoned(r) == runs[r].step \in {"idle", "fetched"}

LockExpires ==
  /\ lock # NoRun
  /\ lock_expires
  /\ Abandoned(lock) \/ RunsOutliveLock
  /\ lock' = NoRun
  /\ lock_expires' = FALSE
  /\ UNCHANGED <<storeVars, command_queue, processor, databaseVars, runs, faults>>

-----------------------------------------------------------------------------
(* The process dies and is started again: what was in memory is gone. *)
Crash ==
  /\ command_queue' = <<>>
  /\ processor' = IdleProcessor
  /\ runs' = [r \in Runs |-> IdleRun]
  /\ exec' = [p \in Actors |-> OutOfCall("idle")]
  /\ UNCHANGED <<ledger_events, ledger_views, databaseVars, lockVars>>

StoreUnchangedElsewhere ==
  UNCHANGED <<command_queue, processor, databaseVars, jobVars>>

Fault ==
  /\ faults < MaxFaults
  /\ faults' = faults + 1
  /\ \/ RecordFails
     \/ \E p \in Actors : StoreFault(p) /\ StoreUnchangedElsewhere
     \/ \E r \in Runs : CompleteFails(r) \/ RedisFails(r)
     \/ Crash

InStore(p) == StoreStep(p) /\ StoreUnchangedElsewhere /\ UNCHANGED faults

ProcessorStep ==
  \/ ReceiveCommand \/ Validate \/ RecordTransaction
  \/ CallDebitHold \/ DebitHoldReturns
  \/ InStore(Processor)

RunStep(r) ==
  \/ SetLock(r) \/ SetExpiry(r) \/ LockHeld(r)
  \/ ProcessEvent(r) \/ CompleteTransaction(r) \/ EventFailed(r)
  \/ CheckLock(r) \/ DeleteLock(r)
  \/ InStore(r)

Next ==
  \/ \E command \in Command : Submit(command)
  \/ ProcessorStep
  \/ \E r \in Runs : Fetch(r) \/ RunStep(r)
  \/ LockExpires
  \/ Fault

Spec == Init /\ [][Next]_vars

(* Tokio keeps polling a task that can go on, cron keeps ticking, and Redis *)
(* expires a key whose time is over.  Nobody has to submit a command.       *)
Fairness ==
  /\ WF_vars(ProcessorStep)
  /\ \A r \in Runs : WF_vars(Fetch(r)) /\ WF_vars(RunStep(r))
  /\ WF_vars(LockExpires /\ Abandoned(lock))

FairSpec == Spec /\ Fairness

-----------------------------------------------------------------------------
(* Properties.  What "Violated" stands before, the code does not do: a     *)
(* comment or the README says it, and a run shows the counterexample.      *)

(* The event that settles a transaction: the last one its outbox command *)
(* puts on the ledger.                                                   *)
SettlingType(t) ==
  IF transactions[t].type = "Deposit" THEN "credit_release" ELSE "debit_release"

Settlements(t) == Movements(transactions[t].account, t, SettlingType(t))

Holds(t) == Movements(transactions[t].account, t, "debit_hold")

(* A transaction is completed, and its outbox row processed, together, and *)
(* only when its command is on the ledger for good: whatever call fails    *)
(* and wherever a crash falls, no completed transaction lacks its money.   *)
CompletedWasApplied ==
  \A t \in Recorded :
    /\ transactions[t].status = "completed" <=> outbox[t] = "processed"
    /\ outbox[t] = "processed" => Settlements(t) # {}

(* No money moves without a record: every movement on a ledger is of a     *)
(* transaction recorded before it for that account, of the kind the        *)
(* movement says, in the currency of an approved account.                  *)
MovementIsRecorded ==
  \A l \in Ledgers : \A i \in DOMAIN ledger_events[l] :
    LET event == ledger_events[l][i]
        t     == event.transaction_id
    IN  event.transaction_type # "initiated" =>
          /\ t \in Recorded
          /\ transactions[t].account = l
          /\ event.transaction_type \in
               (IF transactions[t].type = "Deposit"
                THEN {"credit_hold", "credit_release"}
                ELSE {"debit_hold", "debit_release"})
          /\ AccountView[l] = [status |-> "Approved", currency |-> transactions[t].currency]

(* A withdrawal's money is held at most once, however often its outbox row *)
(* is processed again.                                                     *)
HoldAtMostOnce ==
  \A t \in Recorded : Cardinality(Holds(t)) <= 1

(* The job has no memory of what it applied: a transaction can be settled  *)
(* again by each run that had read its row before, and once more by each   *)
(* after every fault.  It never gets worse than that.                      *)
ReplayBound ==
  \A t \in Recorded : Cardinality(Settlements(t)) <= Cardinality(Runs) * (1 + faults)

(* A run works on its batch alone. *)
LockExclusion ==
  \A r, s \in Runs :
    /\ runs[r].step \in {"locked", "executing"}
    /\ runs[s].step \in {"locked", "executing"}
    => r = s

(* service.rs checks the sign of no amount.  These are the ledgers that no *)
(* negative one was recorded for.                                          *)
WithoutNegatives ==
  {l \in Ledgers : \A t \in Recorded :
                     transactions[t].account = l => transactions[t].amount >= 0}

(* The money that the check of a withdrawal saw available is still there   *)
(* at its hold, although nothing is locked between the two and the job     *)
(* writes the same view.  Only a negative amount on this ledger takes it   *)
(* away (the job credits a negative deposit; a copy of the view from       *)
(* before a negative hold is written back), or a run that outlives the     *)
(* lock and writes back a copy from before another run's credit.           *)
ValidatedFundsRemain ==
  /\ processor.step \in {"record", "hold"}
  /\ processor.command.type = "Withdrawal"
  /\ processor.command.id \in WithoutNegatives
  => ledger_views[processor.command.id].available >= processor.command.amount

Total(S) == SumFunctionOnSet([t \in TxId |-> transactions[t].amount], S)

Of(l, type) ==
  {t \in Recorded : transactions[t].account = l /\ transactions[t].type = type}

AtRest ==
  /\ Pending = {} /\ processor = IdleProcessor
  /\ \A r \in Runs : runs[r].event = NoTxId

Held(l) == {t \in Of(l, "Withdrawal") : Holds(t) # {}}

(* What was settled, each transaction as often as it was. *)
TotalSettled(l, type) ==
  SumFunctionOnSet([t \in TxId |-> Cardinality(Settlements(t)) * transactions[t].amount],
                   Of(l, type))

(* At every moment, whatever overlapped, failed or crashed, the stored      *)
(* events of a ledger add up: available is what was deposited, as often as *)
(* the job settled it, less the withdrawals held, each once; pending is     *)
(* what was held less what was released, as often as it was.               *)
LedgerAddsUp ==
  \A l \in Ledgers :
    LET balance == Replay(ledger_events[l])
    IN  /\ balance.available = TotalSettled(l, "Deposit") - Total(Held(l))
        /\ balance.pending = Total(Held(l)) - TotalSettled(l, "Withdrawal")

(* With one run, as long as nothing fails, once all is processed the stored *)
(* events of a ledger account for its journal: every deposit is available  *)
(* exactly once, every withdrawal left pending exactly once, and what a    *)
(* hold took from available it put on pending.                             *)
LedgerMatchesJournal ==
  AtRest /\ faults = 0 =>
    \A l \in Ledgers :
      LET balance == Replay(ledger_events[l])
      IN  /\ balance.available = Total(Of(l, "Deposit")) - Total(Held(l))
          /\ balance.pending = Total(Held(l)) - Total(Of(l, "Withdrawal"))

(* Violated.  Once all is processed, the view is the balance of the stored events. *)
ViewFollowsEvents ==
  AtRest => \A l \in Ledgers : ledger_views[l] = Replay(ledger_events[l])

(* Violated.  Once all is processed, the money of every withdrawal was held. *)
EveryWithdrawalWasHeld ==
  AtRest => \A t \in Recorded : transactions[t].type = "Withdrawal" => Holds(t) # {}

(* Violated with overlapping runs.  A transaction is settled once. *)
SettledAtMostOnce ==
  \A t \in Recorded : Cardinality(Settlements(t)) <= 1

(* With runs that never overlap, nothing is settled after its completion,  *)
(* not even after a failed call or a crash.                                *)
NoLateSettlement ==
  [][\A t \in Recorded :
       transactions[t].status = "completed" => Settlements(t)' = Settlements(t)]_vars

(* A run died between SETNX and EXPIRE: its key stays for good. *)
LockStuck == lock # NoRun /\ ~lock_expires /\ Abandoned(lock)

(* Every recorded transaction is completed in the end, under the fairness  *)
(* of the tasks and cron, for any finite number of faults: a failed event  *)
(* stays in the outbox for a later run, and a dead run's lock expires,     *)
(* unless the run died before it set the expiry.                           *)
EveryTransactionCompletes ==
  \A t \in TxId : (outbox[t] = "pending") ~> (outbox[t] = "processed" \/ LockStuck)

(* Violated.  The lock is free again some time after it was taken. *)
LockIsFreed == (lock # NoRun) ~> (lock = NoRun)

(* What payments promise, seen from one transaction: see PaymentPromise. *)
Promise == INSTANCE PaymentPromise WITH
  recorded  <- Recorded,
  held      <- {t \in Recorded : Holds(t) # {}},
  settled   <- {t \in Recorded : Settlements(t) # {}},
  completed <- {t \in Recorded : transactions[t].status = "completed"}

(* Payments keep that promise, step by step. *)
PromiseKept == Promise!Spec
=============================================================================
