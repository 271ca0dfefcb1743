-------------------------------- MODULE Bank --------------------------------
(***************************************************************************)
(* Accounts and payments behind one processor.                             *)
(*                                                                         *)
(* Payments takes the accounts as given and looks at balances; this module *)
(* takes balances away and looks at who is paid: the steps of Accounts     *)
(* with, inside the processor's step "pay", those of a deposit or a        *)
(* withdrawal.  Accounts may be opened, approved, approved again and lose  *)
(* rows between any two payments, so the row that is validated, the events *)
(* that name the ledger, the ledger's row and the house account may each   *)
(* be there or not.                                                        *)
(*                                                                         *)
(* The funds check may go either way here, and a job run may take any      *)
(* unprocessed row at any time: amounts, locks and races on one ledger are *)
(* in Payments.  What a transaction's kind and currency are is chosen when *)
(* the processor takes the command, as nothing looks at them before.       *)
(***************************************************************************)
EXTENDS Accounts

CONSTANTS
  Currencies,
  CurrencyOf,    \* the currency of each holder
  HouseKindOf,   \* for each currency the kind that is an active 'House'
  TxId           \* transaction ids, in their order; bound: payments recorded

NoTxId == 0
NoCurrency == "no currency"

ASSUME BankAssumption ==
  /\ CurrencyOf \in [Holders -> Currencies]
  /\ HouseKindOf \in [Currencies -> HouseKinds]
  /\ TxId \subseteq Nat \ {0} /\ IsFiniteSet(TxId)
  /\ NoCurrency \notin Currencies

VARIABLES
  ledger_currency,   \* the currency of the amount in each LedgerInitiated
  payment,           \* how far the processor is with a payment
  transactions,      \* table transactions, journal lines and outbox payload
  accepted           \* how many payments were accepted for each account, up to MaxAccepted

bankVars == <<ledger_currency, payment, transactions, accepted>>

allVars == <<vars, bankVars>>

Kind == {"Deposit", "Withdrawal"}

NoPayment ==
  [step |-> "none", type |-> "none", currency |-> NoCurrency,
   house |-> NoLedger, checked |-> NoLedger, transaction |-> NoTxId]

(* `checked` is the ledger whose funds validate looked at; `held` and *)
(* `settled` are the ledgers that were moved for the transaction.     *)
Transaction ==
  [account: AccountIds, type: Kind, currency: Currencies,
   ledger: LedgerIds, house: LedgerIds, checked: LedgerIds \cup {NoLedger},
   held: SUBSET LedgerIds, settled: SUBSET LedgerIds,
   status: {"processing", "completed"}]

NoTransaction == [status |-> "none"]

BankTypeOK ==
  /\ TypeOK
  /\ ledger_currency \in [LedgerIds -> Currencies \cup {NoCurrency}]
  /\ payment \in [step: {"house", "validate", "record", "hold"}, type: Kind,
                  currency: Currencies, house: LedgerIds \cup {NoLedger},
                  checked: LedgerIds \cup {NoLedger},
                  transaction: TxId \cup {NoTxId}] \cup {NoPayment}
  /\ transactions \in [TxId -> Transaction \cup {NoTransaction}]
  /\ accepted \in [AccountIds -> Nat]

BankInit ==
  /\ Init
  /\ ledger_currency = [l \in LedgerIds |-> NoCurrency]
  /\ payment = NoPayment
  /\ transactions = [t \in TxId |-> NoTransaction]
  /\ accepted = [a \in AccountIds |-> 0]

-----------------------------------------------------------------------------
(* The channel.                                                            *)

Recorded == {t \in TxId : transactions[t].status # "none"}

(* Bound: counting further would not tell more, as no more are recorded. *)
MaxAccepted == Cardinality(TxId)

BankSubmit(command) ==
  /\ Submit(command)
  /\ accepted' = IF command.type = "Payment" /\ accepted[command.id] < MaxAccepted
                 THEN [accepted EXCEPT ![command.id] = @ + 1] ELSE accepted
  /\ UNCHANGED <<ledger_currency, payment, transactions>>

(* Mutant of TakePayment: a command leaves the channel when it is done. *)
PeekPayment ==
  /\ processor.step = "idle"
  /\ command_queue # <<>>
  /\ Head(command_queue).type = "Payment"
  /\ processor' = [IdleProcessor EXCEPT !.step = "pay", !.command = Head(command_queue)]
  /\ \E type \in Kind, c \in Currencies :
       payment' = [NoPayment EXCEPT !.step = "house", !.type = type, !.currency = c]
  /\ UNCHANGED <<accountVars, ledgerVars, houseVars, command_queue, faults,
                 ledger_currency, transactions, accepted>>

TakePayment ==
  /\ ReceiveCommand
  /\ processor'.step = "pay"
  /\ \E type \in Kind, c \in Currencies :
       payment' = [NoPayment EXCEPT !.step = "house", !.type = type, !.currency = c]
  /\ UNCHANGED <<ledger_currency, transactions, accepted>>

TakeOther ==
  /\ ReceiveCommand
  /\ processor'.step # "pay"
  /\ UNCHANGED bankVars

-----------------------------------------------------------------------------
(* A payment, step by step.                                                *)

(* The payment is over, with whatever result. *)
EndPayment == PaymentEnds /\ payment' = NoPayment

(* The row get_house_account selects: an active house account of type House. *)
HouseAccountFor(h, c) == house_accounts[h].kind = HouseKindOf[c]

FindHouseAccount ==
  /\ payment.step = "house"
  /\ \/ \E h \in HouseIds :
          /\ HouseAccountFor(h, payment.currency)
          /\ payment' = [payment EXCEPT !.step = "validate",
                                        !.house = house_accounts[h].ledger_id]
          /\ UNCHANGED vars
     \/ /\ \A h \in HouseIds : ~HouseAccountFor(h, payment.currency)
        /\ EndPayment
  /\ UNCHANGED <<ledger_currency, transactions, accepted>>

(* parse_str(&bank_account.id).unwrap() *)
UnknownAccount ==
  /\ payment.step = "validate"
  /\ PaymentPanics
  /\ payment' = NoPayment
  /\ UNCHANGED <<ledger_currency, transactions, accepted>>

(* Mutant of RowAllows: the currency is not compared. *)
RowAllowsAnyCurrency(view, c) == view = NoView \/ view.status = "Approved"

(* validate on the account's row; without a row it only logs. *)
RowAllows(view, c) ==
  view = NoView \/ (view.status = "Approved" /\ CurrencyOf[view.holder] = c)

(* Funds are looked at for withdrawals, if the row's ledger has a row. *)
FundsChecked(view) == payment.type = "Withdrawal" /\ view.ledger_id \in ledger_views

ValidatePayment ==
  /\ payment.step = "validate"
  /\ bank_account_events[processor.command.id] # <<>>
  /\ LET view == bank_account_views[processor.command.id] IN
     \/ /\ RowAllows(view, payment.currency)
        /\ payment' = [payment EXCEPT !.step = "record", !.checked = view.ledger_id]
        /\ UNCHANGED vars
     \/ /\ ~RowAllows(view, payment.currency) \/ FundsChecked(view)
        /\ EndPayment
  /\ UNCHANGED <<ledger_currency, transactions, accepted>>

(* BankAccount::apply: the aggregate's ledger is that of its last approval. *)
AggregateLedger(a, l) ==
  LET log == bank_account_events[a] IN
  \E i \in DOMAIN log :
    /\ log[i] = AccountKycApproved(l)
    /\ \A j \in DOMAIN log : j > i => log[j].type # "AccountKycApproved"

(* Mutant of Referenced: journal_lines.ledger_id is not a foreign key. *)
Unreferenced(l) == TRUE

(* journal_lines.ledger_id references ledger_views(view_id). *)
Referenced(l) == l \in ledger_views

NextTxId(t) == t \notin Recorded /\ \A u \in TxId : u < t => u \in Recorded

(* Mutant of TransactionOn: a status of the outbox for one of transactions. *)
TransactionPending(l) ==
  [account |-> processor.command.id, type |-> payment.type, currency |-> payment.currency,
   ledger |-> l, house |-> payment.house, checked |-> payment.checked,
   held |-> {}, settled |-> {}, status |-> "pending"]

TransactionOn(l) ==
  [account |-> processor.command.id, type |-> payment.type, currency |-> payment.currency,
   ledger |-> l, house |-> payment.house, checked |-> payment.checked,
   held |-> {}, settled |-> {}, status |-> "processing"]

(* create_transaction_with_journal, all rows or none.  The aggregate of an *)
(* account that was never approved has the ledger "", which has no row.    *)
RecordTransaction ==
  /\ payment.step = "record"
  /\ \E l \in LedgerIds, t \in TxId :
       /\ AggregateLedger(processor.command.id, l)
       /\ Referenced(l) /\ Referenced(payment.house)
       /\ NextTxId(t)
       /\ transactions' = [transactions EXCEPT ![t] = TransactionOn(l)]
       /\ IF payment.type = "Withdrawal"
          THEN /\ payment' = [payment EXCEPT !.step = "hold", !.transaction = t]
               /\ UNCHANGED vars
          ELSE EndPayment
  /\ UNCHANGED <<ledger_currency, accepted>>

(* Mutant of HeldLedger: the ledger of the row in place of the aggregate's. *)
HeldLedgerOfRow(l) == l = bank_account_views[processor.command.id].ledger_id

(* debit_hold is called with the ledger of the aggregate. *)
HeldLedger(l) == AggregateLedger(processor.command.id, l)

HoldMoney ==
  /\ payment.step = "hold"
  /\ \E l \in LedgerIds :
       /\ HeldLedger(l)
       /\ transactions' = [transactions EXCEPT ![payment.transaction].held = @ \cup {l}]
  /\ EndPayment
  /\ UNCHANGED <<ledger_currency, accepted>>

(* A call of the payment fails, or the insert hits a constraint: the error *)
(* is logged and what was written stays.                                   *)
PaymentFails ==
  /\ payment.step # "none"
  /\ EndPayment
  /\ UNCHANGED <<ledger_currency, transactions, accepted>>

PaymentStep ==
  \/ FindHouseAccount \/ UnknownAccount \/ ValidatePayment
  \/ RecordTransaction \/ HoldMoney \/ PaymentFails

-----------------------------------------------------------------------------
(* The job: a run executes the payload's command, and completes.           *)

Settle(t) ==
  /\ transactions[t].status = "processing"
  /\ transactions' = [transactions EXCEPT ![t].settled = @ \cup {transactions[t].ledger}]
  /\ UNCHANGED <<vars, ledger_currency, payment, accepted>>

(* Mutant of Completable: completed whether or not execute returned Ok. *)
CompletableAnyway(t) == transactions[t].status = "processing"

Completable(t) == transactions[t].status = "processing" /\ transactions[t].settled # {}

Complete(t) ==
  /\ Completable(t)
  /\ transactions' = [transactions EXCEPT ![t].status = "completed"]
  /\ UNCHANGED <<vars, ledger_currency, payment, accepted>>

-----------------------------------------------------------------------------
(* The steps of Accounts that are no part of a payment.                    *)

(* Mutant of InitialCurrency: Money::default(), in one currency for all. *)
DefaultCurrency(view) == CHOOSE c \in Currencies : TRUE

(* ApproveAccount gives the ledger the currency of the account's row. *)
InitialCurrency(view) == CurrencyOf[view.holder]

ApprovalInitsLedger ==
  /\ InitLedger
  /\ ledger_currency' =
       [ledger_currency EXCEPT ![processor.ledger] =
          InitialCurrency(bank_account_views[processor.command.id])]
  /\ UNCHANGED <<payment, transactions, accepted>>

AccountStep ==
  /\ \/ ValidateCreation \/ CommitOpened \/ Dispatch
     \/ FindAccount \/ CreateLedgerView \/ CommitApproved
     \/ \E h \in HouseIds : HouseStep(h)
  /\ UNCHANGED bankVars

(* A crash takes the payment along, other faults leave it alone. *)
BankFault ==
  /\ Fault
  /\ payment' = IF processor'.step = "pay" THEN payment ELSE NoPayment
  /\ UNCHANGED <<ledger_currency, transactions, accepted>>

BankNext ==
  \/ \E command \in Command : BankSubmit(command)
  \/ SubmitRefused /\ UNCHANGED bankVars
  \/ TakePayment \/ TakeOther
  \/ PaymentStep
  \/ \E t \in TxId : Settle(t) \/ Complete(t)
  \/ ApprovalInitsLedger
  \/ AccountStep
  \/ BankFault

BankSpec == BankInit /\ [][BankNext]_allVars

-----------------------------------------------------------------------------
(* What the query handlers read.                                           *)

NotFound == [status |-> "not found"]

(* bank_account_query_handler *)
ReadAccount(a) ==
  IF bank_account_views[a] = NoView THEN NotFound ELSE bank_account_views[a]

(* ledger_query_handler; of the row only its currency and owner matter here. *)
ReadLedger(l) ==
  IF l \in ledger_views
  THEN [status |-> "found", owner |-> ledger_events[l], currency |-> ledger_currency[l]]
  ELSE NotFound

(* get_user_bank_accounts: the rows of a user, each left joined with the *)
(* row of its ledger.                                                    *)
UserAccounts(holder) ==
  {[account |-> a, currency |-> CurrencyOf[holder],
    balance |-> ReadLedger(bank_account_views[a].ledger_id)] :
     a \in {b \in AccountIds : bank_account_views[b].holder = holder}}

-----------------------------------------------------------------------------
(* Properties.                                                             *)

(* Journal and payload of every transaction name a ledger that an approval *)
(* gave to the paid account and a house ledger of the payment's currency,  *)
(* and both have their rows.  validate lets an account without a row pass  *)
(* in any currency: it is the foreign key that keeps such payments out, as *)
(* it does payments of a currency whose house ledger lost its row.         *)
RecordedOnOwnLedgers ==
  \A t \in Recorded :
    LET tx == transactions[t] IN
    /\ AccountKycApproved(tx.ledger) \in Range(bank_account_events[tx.account])
    /\ {tx.ledger, tx.house} \subseteq ledger_views
    /\ \E h \in HouseIds : /\ house_accounts[h].kind = HouseKindOf[tx.currency]
                           /\ house_accounts[h].ledger_id = tx.house

(* Hold and settlement of a transaction are on the ledger of its journal   *)
(* line, and on no other, also when the account is approved again in the   *)
(* meantime and when its row has another ledger than its events.           *)
OneLedgerPerTransaction ==
  \A t \in Recorded :
    transactions[t].held \cup transactions[t].settled \subseteq {transactions[t].ledger}

(* No ledger is moved in another currency than its own, where Add and Sub  *)
(* of Money panic: the currencies of payment, account and ledger agree,    *)
(* although validate looks at the row and the ledger comes of the events.  *)
CurrenciesNeverMix ==
  \A t \in Recorded :
    LET tx == transactions[t] IN
    /\ ledger_currency[tx.ledger] = tx.currency
    /\ bank_account_views[tx.account] # NoView
    /\ CurrencyOf[bank_account_views[tx.account].holder] = tx.currency

(* Funds are checked on the ledger that is debited, also after a second    *)
(* approval, unless a call failed: a lost dispatch leaves the row with an  *)
(* earlier ledger than the events.                                         *)
CheckedLedgerIsDebited ==
  faults = 0 => \A t \in Recorded : transactions[t].checked = transactions[t].ledger

(* An accepted payment can get lost, in a crash or to a failed call after  *)
(* the client was answered, but none is ever recorded twice.               *)
NoPaymentTwice ==
  \A a \in AccountIds :
    Cardinality({t \in Recorded : transactions[t].account = a}) <= accepted[a]

(* A client that reads an approved account finds the ledger it names,      *)
(* unless a call failed: rows appear in that order.                        *)
ApprovedLedgerIsFound ==
  faults = 0 =>
    \A a \in AccountIds :
      ReadAccount(a).status = "Approved" =>
        ReadLedger(bank_account_views[a].ledger_id) # NotFound

(* The balance listed with an account is that of a ledger of its own, in   *)
(* its currency, or there is none: never one of an approval that did not   *)
(* come about or of another account.                                       *)
ListedBalanceIsOwn ==
  \A holder \in Holders : \A row \in UserAccounts(holder) :
    \/ row.balance = NotFound
    \/ row.balance.owner = row.account /\ row.balance.currency = row.currency

(* Payments are steps of the processor as Accounts has it: everything that *)
(* holds of Accounts holds here.                                           *)
AccountsKept == Spec

(* The promise of Payments, kept beside accounts that change. *)
Promise == INSTANCE PaymentPromise WITH
  recorded  <- Recorded,
  held      <- {t \in Recorded : transactions[t].held # {}},
  settled   <- {t \in Recorded : transactions[t].settled # {}},
  completed <- {t \in Recorded : transactions[t].status = "completed"}

BankKeepsPromise == Promise!Spec
=============================================================================
