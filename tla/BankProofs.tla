----------------------------- MODULE BankProofs -----------------------------
(***************************************************************************)
(* Theorems about Bank, for every set of accounts, currencies, ledgers,    *)
(* house accounts and transactions, and any number of faults.              *)
(*                                                                         *)
(* Bank implements Accounts, so the invariant of AccountsProofs holds here *)
(* too.  On top of it come four groups of facts: what rows, events and     *)
(* ledgers say of each other (RowInv), what the processor has found out    *)
(* about the account or payment it works on (OpeningInv, PaymentInv), what *)
(* is then booked (BookedInv), and how far rows lag behind while nothing   *)
(* has failed (FaultlessInv).  Nothing that a booking rests on ever goes   *)
(* away: approvals, ledger rows, house accounts and the holders of rows    *)
(* only accrue, which is the action Accrues below.                         *)
(***************************************************************************)
EXTENDS Bank, AccountsProofs

-----------------------------------------------------------------------------
(* Bank implements Accounts.                                               *)

LEMMA BankStepIsAccountsStep == [BankNext]_allVars => [Next]_vars
<1> SUFFICES ASSUME [BankNext]_allVars PROVE [Next]_vars
  OBVIOUS
<1>1. ASSUME NEW command \in Command, BankSubmit(command) PROVE Next
  BY <1>1 DEF BankSubmit, Next
<1>2. CASE SubmitRefused /\ UNCHANGED bankVars
  BY <1>2 DEF Next
<1>3. CASE TakePayment \/ TakeOther
  BY <1>3 DEF TakePayment, TakeOther, Next, ProcessorStep
<1>4. CASE PaymentStep
  BY <1>4 DEF PaymentStep, FindHouseAccount, UnknownAccount, ValidatePayment, RecordTransaction,
              HoldMoney, PaymentFails, EndPayment, Next, ProcessorStep
<1>5. ASSUME NEW t \in TxId, Settle(t) \/ Complete(t) PROVE UNCHANGED vars
  BY <1>5 DEF Settle, Complete
<1>6. CASE ApprovalInitsLedger
  BY <1>6 DEF ApprovalInitsLedger, Next, ProcessorStep
<1>7. CASE AccountStep
  BY <1>7 DEF AccountStep, Next, ProcessorStep
<1>8. CASE BankFault
  BY <1>8 DEF BankFault, Next
<1>9. CASE UNCHANGED allVars
  BY <1>9 DEF allVars
<1> QED BY <1>1, <1>2, <1>3, <1>4, <1>5, <1>6, <1>7, <1>8, <1>9 DEF BankNext

(* Payments are steps of Accounts' processor, and the job takes none:  *)
(* what holds of accounts holds with payments in between.              *)
THEOREM AccountsKeptAlways == BankSpec => AccountsKept
<1>1. BankInit => Init
  BY DEF BankInit
<1> QED BY <1>1, BankStepIsAccountsStep, PTL DEF BankSpec, Spec, AccountsKept

-----------------------------------------------------------------------------
(* The inductive invariant.                                                *)

Approved(a, l) == AccountKycApproved(l) \in Range(bank_account_events[a])

(* A house account's request is over; an approved account has a row and    *)
(* its ledgers that row's currency; a row names an approved ledger or none. *)
RowInv ==
  /\ \A h \in HouseIds : house_accounts[h].kind # NoHouse => requests[h].step = "answered"
  /\ \A a \in AccountIds : \A l \in LedgerIds :
       Approved(a, l) =>
         /\ bank_account_views[a] # NoView
         /\ ledger_currency[l] = CurrencyOf[bank_account_views[a].holder]
  /\ \A a \in AccountIds :
       bank_account_views[a].ledger_id # NoLedger => Approved(a, bank_account_views[a].ledger_id)

(* What the processor knows of the account it opens or approves. *)
OpeningInv ==
  /\ processor.step \in {"open", "opened"} => bank_account_views[processor.command.id] = NoView
  /\ processor.step \in {"initiated", "approve"} =>
       ledger_currency[processor.ledger]
         = CurrencyOf[bank_account_views[processor.command.id].holder]

HouseLedger(l, c) ==
  \E h \in HouseIds : HouseAccountFor(h, c) /\ house_accounts[h].ledger_id = l

(* What the processor knows of the payment it works on. *)
PaymentInv ==
  /\ payment # NoPayment <=> processor.step = "pay"
  /\ payment.step \in {"validate", "record", "hold"} =>
       HouseLedger(payment.house, payment.currency)
  /\ payment.step = "record" =>
       /\ RowAllows(bank_account_views[processor.command.id], payment.currency)
       /\ payment.checked = bank_account_views[processor.command.id].ledger_id
  /\ payment.step = "hold" =>
       /\ payment.transaction \in Recorded
       /\ AggregateLedger(processor.command.id, transactions[payment.transaction].ledger)

(* What the properties say, of one transaction. *)
Booked(tx) ==
  /\ Approved(tx.account, tx.ledger)
  /\ {tx.ledger, tx.house} \subseteq ledger_views
  /\ HouseLedger(tx.house, tx.currency)
  /\ tx.held \cup tx.settled \subseteq {tx.ledger}
  /\ ledger_currency[tx.ledger] = tx.currency
  /\ bank_account_views[tx.account] # NoView
  /\ CurrencyOf[bank_account_views[tx.account].holder] = tx.currency
  /\ faults = 0 => tx.checked = tx.ledger

BookedInv == \A t \in Recorded : Booked(transactions[t])

(* Until a call fails, rows are one step behind the events at most, and    *)
(* approved ledgers have their rows.                                       *)
FaultlessInv ==
  faults = 0 =>
    /\ \A a \in AccountIds : \A l \in LedgerIds :
         AggregateLedger(a, l) =>
           \/ bank_account_views[a].ledger_id = l
           \/ processor.step = "approved" /\ processor.command.id = a
    /\ processor.step \in {"approve", "approved"} => processor.ledger \in ledger_views
    /\ \A a \in AccountIds :
         bank_account_views[a].status = "Approved" =>
           bank_account_views[a].ledger_id \in ledger_views

BInv ==
  /\ AInv
  /\ BankTypeOK
  /\ RowInv
  /\ OpeningInv
  /\ PaymentInv
  /\ BookedInv
  /\ FaultlessInv

(* What a booking rests on stays: a step only adds to it. *)
Accrues ==
  /\ \A a \in AccountIds : \A l \in LedgerIds :
       Approved(a, l) => Approved(a, l)' /\ ledger_currency'[l] = ledger_currency[l]
  /\ ledger_views \subseteq ledger_views'
  /\ \A h \in HouseIds :
       house_accounts[h].kind # NoHouse => house_accounts'[h] = house_accounts[h]
  /\ \A a \in AccountIds :
       bank_account_views[a] # NoView =>
         /\ bank_account_views'[a] # NoView
         /\ bank_account_views'[a].holder = bank_account_views[a].holder
  /\ faults <= faults'

-----------------------------------------------------------------------------
(* Initially.                                                              *)

LEMMA BankInitInv == BankInit => BInv
<1> SUFFICES ASSUME BankInit PROVE BInv
  OBVIOUS
<1>1. AInv /\ TypeOK
  BY AInit DEF BankInit, AInv
<1>2. Recorded = {}
  BY DEF BankInit, Recorded, NoTransaction
<1>3. BankTypeOK
  BY <1>1 DEF BankInit, BankTypeOK
<1>4. \A a \in AccountIds : Range(bank_account_events[a]) = {} /\ bank_account_events[a] = <<>>
  BY DEF BankInit, Init, Range
<1>5. RowInv
  BY <1>4 DEF BankInit, Init, RowInv, Approved, NoView
<1>6. OpeningInv /\ PaymentInv
  BY DEF BankInit, Init, OpeningInv, PaymentInv, IdleProcessor, NoPayment
<1>7. BookedInv
  BY <1>2 DEF BookedInv
<1>8. FaultlessInv
  BY <1>4 DEF BankInit, Init, FaultlessInv, AggregateLedger, NoView, IdleProcessor
<1> QED BY <1>1, <1>3, <1>5, <1>6, <1>7, <1>8 DEF BInv

-----------------------------------------------------------------------------
(* Types.                                                                  *)

LEMMA PaymentTypes ==
  ASSUME BInv, payment.step # "none"
  PROVE  /\ processor.step = "pay" /\ processor.command.id \in AccountIds
         /\ payment \in [step: {"house", "validate", "record", "hold"}, type: Kind,
                          currency: Currencies, house: LedgerIds \cup {NoLedger},
                          checked: LedgerIds \cup {NoLedger},
                          transaction: TxId \cup {NoTxId}]
<1>1. payment # NoPayment
  BY DEF NoPayment
<1>2. processor.step = "pay"
  BY <1>1 DEF BInv, PaymentInv
<1> QED BY <1>1, <1>2 DEF BInv, BankTypeOK, AInv, ProcessorInv

(* The payment's part of the type invariant. *)
PaymentTypeOK ==
  payment \in [step: {"house", "validate", "record", "hold"}, type: Kind,
               currency: Currencies, house: LedgerIds \cup {NoLedger},
               checked: LedgerIds \cup {NoLedger},
               transaction: TxId \cup {NoTxId}] \cup {NoPayment}

LEMMA RecordedTypes ==
  ASSUME BInv, NEW t \in Recorded
  PROVE  transactions[t] \in Transaction /\ t \in TxId /\ Booked(transactions[t])
BY DEF BInv, BankTypeOK, BookedInv, Recorded, NoTransaction

LEMMA BankTypeStep ==
  ASSUME BInv, AInv', [BankNext]_allVars
  PROVE  BankTypeOK'
<1>1. TypeOK'
  BY DEF AInv
<1>2. ledger_currency' \in [LedgerIds -> Currencies \cup {NoCurrency}]
  <2>1. CASE ApprovalInitsLedger
    <3>1. /\ processor.step = "init"
          /\ ledger_currency' = [ledger_currency EXCEPT ![processor.ledger] =
                                   InitialCurrency(bank_account_views[processor.command.id])]
      BY <2>1 DEF ApprovalInitsLedger, InitLedger
    <3>2. /\ processor.command.id \in AccountIds
          /\ bank_account_views[processor.command.id] # NoView
      BY <3>1 DEF BInv, AInv, ProcessorInv, Approving
    <3>3. bank_account_views[processor.command.id].holder \in Holders
      BY <3>2 DEF BInv, AInv, TypeOK, View
    <3>4. InitialCurrency(bank_account_views[processor.command.id]) \in Currencies
      BY <3>3, BankAssumption DEF InitialCurrency
    <3> QED BY <3>1, <3>4 DEF BInv, BankTypeOK
  <2>2. CASE UNCHANGED ledger_currency
    BY <2>2 DEF BInv, BankTypeOK
  <2> QED BY <2>1, <2>2 DEF BankNext, allVars, bankVars, BankSubmit, TakePayment, TakeOther,
         PaymentStep, FindHouseAccount, UnknownAccount, ValidatePayment, RecordTransaction,
         HoldMoney, PaymentFails, Settle, Complete, AccountStep, BankFault
<1>3. PaymentTypeOK'
  <2>1. CASE payment' \in {payment, NoPayment}
    BY <2>1 DEF BInv, BankTypeOK, PaymentTypeOK
  <2>2. CASE TakePayment
    <3>1. PICK type \in Kind, c \in Currencies :
            payment' = [NoPayment EXCEPT !.step = "house", !.type = type, !.currency = c]
      BY <2>2 DEF TakePayment
    <3> QED BY <3>1 DEF PaymentTypeOK, NoPayment
  <2>3. CASE FindHouseAccount
    <3>1. ASSUME NEW h \in HouseIds,
                 payment' = [payment EXCEPT !.step = "validate",
                                            !.house = house_accounts[h].ledger_id]
          PROVE  PaymentTypeOK'
      <4>1. house_accounts[h].ledger_id \in LedgerIds \cup {NoLedger}
        BY DEF BInv, AInv, TypeOK
      <4>2. payment.step # "none"
        BY <2>3 DEF FindHouseAccount
      <4> QED BY <3>1, <4>1, <4>2, PaymentTypes DEF PaymentTypeOK
    <3> QED BY <2>1, <2>3, <3>1 DEF FindHouseAccount, EndPayment
  <2>4. CASE ValidatePayment
    <3>1. CASE payment' = [payment EXCEPT !.step = "record",
                             !.checked = bank_account_views[processor.command.id].ledger_id]
      <4>1. payment.step # "none"
        BY <2>4 DEF ValidatePayment
      <4>2. bank_account_views[processor.command.id].ledger_id \in LedgerIds \cup {NoLedger}
        BY <4>1, PaymentTypes DEF BInv, AInv, TypeOK, View, NoView
      <4> QED BY <3>1, <4>1, <4>2, PaymentTypes DEF PaymentTypeOK
    <3> QED BY <2>1, <2>4, <3>1 DEF ValidatePayment, EndPayment
  <2>5. CASE RecordTransaction
    <3>1. PICK t \in TxId :
            payment' \in {NoPayment, [payment EXCEPT !.step = "hold", !.transaction = t]}
      BY <2>5 DEF RecordTransaction, EndPayment
    <3>2. payment.step # "none"
      BY <2>5 DEF RecordTransaction
    <3> QED BY <3>1, <3>2, PaymentTypes DEF PaymentTypeOK
  <2> QED BY <2>1, <2>2, <2>3, <2>4, <2>5 DEF BankNext, allVars, bankVars, BankSubmit,
         TakeOther, PaymentStep, UnknownAccount, HoldMoney, PaymentFails, EndPayment,
         Settle, Complete, ApprovalInitsLedger, AccountStep, BankFault
<1>4. transactions' \in [TxId -> Transaction \cup {NoTransaction}]
  <2>1. CASE UNCHANGED transactions
    BY <2>1 DEF BInv, BankTypeOK
  <2>2. CASE RecordTransaction
    <3>1. PICK l \in LedgerIds, t \in TxId :
            /\ Referenced(payment.house)
            /\ transactions' = [transactions EXCEPT ![t] = TransactionOn(l)]
      BY <2>2 DEF RecordTransaction
    <3>2. payment.step # "none"
      BY <2>2 DEF RecordTransaction
    <3>3. payment.house \in LedgerIds
      BY <3>1 DEF Referenced, BInv, AInv, TypeOK
    <3>4. TransactionOn(l) \in Transaction
      BY <3>2, <3>3, PaymentTypes DEF TransactionOn, Transaction
    <3> QED BY <3>1, <3>4 DEF BInv, BankTypeOK
  <2>3. CASE HoldMoney
    <3>1. PICK l \in LedgerIds :
            transactions' = [transactions EXCEPT ![payment.transaction].held = @ \cup {l}]
      BY <2>3 DEF HoldMoney
    <3>2. payment.transaction \in Recorded
      BY <2>3 DEF HoldMoney, BInv, PaymentInv
    <3>3. [transactions[payment.transaction] EXCEPT !.held = @ \cup {l}] \in Transaction
      BY <3>2, RecordedTypes DEF Transaction
    <3> QED BY <3>1, <3>3 DEF BInv, BankTypeOK
  <2>4. ASSUME NEW t \in TxId, Settle(t) \/ Complete(t)
        PROVE  transactions' \in [TxId -> Transaction \cup {NoTransaction}]
    <3>1. t \in Recorded
      BY <2>4 DEF Settle, Complete, Completable, Recorded
    <3>2. transactions[t] \in Transaction
      BY <3>1, RecordedTypes
    <3>3. /\ [transactions[t] EXCEPT !.settled = @ \cup {transactions[t].ledger}] \in Transaction
          /\ [transactions[t] EXCEPT !.status = "completed"] \in Transaction
      BY <3>2 DEF Transaction
    <3> QED BY <2>4, <3>3 DEF Settle, Complete, BInv, BankTypeOK
  <2> QED BY <2>1, <2>2, <2>3, <2>4 DEF BankNext, allVars, bankVars, BankSubmit, TakePayment,
         TakeOther, PaymentStep, FindHouseAccount, UnknownAccount, ValidatePayment,
         PaymentFails, ApprovalInitsLedger, AccountStep, BankFault
<1>5. accepted' \in [AccountIds -> Nat]
  <2>1. CASE UNCHANGED accepted
    BY <2>1 DEF BInv, BankTypeOK
  <2>2. ASSUME NEW command \in Command, BankSubmit(command)
        PROVE  accepted' \in [AccountIds -> Nat]
    <3>1. accepted' \in {accepted, [accepted EXCEPT ![command.id] = @ + 1]}
      BY <2>2 DEF BankSubmit
    <3> QED BY <3>1 DEF BInv, BankTypeOK
  <2> QED BY <2>1, <2>2 DEF BankNext, allVars, bankVars, TakePayment, TakeOther, PaymentStep,
         FindHouseAccount, UnknownAccount, ValidatePayment, RecordTransaction, HoldMoney,
         PaymentFails, Settle, Complete, ApprovalInitsLedger, AccountStep, BankFault
<1> QED BY <1>1, <1>2, <1>3, <1>4, <1>5 DEF BankTypeOK, PaymentTypeOK

-----------------------------------------------------------------------------
(* Rows, events and ledgers.                                               *)

LEMMA FaultsGrow ==
  ASSUME BInv, [BankNext]_allVars
  PROVE  /\ faults \in Nat /\ faults' >= faults
         /\ BankFault => faults' # 0
<1>1. faults \in Nat
  BY AccountsAssumption DEF BInv, AInv, TypeOK
<1>2. [Next]_vars
  BY BankStepIsAccountsStep
<1>3. faults' = faults \/ faults' = faults + 1
  BY <1>2 DEF Next, vars, ProcessorStep, Submit, SubmitRefused, ReceiveCommand, PaymentEnds,
     PaymentPanics, ValidateCreation, CommitOpened, Dispatch, FindAccount, InitLedger,
     CreateLedgerView, CommitApproved, HouseStep, InitHouseLedger, CreateHouseLedgerView,
     CreateHouseAccount, Fault
<1> QED BY <1>1, <1>3 DEF BankFault, Fault

(* A step that leaves events, rows and house accounts alone. *)
LEMMA RowsAndEventsStay ==
  ASSUME BInv, UNCHANGED <<accountVars, ledger_currency, house_accounts>>,
         ledger_views \subseteq ledger_views', faults <= faults',
         \A h \in HouseIds : requests[h].step = "answered" => requests'[h].step = "answered"
  PROVE  RowInv' /\ Accrues
<1> USE DEF accountVars
<1>1. \A a, l : Approved(a, l)' <=> Approved(a, l)
  BY DEF Approved
<1> QED BY <1>1 DEF BInv, RowInv, Accrues

(* Committing keeps what the log already has. *)
LEMMA LogKeeps ==
  ASSUME AInv, processor.command.id \in AccountIds, NEW event \in AccountEvent,
         CommitEvent(event)
  PROVE  /\ \A a \in AccountIds :
              Range(bank_account_events'[a]) =
                Range(bank_account_events[a])
                  \cup (IF a = processor.command.id THEN {event} ELSE {})
         /\ \A a \in AccountIds :
              a # processor.command.id => bank_account_events'[a] = bank_account_events[a]
<1> DEFINE id == processor.command.id
           log == bank_account_events[id]
           new == Append(log, event)
<1>1. log \in Seq(AccountEvent)
  BY DEF AInv, TypeOK
<1>2. /\ DOMAIN new = 1..(Len(log) + 1) /\ DOMAIN log = 1..Len(log) /\ Len(log) \in Nat
      /\ new[Len(log) + 1] = event
      /\ \A i \in 1..Len(log) : new[i] = log[i]
  BY <1>1, AppendProperties
<1>3. Range(log) \cup {event} \subseteq Range(new)
  <2>1. event \in Range(new)
    BY <1>2 DEF Range
  <2>2. ASSUME NEW i \in DOMAIN log PROVE log[i] \in Range(new)
    <3>1. i \in DOMAIN new /\ new[i] = log[i]
      BY <1>2
    <3> QED BY <3>1 DEF Range
  <2> QED BY <2>1, <2>2 DEF Range
<1>4. /\ bank_account_events'[id] = new
      /\ \A a \in AccountIds : a # id => bank_account_events'[a] = bank_account_events[a]
  BY DEF CommitEvent, AInv, TypeOK
<1> HIDE DEF new, log
<1> QED BY <1>3, <1>4, LogGrows DEF log

LEMMA CommitOpenedRows ==
  ASSUME BInv, CommitOpened, UNCHANGED bankVars
  PROVE  RowInv' /\ Accrues
<1> USE DEF CommitOpened, bankVars, ledgerVars, houseVars
<1> DEFINE event == AccountOpened(processor.command.holder)
<1>1. processor.command.id \in AccountIds /\ event \in AccountEvent
  BY DEF BInv, AInv, ProcessorInv, OpenCommand, AccountEvent
<1>2. \A a \in AccountIds : \A l : Approved(a, l)' <=> Approved(a, l)
  BY <1>1, LogKeeps DEF BInv, Approved, AccountOpened, AccountKycApproved
<1>3. faults \in Nat
  BY AccountsAssumption DEF BInv, AInv, TypeOK
<1> QED BY <1>2, <1>3 DEF BInv, RowInv, Accrues

LEMMA CommitApprovedRows ==
  ASSUME BInv, CommitApproved, UNCHANGED bankVars
  PROVE  RowInv' /\ Accrues
<1> USE DEF CommitApproved, bankVars, ledgerVars, houseVars
<1> DEFINE event == AccountKycApproved(processor.ledger)
<1>1. /\ processor.command.id \in AccountIds /\ event \in AccountEvent
      /\ bank_account_views[processor.command.id] # NoView
  BY DEF BInv, AInv, ProcessorInv, Approving, AccountEvent
<1>2. \A a \in AccountIds : \A l :
        Approved(a, l)' <=>
          Approved(a, l) \/ (a = processor.command.id /\ l = processor.ledger)
  BY <1>1, LogKeeps DEF BInv, Approved, AccountKycApproved
<1>3. ledger_currency[processor.ledger]
        = CurrencyOf[bank_account_views[processor.command.id].holder]
  BY DEF BInv, OpeningInv
<1>4. faults \in Nat
  BY AccountsAssumption DEF BInv, AInv, TypeOK
<1> QED BY <1>1, <1>2, <1>3, <1>4 DEF BInv, RowInv, Accrues

(* The row that is dispatched is a new one, or one of the same holder that *)
(* names the ledger of the approval.                                       *)
LEMMA DispatchedRow ==
  ASSUME BInv, Dispatch
  PROVE  /\ processor.command.id \in AccountIds
         /\ \A a \in AccountIds : a # processor.command.id =>
              bank_account_views'[a] = bank_account_views[a]
         /\ \/ /\ processor.step = "opened"
               /\ bank_account_views[processor.command.id] = NoView
               /\ bank_account_views'[processor.command.id] # NoView
               /\ bank_account_views'[processor.command.id].status = "Pending"
               /\ bank_account_views'[processor.command.id].ledger_id = NoLedger
            \/ /\ processor.step = "approved"
               /\ Last(bank_account_events[processor.command.id])
                    = AccountKycApproved(processor.ledger)
               /\ bank_account_events[processor.command.id] # <<>>
               /\ bank_account_views'[processor.command.id] # NoView
               /\ bank_account_views'[processor.command.id].holder
                    = bank_account_views[processor.command.id].holder
               /\ bank_account_views'[processor.command.id].ledger_id = processor.ledger
               /\ processor.ledger \in LedgerIds
<1> DEFINE id == processor.command.id
           event == Last(bank_account_events[id])
           row == Update(bank_account_views[id], event)
<1>1. /\ processor.step \in {"opened", "approved"}
      /\ bank_account_views' = [bank_account_views EXCEPT ![id] = row]
  BY DEF Dispatch, DispatchEvent
<1>2. id \in AccountIds
  BY <1>1 DEF BInv, AInv, ProcessorInv, OpenCommand, Approving
<1>3. /\ bank_account_views[id] \in View \cup {NoView}
      /\ bank_account_views'[id] = row
      /\ \A a \in AccountIds : a # id => bank_account_views'[a] = bank_account_views[a]
  BY <1>1, <1>2 DEF BInv, AInv, TypeOK
<1>4. CASE processor.step = "opened"
  <2>1. event = AccountOpened(processor.command.holder) /\ bank_account_views[id] = NoView
    BY <1>4 DEF BInv, AInv, ProcessorInv, OpeningInv
  <2>2. row = [status |-> "Pending", holder |-> processor.command.holder,
               ledger_id |-> NoLedger]
    BY <2>1 DEF Update, AccountOpened, NoView
  <2> QED BY <1>2, <1>3, <1>4, <2>1, <2>2 DEF NoView
<1>5. CASE processor.step = "approved"
  <2>1. /\ event = AccountKycApproved(processor.ledger) /\ processor.ledger \in LedgerIds
        /\ bank_account_views[id] # NoView /\ bank_account_events[id] # <<>>
    BY <1>5 DEF BInv, AInv, ProcessorInv, Approving
  <2>2. row = [bank_account_views[id] EXCEPT !.status = "Approved",
                                             !.ledger_id = processor.ledger]
    BY <2>1 DEF Update, AccountKycApproved
  <2>3. /\ row.status = "Approved" /\ row.ledger_id = processor.ledger
        /\ row.holder = bank_account_views[id].holder
    BY <1>3, <2>1, <2>2 DEF View
  <2>4. row # NoView
    BY <2>3 DEF NoView
  <2> QED BY <1>2, <1>3, <1>5, <2>1, <2>3, <2>4
<1> QED BY <1>1, <1>4, <1>5

LEMMA DispatchRows ==
  ASSUME BInv, Dispatch, UNCHANGED bankVars
  PROVE  RowInv' /\ Accrues
<1> USE DEF bankVars, ledgerVars, houseVars
<1>1. UNCHANGED <<bank_account_events, ledger_views, house_accounts, requests, faults,
                  ledger_currency>>
  BY DEF Dispatch
<1>2. \A a, l : Approved(a, l)' <=> Approved(a, l)
  BY <1>1 DEF Approved
<1>3. faults \in Nat
  BY AccountsAssumption DEF BInv, AInv, TypeOK
<1>4. processor.step = "approved" => Approved(processor.command.id, processor.ledger)
  <2> SUFFICES ASSUME processor.step = "approved"
               PROVE  Approved(processor.command.id, processor.ledger)
    OBVIOUS
  <2> DEFINE log == bank_account_events[processor.command.id]
  <2>1. /\ log # <<>> /\ Last(log) = AccountKycApproved(processor.ledger)
        /\ processor.command.id \in AccountIds
    BY DEF BInv, AInv, ProcessorInv, Approving
  <2>2. log \in Seq(AccountEvent)
    BY <2>1 DEF BInv, AInv, TypeOK
  <2>3. Len(log) \in DOMAIN log /\ log[Len(log)] = AccountKycApproved(processor.ledger)
    BY <2>1, <2>2, EmptySeq, LenProperties DEF Last
  <2> QED BY <2>3 DEF Approved, Range
<1>5. \A a \in AccountIds :
        bank_account_views[a] # NoView =>
          /\ bank_account_views'[a] # NoView
          /\ bank_account_views'[a].holder = bank_account_views[a].holder
  BY DispatchedRow
<1>6. \A a \in AccountIds : bank_account_views'[a].ledger_id # NoLedger =>
        Approved(a, bank_account_views'[a].ledger_id)
  BY <1>4, DispatchedRow DEF BInv, RowInv
<1> QED BY <1>1, <1>2, <1>3, <1>5, <1>6 DEF BInv, RowInv, Accrues

LEMMA ApprovalInitsLedgerRows ==
  ASSUME BInv, ApprovalInitsLedger
  PROVE  RowInv' /\ Accrues
<1> USE DEF ApprovalInitsLedger, InitLedger, accountVars, houseVars
<1>1. /\ processor.ledger \in LedgerIds /\ ledger_events[processor.ledger] = NoAccount
      /\ ledger_currency \in [LedgerIds -> Currencies \cup {NoCurrency}]
  BY DEF BInv, BankTypeOK, AInv, ProcessorInv, Approving
<1>2. \A a \in AccountIds : ~Approved(a, processor.ledger)
  BY <1>1, AccountsAssumption DEF BInv, AInv, ApprovedLedgerExists, Approved
<1>3. \A l \in LedgerIds : l # processor.ledger => ledger_currency'[l] = ledger_currency[l]
  BY <1>1
<1>4. \A a, l : Approved(a, l)' <=> Approved(a, l)
  BY DEF Approved
<1>5. faults \in Nat
  BY AccountsAssumption DEF BInv, AInv, TypeOK
<1> QED BY <1>2, <1>3, <1>4, <1>5 DEF BInv, RowInv, Accrues

LEMMA CreateHouseAccountRows ==
  ASSUME BInv, NEW h \in HouseIds, CreateHouseAccount(h), UNCHANGED bankVars
  PROVE  RowInv' /\ Accrues
<1> USE DEF CreateHouseAccount, bankVars, accountVars, ledgerVars
<1>1. house_accounts[h].kind = NoHouse
  BY DEF BInv, RowInv
<1>2. requests'[h].step = "answered"
      /\ \A g \in HouseIds : g # h => /\ requests'[g] = requests[g]
                                      /\ house_accounts'[g] = house_accounts[g]
  BY DEF BInv, AInv, TypeOK
<1>3. \A a, l : Approved(a, l)' <=> Approved(a, l)
  BY DEF Approved
<1>4. faults \in Nat
  BY AccountsAssumption DEF BInv, AInv, TypeOK
<1> QED BY <1>1, <1>2, <1>3, <1>4 DEF BInv, RowInv, Accrues

LEMMA RowStep ==
  ASSUME BInv, [BankNext]_allVars
  PROVE  RowInv' /\ Accrues
<1> USE DEF accountVars, ledgerVars, houseVars, bankVars
<1>1. faults <= faults'
  BY FaultsGrow
<1>2. CASE UNCHANGED <<bank_account_events, bank_account_views, ledger_currency, house_accounts,
                       ledger_views, requests>>
  BY <1>1, <1>2, RowsAndEventsStay
<1>3. CASE AccountStep
  <2>1. CASE CreateLedgerView
    BY <1>1, <1>3, <2>1, RowsAndEventsStay DEF CreateLedgerView, AccountStep
  <2>2. ASSUME NEW h \in HouseIds, InitHouseLedger(h) \/ CreateHouseLedgerView(h)
        PROVE  RowInv' /\ Accrues
    <3>1. \A g \in HouseIds : requests[g].step = "answered" => requests'[g].step = "answered"
      BY <2>2 DEF InitHouseLedger, CreateHouseLedgerView, BInv, AInv, TypeOK
    <3> QED BY <1>1, <1>3, <2>2, <3>1, RowsAndEventsStay
          DEF InitHouseLedger, CreateHouseLedgerView, AccountStep
  <2> QED BY <1>2, <1>3, <2>1, <2>2, CommitOpenedRows, CommitApprovedRows, DispatchRows,
         CreateHouseAccountRows DEF AccountStep, ValidateCreation, FindAccount, HouseStep
<1>4. CASE BankFault
  <2>1. \A g \in HouseIds : requests[g].step = "answered" => requests'[g].step = "answered"
    BY <1>4 DEF BankFault, Fault, CommandFails, DispatchFails, Crash, HouseRequestFails,
       BInv, AInv, TypeOK
  <2> QED BY <1>1, <1>4, <2>1, RowsAndEventsStay DEF BankFault, Fault, CommandFails,
         DispatchFails, Crash, HouseRequestFails
<1> QED BY <1>2, <1>3, <1>4, ApprovalInitsLedgerRows DEF BankNext, allVars, vars, BankSubmit,
       Submit, SubmitRefused, TakePayment, TakeOther, ReceiveCommand, PaymentStep,
       FindHouseAccount, UnknownAccount, PaymentPanics, ValidatePayment, RecordTransaction,
       HoldMoney, PaymentFails, EndPayment, PaymentEnds, Settle, Complete

-----------------------------------------------------------------------------
(* Openings and approvals.                                                 *)

(* Where a processor at find goes. *)
LEMMA FindGoesOn ==
  ASSUME BInv, FindAccount
  PROVE  processor.step = "find" /\ processor'.step \in {"init", "idle"}
<1>1. processor.step = "find"
  BY DEF FindAccount
<1>2. CASE processor' = IdleProcessor
  BY <1>1, <1>2 DEF IdleProcessor
<1>3. ASSUME NEW l \in LedgerIds, processor' = [processor EXCEPT !.step = "init", !.ledger = l]
      PROVE  processor'.step = "init"
  BY <1>3 DEF BInv, AInv, TypeOK
<1> QED BY <1>1, <1>2, <1>3 DEF FindAccount

LEMMA OpeningStep ==
  ASSUME BInv, [BankNext]_allVars
  PROVE  OpeningInv'
<1> USE DEF accountVars, ledgerVars, houseVars, bankVars
<1>1. CASE UNCHANGED <<processor, bank_account_views, ledger_currency>>
  BY <1>1 DEF BInv, OpeningInv
<1>2. CASE processor'.step \notin {"open", "opened", "initiated", "approve"}
  BY <1>2 DEF OpeningInv
<1>3. processor \in [step: {"idle", "validate", "open", "opened", "find", "init",
                           "initiated", "approve", "approved", "pay", "dead"},
                    command: Command \cup {NoCommand},
                    ledger: LedgerIds \cup {NoLedger}]
  BY DEF BInv, AInv, TypeOK
<1>4. CASE ReceiveCommand
  <2>1. Head(command_queue) \in Command
    BY <1>4, HeadTailProperties DEF ReceiveCommand, BInv, AInv, TypeOK
  <2>2. processor'.step = FirstStep(Head(command_queue))
    BY <1>4 DEF ReceiveCommand, IdleProcessor
  <2> QED BY <1>2, <2>1, <2>2 DEF Command, FirstStep
<1>5. CASE ApprovalInitsLedger
  <2>1. /\ processor.step = "init" /\ processor.ledger \in LedgerIds
        /\ ledger_currency \in [LedgerIds -> Currencies \cup {NoCurrency}]
    BY <1>5 DEF ApprovalInitsLedger, InitLedger, BInv, BankTypeOK, AInv, ProcessorInv, Approving
  <2>2. /\ processor' = [processor EXCEPT !.step = "initiated"]
        /\ UNCHANGED bank_account_views
        /\ ledger_currency' = [ledger_currency EXCEPT ![processor.ledger] =
                                 CurrencyOf[bank_account_views[processor.command.id].holder]]
    BY <1>5 DEF ApprovalInitsLedger, InitLedger, GoTo, InitialCurrency
  <2>3. /\ processor'.step = "initiated" /\ processor'.ledger = processor.ledger
        /\ processor'.command = processor.command
    BY <1>3, <2>2
  <2> QED BY <2>1, <2>2, <2>3 DEF OpeningInv
<1>6. CASE AccountStep
  <2>1. CASE ValidateCreation
    <3>1. CASE processor' = IdleProcessor
      BY <1>2, <3>1 DEF IdleProcessor
    <3>2. CASE /\ bank_account_views[processor.command.id] = NoView
               /\ processor' = [processor EXCEPT !.step = "open"]
      BY <1>3, <2>1, <3>2 DEF ValidateCreation, OpeningInv
    <3> QED BY <2>1, <3>1, <3>2 DEF ValidateCreation
  <2>2. CASE CommitOpened
    BY <1>3, <2>2 DEF CommitOpened, GoTo, BInv, OpeningInv
  <2>3. CASE CreateLedgerView
    BY <1>3, <1>6, <2>3 DEF AccountStep, CreateLedgerView, GoTo, BInv, OpeningInv
  <2>4. CASE Dispatch \/ FindAccount \/ CommitApproved
    BY <1>2, <1>3, <2>4, FindGoesOn DEF Dispatch, CommitApproved, GoTo, IdleProcessor
  <2>5. ASSUME NEW h \in HouseIds, HouseStep(h) PROVE OpeningInv'
    BY <1>1, <1>6, <2>5 DEF AccountStep, HouseStep, InitHouseLedger, CreateHouseLedgerView,
       CreateHouseAccount
  <2> QED BY <1>6, <2>1, <2>2, <2>3, <2>4, <2>5 DEF AccountStep
<1>7. CASE BankFault
  <2>1. CASE CommandFails \/ Crash
    BY <1>2, <2>1 DEF CommandFails, Crash, AfterFailedInit, IdleProcessor
  <2>2. CASE DispatchFails
    <3>1. CASE processor' = IdleProcessor
      BY <1>2, <3>1 DEF IdleProcessor
    <3>2. CASE processor.step = "initiated" /\ GoTo("approve")
      BY <1>3, <1>7, <2>2, <3>2 DEF BankFault, DispatchFails, GoTo, BInv, OpeningInv
    <3> QED BY <2>2, <3>1, <3>2 DEF DispatchFails
  <2> QED BY <1>1, <1>7, <2>1, <2>2 DEF BankFault, Fault, HouseRequestFails
<1>8. CASE PaymentEnds \/ PaymentPanics
  BY <1>2, <1>8 DEF PaymentEnds, PaymentPanics, IdleProcessor
<1> QED BY <1>1, <1>4, <1>5, <1>6, <1>7, <1>8 DEF BankNext, allVars, vars, BankSubmit, Submit,
       SubmitRefused, TakePayment, TakeOther, PaymentStep, FindHouseAccount, UnknownAccount,
       ValidatePayment, RecordTransaction, HoldMoney, PaymentFails, EndPayment, Settle, Complete

-----------------------------------------------------------------------------
(* The payment at work.                                                    *)

LEMMA HouseLedgersStay ==
  ASSUME BInv, Accrues, NEW l, NEW c \in Currencies, HouseLedger(l, c)
  PROVE  HouseLedger(l, c)'
<1>1. PICK h \in HouseIds : house_accounts[h].kind = HouseKindOf[c] /\ house_accounts[h].ledger_id = l
  BY DEF HouseLedger, HouseAccountFor
<1>2. house_accounts[h].kind # NoHouse
  BY <1>1, AccountsAssumption, BankAssumption
<1>3. house_accounts'[h] = house_accounts[h]
  BY <1>2 DEF Accrues
<1> QED BY <1>1, <1>3 DEF HouseLedger, HouseAccountFor

(* No recorded transaction goes away or changes its ledger. *)
LedgersKept ==
  \A t \in Recorded : t \in Recorded' /\ transactions'[t].ledger = transactions[t].ledger

LEMMA LedgersAreKept ==
  ASSUME BInv, [BankNext]_allVars
  PROVE  LedgersKept
<1>1. CASE UNCHANGED transactions
  BY <1>1 DEF LedgersKept, Recorded
<1>2. ASSUME NEW u \in Recorded, NEW tx \in Transaction,
             transactions' = [transactions EXCEPT ![u] = tx], tx.ledger = transactions[u].ledger
      PROVE  LedgersKept
  <2>1. \A t \in TxId : transactions'[t] = IF t = u THEN tx ELSE transactions[t]
    BY <1>2 DEF BInv, BankTypeOK, Recorded
  <2>2. tx.status # "none"
    BY DEF Transaction
  <2> QED BY <1>2, <2>1, <2>2 DEF LedgersKept, Recorded
<1>3. CASE RecordTransaction
  <2>1. PICK l \in LedgerIds, u \in TxId :
          NextTxId(u) /\ transactions' = [transactions EXCEPT ![u] = TransactionOn(l)]
    BY <1>3 DEF RecordTransaction
  <2>2. \A t \in TxId : t # u => transactions'[t] = transactions[t]
    BY <2>1 DEF BInv, BankTypeOK
  <2> QED BY <2>1, <2>2 DEF NextTxId, LedgersKept, Recorded
<1>4. CASE HoldMoney
  <2>1. PICK l \in LedgerIds :
          transactions' = [transactions EXCEPT ![payment.transaction].held = @ \cup {l}]
    BY <1>4 DEF HoldMoney
  <2>2. payment.transaction \in Recorded
    BY <1>4 DEF HoldMoney, BInv, PaymentInv
  <2> DEFINE tx == [transactions[payment.transaction] EXCEPT !.held = @ \cup {l}]
  <2>3. tx \in Transaction /\ tx.ledger = transactions[payment.transaction].ledger
    BY <2>2, RecordedTypes DEF Transaction
  <2> QED BY <1>2, <2>1, <2>2, <2>3
<1>5. ASSUME NEW t \in TxId, Settle(t) PROVE LedgersKept
  <2> DEFINE tx == [transactions[t] EXCEPT !.settled = @ \cup {transactions[t].ledger}]
  <2>1. t \in Recorded
    BY <1>5 DEF Settle, Recorded
  <2>2. tx \in Transaction /\ tx.ledger = transactions[t].ledger
    BY <2>1, RecordedTypes DEF Transaction
  <2> QED BY <1>2, <1>5, <2>1, <2>2 DEF Settle
<1>6. ASSUME NEW t \in TxId, Complete(t) PROVE LedgersKept
  <2> DEFINE tx == [transactions[t] EXCEPT !.status = "completed"]
  <2>1. t \in Recorded
    BY <1>6 DEF Complete, Completable, Recorded
  <2>2. tx \in Transaction /\ tx.ledger = transactions[t].ledger
    BY <2>1, RecordedTypes DEF Transaction
  <2> QED BY <1>2, <1>6, <2>1, <2>2 DEF Complete
<1> QED BY <1>1, <1>3, <1>4, <1>5, <1>6 DEF BankNext, allVars, bankVars, BankSubmit, TakePayment,
       TakeOther, PaymentStep, FindHouseAccount, UnknownAccount, ValidatePayment,
       PaymentFails, ApprovalInitsLedger, AccountStep, BankFault

LEMMA PaymentStays ==
  ASSUME BInv, Accrues, LedgersKept, UNCHANGED <<payment, processor, accountVars>>
  PROVE  PaymentInv'
<1> USE DEF accountVars
<1>1. payment.step \in {"validate", "record", "hold"} =>
        HouseLedger(payment.house, payment.currency)'
  <2> SUFFICES ASSUME payment.step \in {"validate", "record", "hold"}
               PROVE  HouseLedger(payment.house, payment.currency)'
    OBVIOUS
  <2>1. payment.currency \in Currencies
    BY PaymentTypes
  <2>2. HouseLedger(payment.house, payment.currency)
    BY DEF BInv, PaymentInv
  <2>3. HouseLedger(payment.house, payment.currency)' <=>
          \E h \in HouseIds : /\ house_accounts'[h].kind = HouseKindOf[payment.currency]
                             /\ house_accounts'[h].ledger_id = payment.house
    BY DEF HouseLedger, HouseAccountFor
  <2>4. PICK h \in HouseIds : /\ house_accounts[h].kind = HouseKindOf[payment.currency]
                              /\ house_accounts[h].ledger_id = payment.house
    BY <2>2 DEF HouseLedger, HouseAccountFor
  <2>5. house_accounts'[h] = house_accounts[h]
    BY <2>1, <2>4, AccountsAssumption, BankAssumption DEF Accrues
  <2> QED BY <2>3, <2>4, <2>5
<1>2. payment.step = "hold" =>
        /\ payment.transaction \in Recorded'
        /\ AggregateLedger(processor.command.id, transactions[payment.transaction].ledger)'
  BY DEF BInv, PaymentInv, LedgersKept, AggregateLedger
<1> QED BY <1>1, <1>2 DEF BInv, PaymentInv, RowAllows

LEMMA NoPaymentAfter ==
  ASSUME payment' = NoPayment, processor'.step # "pay"
  PROVE  PaymentInv'
BY DEF PaymentInv, NoPayment

LEMMA PaymentStepInv ==
  ASSUME BInv, PaymentStep, Accrues, LedgersKept
  PROVE  PaymentInv'
<1> USE DEF accountVars
<1>1. CASE EndPayment
  BY <1>1, NoPaymentAfter DEF EndPayment, PaymentEnds, IdleProcessor
<1>2. CASE UnknownAccount
  BY <1>2, NoPaymentAfter DEF UnknownAccount, PaymentPanics, IdleProcessor
<1>3. payment.step # "none" /\ processor.step = "pay"
  BY PaymentTypes DEF PaymentStep, FindHouseAccount, UnknownAccount, ValidatePayment,
     RecordTransaction, HoldMoney, PaymentFails
<1>4. payment \in [step: {"house", "validate", "record", "hold"}, type: Kind,
                   currency: Currencies, house: LedgerIds \cup {NoLedger},
                   checked: LedgerIds \cup {NoLedger}, transaction: TxId \cup {NoTxId}]
  BY <1>3, PaymentTypes
<1>5. ASSUME NEW h \in HouseIds, HouseAccountFor(h, payment.currency), UNCHANGED vars,
             payment' = [payment EXCEPT !.step = "validate",
                                        !.house = house_accounts[h].ledger_id]
      PROVE  PaymentInv'
  <2>1. /\ payment'.step = "validate" /\ payment'.currency = payment.currency
        /\ payment'.house = house_accounts[h].ledger_id /\ payment' # NoPayment
    BY <1>4, <1>5 DEF NoPayment
  <2>2. HouseLedger(payment.house, payment.currency)'
    BY <1>5, <2>1 DEF HouseLedger, HouseAccountFor, vars
  <2> QED BY <1>3, <1>5, <2>1, <2>2 DEF PaymentInv, vars
<1>6. CASE /\ payment.step = "validate" /\ UNCHANGED vars
           /\ RowAllows(bank_account_views[processor.command.id], payment.currency)
           /\ payment' = [payment EXCEPT !.step = "record",
                            !.checked = bank_account_views[processor.command.id].ledger_id]
  <2>1. /\ payment'.step = "record" /\ payment'.currency = payment.currency
        /\ payment'.house = payment.house /\ payment' # NoPayment
        /\ payment'.checked = bank_account_views[processor.command.id].ledger_id
    BY <1>4, <1>6 DEF NoPayment
  <2>2. HouseLedger(payment.house, payment.currency)'
    BY <1>6, <2>1 DEF BInv, PaymentInv, HouseLedger, HouseAccountFor, vars
  <2> QED BY <1>3, <1>6, <2>1, <2>2 DEF PaymentInv, RowAllows, vars
<1>7. ASSUME NEW l \in LedgerIds, NEW t \in TxId, payment.step = "record", UNCHANGED vars,
             AggregateLedger(processor.command.id, l),
             transactions' = [transactions EXCEPT ![t] = TransactionOn(l)],
             payment' = [payment EXCEPT !.step = "hold", !.transaction = t]
      PROVE  PaymentInv'
  <2>1. /\ payment'.step = "hold" /\ payment'.currency = payment.currency
        /\ payment'.house = payment.house /\ payment' # NoPayment
        /\ payment'.transaction = t
    BY <1>4, <1>7 DEF NoPayment
  <2>2. HouseLedger(payment.house, payment.currency)'
    BY <1>7, <2>1 DEF BInv, PaymentInv, HouseLedger, HouseAccountFor, vars
  <2>3. transactions'[t] = TransactionOn(l)
    BY <1>7 DEF BInv, BankTypeOK
  <2>4. t \in Recorded' /\ transactions'[t].ledger = l
    BY <2>3 DEF Recorded, TransactionOn
  <2> QED BY <1>3, <1>7, <2>1, <2>2, <2>4 DEF PaymentInv, AggregateLedger, vars
<1> QED BY <1>1, <1>2, <1>5, <1>6, <1>7 DEF PaymentStep, FindHouseAccount, ValidatePayment,
       RecordTransaction, HoldMoney, PaymentFails

LEMMA PaymentInvStep ==
  ASSUME BInv, [BankNext]_allVars
  PROVE  PaymentInv'
<1> USE DEF accountVars, bankVars
<1>1. Accrues /\ LedgersKept
  BY RowStep, LedgersAreKept
<1>2. CASE UNCHANGED <<payment, processor, accountVars>>
  BY <1>1, <1>2, PaymentStays
<1>3. CASE TakePayment
  <2>1. PICK type \in Kind, c \in Currencies :
          payment' = [NoPayment EXCEPT !.step = "house", !.type = type, !.currency = c]
    BY <1>3 DEF TakePayment
  <2>2. payment'.step = "house" /\ payment' # NoPayment /\ processor'.step = "pay"
    BY <1>3, <2>1 DEF NoPayment, TakePayment
  <2> QED BY <2>2 DEF PaymentInv
<1>4. ASSUME processor.step # "pay", processor'.step # "pay", UNCHANGED payment
      PROVE  PaymentInv'
  BY <1>4, NoPaymentAfter DEF BInv, PaymentInv
<1>5. CASE TakeOther
  BY <1>4, <1>5 DEF TakeOther, ReceiveCommand
<1>6. processor \in [step: {"idle", "validate", "open", "opened", "find", "init",
                           "initiated", "approve", "approved", "pay", "dead"},
                    command: Command \cup {NoCommand},
                    ledger: LedgerIds \cup {NoLedger}]
  BY DEF BInv, AInv, TypeOK
<1>7. CASE ApprovalInitsLedger
  BY <1>4, <1>6, <1>7 DEF ApprovalInitsLedger, InitLedger, GoTo
<1>8. CASE AccountStep
  <2>1. CASE ValidateCreation \/ CommitOpened \/ Dispatch \/ FindAccount \/ CreateLedgerView
             \/ CommitApproved
    <3>1. processor.step # "pay" /\ processor'.step # "pay"
      <4>1. CASE ValidateCreation
        BY <1>6, <4>1 DEF ValidateCreation, IdleProcessor
      <4> QED BY <1>6, <2>1, <4>1, FindGoesOn DEF CommitOpened, Dispatch, CreateLedgerView,
             CommitApproved, GoTo, IdleProcessor
    <3> QED BY <1>4, <1>8, <3>1 DEF AccountStep
  <2>2. ASSUME NEW h \in HouseIds, HouseStep(h) PROVE PaymentInv'
    BY <1>2, <1>8, <2>2 DEF AccountStep, HouseStep, InitHouseLedger, CreateHouseLedgerView,
       CreateHouseAccount
  <2> QED BY <1>8, <2>1, <2>2 DEF AccountStep
<1>9. CASE BankFault
  <2>1. CASE processor'.step = "pay"
    <3>1. UNCHANGED <<payment, processor, accountVars>>
      BY <1>6, <1>9, <2>1 DEF BankFault, Fault, CommandFails, DispatchFails, Crash,
         HouseRequestFails, AfterFailedInit, IdleProcessor, GoTo
    <3> QED BY <1>2, <3>1
  <2>2. CASE processor'.step # "pay"
    BY <1>9, <2>2, NoPaymentAfter DEF BankFault
  <2> QED BY <2>1, <2>2
<1> QED BY <1>1, <1>2, <1>3, <1>5, <1>7, <1>8, <1>9, PaymentStepInv DEF BankNext, allVars, vars,
       BankSubmit, Submit, SubmitRefused, Settle, Complete

-----------------------------------------------------------------------------
(* Bookings.                                                               *)

(* What is booked stays booked. *)
LEMMA BookingStays ==
  ASSUME BInv, Accrues, faults' >= faults, faults \in Nat, faults' \in Nat,
         NEW tx \in Transaction, Booked(tx)
  PROVE  Booked(tx)'
<1>1. tx.account \in AccountIds /\ tx.ledger \in LedgerIds /\ tx.currency \in Currencies
  BY DEF Transaction
<1>2. HouseLedger(tx.house, tx.currency)'
  BY <1>1, HouseLedgersStay DEF Booked
<1> QED BY <1>1, <1>2 DEF Booked, Accrues

(* A transaction is written over another one that is booked, or added. *)
LEMMA BookingWritten ==
  ASSUME BInv, [BankNext]_allVars, NEW t \in TxId, NEW tx \in Transaction, Booked(tx),
         transactions' = [transactions EXCEPT ![t] = tx]
  PROVE  BookedInv'
<1>1. /\ Accrues /\ faults' >= faults /\ faults \in Nat /\ faults' \in Nat
  <2>1. [Next]_vars
    BY BankStepIsAccountsStep
  <2>2. AInv'
    BY <2>1, AStep DEF BInv
  <2> QED BY <2>2, RowStep, FaultsGrow, AccountsAssumption DEF AInv, TypeOK
<1>2. transactions'[t] = tx /\ \A u \in TxId : u # t => transactions'[u] = transactions[u]
  BY DEF BInv, BankTypeOK
<1>3. Booked(tx)'
  BY <1>1, BookingStays
<1>4. ASSUME NEW u \in Recorded', u # t PROVE Booked(transactions[u])'
  <2>1. u \in Recorded /\ transactions'[u] = transactions[u]
    BY <1>2, <1>4 DEF Recorded
  <2>2. transactions[u] \in Transaction /\ Booked(transactions[u])
    BY <2>1, RecordedTypes
  <2> DEFINE old == transactions[u]
  <2>3. PICK rec \in Transaction : rec = transactions[u]
    BY <2>2
  <2>4. Booked(rec)'
    BY <1>1, <2>2, <2>3, BookingStays
  <2> QED BY <2>1, <2>3, <2>4 DEF Booked, Approved, HouseLedger, HouseAccountFor
<1>5. \A u \in Recorded' : Booked(transactions[u])'
  BY <1>2, <1>3, <1>4 DEF Booked, Approved, HouseLedger, HouseAccountFor
<1> QED BY <1>5 DEF BookedInv, Booked, Approved, HouseLedger, HouseAccountFor

LEMMA BookedStay ==
  ASSUME BInv, [BankNext]_allVars, UNCHANGED transactions
  PROVE  BookedInv'
<1>1. CASE Recorded = {}
  BY <1>1 DEF Recorded, BookedInv
<1>2. ASSUME NEW t \in Recorded PROVE BookedInv'
  <2>1. PICK tx \in Transaction : tx = transactions[t]
    BY RecordedTypes
  <2>2. Booked(tx) /\ t \in TxId
    BY <2>1, RecordedTypes
  <2>3. transactions' = [transactions EXCEPT ![t] = tx]
    BY <2>1 DEF BInv, BankTypeOK
  <2> QED BY <2>2, <2>3, BookingWritten
<1> QED BY <1>1, <1>2

(* The row that was validated, the aggregate's ledger and the house account *)
(* agree: this is where a transaction gets what Booked says of it.          *)
LEMMA RecordTransactionBooks ==
  ASSUME BInv, [BankNext]_allVars, RecordTransaction
  PROVE  BookedInv'
<1> DEFINE id == processor.command.id
<1>1. PICK l \in LedgerIds, t \in TxId :
        /\ AggregateLedger(id, l) /\ Referenced(l) /\ Referenced(payment.house)
        /\ transactions' = [transactions EXCEPT ![t] = TransactionOn(l)]
  BY DEF RecordTransaction
<1>2. payment.step = "record"
  BY DEF RecordTransaction
<1>3. /\ processor.step = "pay" /\ id \in AccountIds
      /\ payment.type \in Kind /\ payment.currency \in Currencies
      /\ payment.checked \in LedgerIds \cup {NoLedger}
  BY <1>2, PaymentTypes
<1>4. l \in ledger_views /\ payment.house \in ledger_views /\ payment.house \in LedgerIds
  BY <1>1 DEF Referenced, BInv, AInv, TypeOK
<1>5. Approved(id, l)
  BY <1>1 DEF AggregateLedger, Approved, Range
<1>6. /\ bank_account_views[id] # NoView
      /\ ledger_currency[l] = CurrencyOf[bank_account_views[id].holder]
  BY <1>3, <1>5 DEF BInv, RowInv
<1>7. CurrencyOf[bank_account_views[id].holder] = payment.currency
  BY <1>2, <1>6 DEF BInv, PaymentInv, RowAllows
<1>8. HouseLedger(payment.house, payment.currency)
  BY <1>2 DEF BInv, PaymentInv
<1>9. faults = 0 => payment.checked = l
  BY <1>1, <1>2, <1>3 DEF BInv, FaultlessInv, PaymentInv
<1> DEFINE tx == TransactionOn(l)
<1>10. /\ tx \in Transaction
       /\ tx.account = id /\ tx.ledger = l /\ tx.house = payment.house
       /\ tx.currency = payment.currency /\ tx.checked = payment.checked
       /\ tx.held = {} /\ tx.settled = {}
  BY <1>3, <1>4 DEF TransactionOn, Transaction
<1> HIDE DEF tx
<1>11. Booked(tx)
  BY <1>4, <1>5, <1>6, <1>7, <1>8, <1>9, <1>10 DEF Booked
<1> QED BY <1>1, <1>10, <1>11, BookingWritten DEF tx

LEMMA AggregateLedgerUnique ==
  ASSUME BInv, NEW a \in AccountIds, NEW l \in LedgerIds, NEW m \in LedgerIds,
         AggregateLedger(a, l), AggregateLedger(a, m)
  PROVE  l = m
<1> DEFINE log == bank_account_events[a]
<1>1. log \in Seq(AccountEvent)
  BY DEF BInv, AInv, TypeOK
<1>2. PICK i \in DOMAIN log :
        /\ log[i] = AccountKycApproved(l)
        /\ \A n \in DOMAIN log : n > i => log[n].type # "AccountKycApproved"
  BY DEF AggregateLedger
<1>3. PICK j \in DOMAIN log :
        /\ log[j] = AccountKycApproved(m)
        /\ \A n \in DOMAIN log : n > j => log[n].type # "AccountKycApproved"
  BY DEF AggregateLedger
<1>4. i \in Int /\ j \in Int
  BY <1>1
<1>5. i = j
  BY <1>2, <1>3, <1>4 DEF AccountKycApproved
<1> QED BY <1>2, <1>3, <1>5 DEF AccountKycApproved

(* The ledger of the aggregate is that of the journal still: the processor *)
(* approves nothing between the record and the hold.                       *)
LEMMA HoldMoneyBooks ==
  ASSUME BInv, [BankNext]_allVars, HoldMoney
  PROVE  BookedInv'
<1> DEFINE t == payment.transaction
<1>1. PICK l \in LedgerIds :
        /\ HeldLedger(l)
        /\ transactions' = [transactions EXCEPT ![t].held = @ \cup {l}]
  BY DEF HoldMoney
<1>2. payment.step = "hold"
  BY DEF HoldMoney
<1>3. /\ t \in Recorded
      /\ AggregateLedger(processor.command.id, transactions[t].ledger)
      /\ processor.command.id \in AccountIds
  BY <1>2, PaymentTypes DEF BInv, PaymentInv
<1>4. transactions[t] \in Transaction /\ Booked(transactions[t]) /\ t \in TxId
  BY <1>3, RecordedTypes
<1>5. l = transactions[t].ledger
  BY <1>1, <1>3, <1>4, AggregateLedgerUnique DEF HeldLedger, Transaction
<1> DEFINE tx == [transactions[t] EXCEPT !.held = @ \cup {l}]
<1>6. /\ tx \in Transaction
      /\ tx.account = transactions[t].account /\ tx.ledger = transactions[t].ledger
      /\ tx.house = transactions[t].house /\ tx.currency = transactions[t].currency
      /\ tx.checked = transactions[t].checked /\ tx.settled = transactions[t].settled
      /\ tx.held = transactions[t].held \cup {l}
  BY <1>4 DEF Transaction
<1>7. transactions' = [transactions EXCEPT ![t] = tx]
  BY <1>1
<1> HIDE DEF tx
<1>8. Booked(tx)
  BY <1>4, <1>5, <1>6 DEF Booked
<1> QED BY <1>4, <1>6, <1>7, <1>8, BookingWritten

LEMMA JobBooks ==
  ASSUME BInv, [BankNext]_allVars, NEW t \in TxId, Settle(t) \/ Complete(t)
  PROVE  BookedInv'
<1>1. t \in Recorded
  BY DEF Settle, Complete, Completable, Recorded
<1>2. transactions[t] \in Transaction /\ Booked(transactions[t])
  BY <1>1, RecordedTypes
<1>3. CASE Settle(t)
  <2> DEFINE tx == [transactions[t] EXCEPT !.settled = @ \cup {transactions[t].ledger}]
  <2>1. /\ tx \in Transaction
        /\ tx.account = transactions[t].account /\ tx.ledger = transactions[t].ledger
        /\ tx.house = transactions[t].house /\ tx.currency = transactions[t].currency
        /\ tx.checked = transactions[t].checked /\ tx.held = transactions[t].held
        /\ tx.settled = transactions[t].settled \cup {transactions[t].ledger}
    BY <1>2 DEF Transaction
  <2>2. transactions' = [transactions EXCEPT ![t] = tx]
    BY <1>3 DEF Settle
  <2> HIDE DEF tx
  <2>3. Booked(tx)
    BY <1>2, <2>1 DEF Booked
  <2> QED BY <2>1, <2>2, <2>3, BookingWritten
<1>4. CASE Complete(t)
  <2> DEFINE tx == [transactions[t] EXCEPT !.status = "completed"]
  <2>1. /\ tx \in Transaction
        /\ tx.account = transactions[t].account /\ tx.ledger = transactions[t].ledger
        /\ tx.house = transactions[t].house /\ tx.currency = transactions[t].currency
        /\ tx.checked = transactions[t].checked /\ tx.held = transactions[t].held
        /\ tx.settled = transactions[t].settled
    BY <1>2 DEF Transaction
  <2>2. transactions' = [transactions EXCEPT ![t] = tx]
    BY <1>4 DEF Complete
  <2> HIDE DEF tx
  <2>3. Booked(tx)
    BY <1>2, <2>1 DEF Booked
  <2> QED BY <2>1, <2>2, <2>3, BookingWritten
<1> QED BY <1>3, <1>4

LEMMA BookedStep ==
  ASSUME BInv, [BankNext]_allVars
  PROVE  BookedInv'
<1> USE DEF bankVars
<1>1. CASE UNCHANGED transactions
  BY <1>1, BookedStay
<1> QED BY <1>1, RecordTransactionBooks, HoldMoneyBooks, JobBooks DEF BankNext, allVars,
       BankSubmit, TakePayment, TakeOther, PaymentStep, FindHouseAccount, UnknownAccount,
       ValidatePayment, PaymentFails, ApprovalInitsLedger, AccountStep, BankFault

-----------------------------------------------------------------------------
(* While nothing has failed.                                               *)

LEMMA FaultlessStays ==
  ASSUME BInv, UNCHANGED <<bank_account_events, bank_account_views, faults>>,
         ledger_views \subseteq ledger_views',
         processor.step # "approved",
         processor'.step \notin {"approve", "approved"}
  PROVE  FaultlessInv'
BY DEF BInv, FaultlessInv, AggregateLedger

LEMMA FaultlessStep ==
  ASSUME BInv, [BankNext]_allVars
  PROVE  FaultlessInv'
<1> USE DEF accountVars, ledgerVars, houseVars, bankVars
<1>1. CASE UNCHANGED <<bank_account_events, bank_account_views, faults, processor>>
  <2>1. ledger_views \subseteq ledger_views'
    BY RowStep DEF Accrues
  <2> QED BY <1>1, <2>1 DEF BInv, FaultlessInv, AggregateLedger
<1>2. processor \in [step: {"idle", "validate", "open", "opened", "find", "init",
                           "initiated", "approve", "approved", "pay", "dead"},
                    command: Command \cup {NoCommand},
                    ledger: LedgerIds \cup {NoLedger}]
  BY DEF BInv, AInv, TypeOK
<1>3. CASE BankFault
  BY <1>3, FaultsGrow DEF FaultlessInv
<1>4. CASE ReceiveCommand
  <2>1. Head(command_queue) \in Command
    BY <1>4, HeadTailProperties DEF ReceiveCommand, BInv, AInv, TypeOK
  <2>2. processor'.step = FirstStep(Head(command_queue))
    BY <1>4 DEF ReceiveCommand, IdleProcessor
  <2>3. processor'.step \in {"validate", "find", "pay"}
    BY <2>1, <2>2 DEF Command, FirstStep
  <2> QED BY <1>4, <2>3, FaultlessStays DEF ReceiveCommand
<1>5. CASE PaymentEnds \/ PaymentPanics
  BY <1>5, FaultlessStays DEF PaymentEnds, PaymentPanics, IdleProcessor
<1>6. CASE ApprovalInitsLedger
  BY <1>2, <1>6, FaultlessStays DEF ApprovalInitsLedger, InitLedger, GoTo
<1>7. CASE AccountStep
  <2>1. CASE ValidateCreation
    BY <1>2, <2>1, FaultlessStays DEF ValidateCreation, IdleProcessor
  <2>2. CASE FindAccount
    BY <2>2, FindGoesOn, FaultlessStays DEF FindAccount
  <2>3. CASE CreateLedgerView
    <3>1. processor'.step = "approve" /\ processor'.ledger = processor.ledger
      BY <1>2, <2>3 DEF CreateLedgerView, GoTo
    <3> QED BY <2>3, <3>1 DEF CreateLedgerView, BInv, FaultlessInv, AggregateLedger
  <2>4. CASE CommitOpened
    <3>1. /\ processor.command.id \in AccountIds
          /\ AccountOpened(processor.command.holder) \in AccountEvent
          /\ processor'.step = "opened" /\ processor'.command = processor.command
      BY <1>2, <2>4 DEF CommitOpened, GoTo, BInv, AInv, ProcessorInv, OpenCommand, AccountEvent
    <3>2. \A a \in AccountIds :
            a # processor.command.id => bank_account_events'[a] = bank_account_events[a]
      BY <2>4, <3>1, LogKeeps DEF CommitOpened, BInv
    <3>3. \A l \in LedgerIds : ~Approved(processor.command.id, l)'
      <4>1. \A l \in LedgerIds : ~Approved(processor.command.id, l)
        BY <2>4, <3>1 DEF CommitOpened, BInv, RowInv, OpeningInv
      <4> QED BY <2>4, <3>1, <4>1, LogKeeps
            DEF CommitOpened, BInv, Approved, AccountOpened, AccountKycApproved
    <3>4. \A l \in LedgerIds : ~AggregateLedger(processor.command.id, l)'
      <4> SUFFICES ASSUME NEW l \in LedgerIds, AggregateLedger(processor.command.id, l)'
                   PROVE  Approved(processor.command.id, l)'
        BY <3>3
      <4> QED BY DEF AggregateLedger, Approved, Range
    <3>5. UNCHANGED <<bank_account_views, ledger_views, faults>> /\ processor.step = "open"
      BY <2>4 DEF CommitOpened
    <3>6. \A a \in AccountIds : \A l \in LedgerIds :
            AggregateLedger(a, l)' => a # processor.command.id /\ AggregateLedger(a, l)
      BY <3>1, <3>2, <3>4 DEF AggregateLedger
    <3> QED BY <3>1, <3>5, <3>6 DEF BInv, FaultlessInv
  <2>5. CASE CommitApproved
    <3>1. /\ processor.step = "approve" /\ processor'.step = "approved"
          /\ processor'.command = processor.command /\ processor'.ledger = processor.ledger
          /\ UNCHANGED <<bank_account_views, ledger_views, faults>>
      BY <1>2, <2>5 DEF CommitApproved, GoTo
    <3>2. /\ processor.command.id \in AccountIds
          /\ AccountKycApproved(processor.ledger) \in AccountEvent
      BY <3>1 DEF BInv, AInv, ProcessorInv, Approving, AccountEvent
    <3>3. \A a \in AccountIds :
            a # processor.command.id => bank_account_events'[a] = bank_account_events[a]
      BY <2>5, <3>2, LogKeeps DEF CommitApproved, BInv
    <3>4. \A a \in AccountIds : \A l \in LedgerIds :
            AggregateLedger(a, l)' => a = processor.command.id \/ AggregateLedger(a, l)
      BY <3>3 DEF AggregateLedger
    <3> QED BY <3>1, <3>4 DEF BInv, FaultlessInv
  <2>6. CASE Dispatch
    <3> DEFINE id == processor.command.id
               log == bank_account_events[id]
    <3>1. /\ processor'.step = "idle" /\ UNCHANGED <<bank_account_events, ledger_views, faults>>
      BY <2>6 DEF Dispatch, IdleProcessor
    <3>2. ASSUME processor.step = "opened" PROVE \A l \in LedgerIds : ~AggregateLedger(id, l)
      BY <2>6, <3>2, DispatchedRow DEF BInv, RowInv, OpeningInv, AggregateLedger, Approved, Range
    <3>3. ASSUME processor.step = "approved", NEW l \in LedgerIds, AggregateLedger(id, l)
          PROVE  l = processor.ledger
      <4>1. /\ log # <<>> /\ Last(log) = AccountKycApproved(processor.ledger)
            /\ id \in AccountIds /\ processor.ledger \in LedgerIds
        BY <2>6, <3>3, DispatchedRow
      <4>2. log \in Seq(AccountEvent)
        BY <4>1 DEF BInv, AInv, TypeOK
      <4>3. Len(log) \in DOMAIN log /\ log[Len(log)] = AccountKycApproved(processor.ledger)
            /\ \A j \in DOMAIN log : ~(j > Len(log))
        BY <4>1, <4>2, EmptySeq, LenProperties DEF Last
      <4>4. AggregateLedger(id, processor.ledger)
        BY <4>3 DEF AggregateLedger
      <4> QED BY <3>3, <4>1, <4>4, AggregateLedgerUnique
    <3>4. \A a \in AccountIds : \A l \in LedgerIds :
            faults = 0 /\ AggregateLedger(a, l) => bank_account_views'[a].ledger_id = l
      BY <2>6, <3>2, <3>3, DispatchedRow DEF BInv, FaultlessInv
    <3>5. faults = 0 =>
            \A a \in AccountIds :
              bank_account_views'[a].status = "Approved" =>
                bank_account_views'[a].ledger_id \in ledger_views
      BY <2>6, DispatchedRow DEF BInv, FaultlessInv
    <3> QED BY <3>1, <3>4, <3>5 DEF FaultlessInv, AggregateLedger
  <2>7. ASSUME NEW h \in HouseIds, HouseStep(h) PROVE FaultlessInv'
    BY <1>1, <2>7 DEF HouseStep, InitHouseLedger, CreateHouseLedgerView, CreateHouseAccount
  <2> QED BY <1>7, <2>1, <2>2, <2>3, <2>4, <2>5, <2>6, <2>7 DEF AccountStep
<1> QED BY <1>1, <1>3, <1>4, <1>5, <1>6, <1>7 DEF BankNext, allVars, vars, BankSubmit, Submit,
       SubmitRefused, TakePayment, TakeOther, PaymentStep, FindHouseAccount, UnknownAccount,
       ValidatePayment, RecordTransaction, HoldMoney, PaymentFails, EndPayment, Settle, Complete

-----------------------------------------------------------------------------
LEMMA BankStep == BInv /\ [BankNext]_allVars => BInv'
<1> SUFFICES ASSUME BInv, [BankNext]_allVars PROVE BInv'
  OBVIOUS
<1>1. AInv'
  BY BankStepIsAccountsStep, AStep DEF BInv
<1> QED BY <1>1, BankTypeStep, RowStep, OpeningStep, PaymentInvStep, BookedStep, FaultlessStep
       DEF BInv

(* The inductive invariant holds in every state the specification allows. *)
THEOREM BankInvariant == BankSpec => []BInv
BY BankInitInv, BankStep, PTL DEF BankSpec

(* Every variable of Bank keeps its type: a transaction always has ledgers *)
(* of its own and of the house, a payment never loses its house account.   *)
THEOREM BankTypeCorrect == BankSpec => []BankTypeOK
<1>1. BInv => BankTypeOK
  BY DEF BInv
<1> QED BY <1>1, BankInvariant, PTL

(* create_transaction_with_journal writes to a ledger some approval gave   *)
(* to the paid account and to a house ledger of the payment's currency,    *)
(* whatever rows are missing.                                              *)
THEOREM RecordedOnOwnLedgersAlways == BankSpec => []RecordedOnOwnLedgers
<1>1. BInv => RecordedOnOwnLedgers
  <2> SUFFICES ASSUME BInv, NEW t \in Recorded
               PROVE  /\ Approved(transactions[t].account, transactions[t].ledger)
                      /\ {transactions[t].ledger, transactions[t].house} \subseteq ledger_views
                      /\ HouseLedger(transactions[t].house, transactions[t].currency)
    BY DEF RecordedOnOwnLedgers, Approved, HouseLedger, HouseAccountFor
  <2> QED BY RecordedTypes DEF Booked
<1> QED BY <1>1, BankInvariant, PTL

(* debit_hold, debit_release and credit move the journal's ledger only,    *)
(* however often the account is approved in between.                       *)
THEOREM OneLedgerPerTransactionAlways == BankSpec => []OneLedgerPerTransaction
<1>1. BInv => OneLedgerPerTransaction
  BY RecordedTypes DEF OneLedgerPerTransaction, Booked
<1> QED BY <1>1, BankInvariant, PTL

(* Add and Sub of Money never see two currencies.                          *)
THEOREM CurrenciesNeverMixAlways == BankSpec => []CurrenciesNeverMix
<1>1. BInv => CurrenciesNeverMix
  BY RecordedTypes DEF CurrenciesNeverMix, Booked
<1> QED BY <1>1, BankInvariant, PTL

(* Without a failed call validate looks at the funds of the very ledger    *)
(* that debit_hold moves then.                                             *)
THEOREM CheckedLedgerIsDebitedAlways == BankSpec => []CheckedLedgerIsDebited
<1>1. BInv => CheckedLedgerIsDebited
  BY RecordedTypes DEF CheckedLedgerIsDebited, Booked
<1> QED BY <1>1, BankInvariant, PTL

(* Without a failed call a client that reads an approved account finds its *)
(* ledger.                                                                 *)
THEOREM ApprovedLedgerIsFoundAlways == BankSpec => []ApprovedLedgerIsFound
<1>1. BInv => ApprovedLedgerIsFound
  <2> SUFFICES ASSUME BInv, faults = 0, NEW a \in AccountIds, ReadAccount(a).status = "Approved"
               PROVE  ReadLedger(bank_account_views[a].ledger_id) # NotFound
    BY DEF ApprovedLedgerIsFound
  <2>1. bank_account_views[a].status = "Approved"
    BY DEF ReadAccount, NotFound
  <2>2. bank_account_views[a].ledger_id \in ledger_views
    BY <2>1 DEF BInv, FaultlessInv
  <2>3. ReadLedger(bank_account_views[a].ledger_id).status = "found"
    BY <2>2 DEF ReadLedger
  <2>4. NotFound.status = "not found"
    BY DEF NotFound
  <2> QED BY <2>3, <2>4
<1> QED BY <1>1, BankInvariant, PTL

(* The left join of get_user_bank_accounts shows an account's own ledger,  *)
(* in its currency, or no balance.                                         *)
THEOREM ListedBalanceIsOwnAlways == BankSpec => []ListedBalanceIsOwn
<1>1. BInv => ListedBalanceIsOwn
  <2> SUFFICES ASSUME BInv, NEW holder \in Holders, NEW a \in AccountIds,
                      bank_account_views[a].holder = holder
               PROVE  LET balance == ReadLedger(bank_account_views[a].ledger_id) IN
                      \/ balance = NotFound
                      \/ balance.owner = a /\ balance.currency = CurrencyOf[holder]
    BY DEF ListedBalanceIsOwn, UserAccounts
  <2> DEFINE l == bank_account_views[a].ledger_id
  <2>1. CASE l \notin ledger_views
    BY <2>1 DEF ReadLedger
  <2>2. CASE l \in ledger_views
    <3>1. l \in LedgerIds /\ l # NoLedger
      BY <2>2, AccountsAssumption DEF BInv, AInv, TypeOK
    <3>2. Approved(a, l)
      BY <3>1 DEF BInv, RowInv
    <3>3. ledger_events[l] = a
      BY <3>1, <3>2 DEF Approved, BInv, AInv, ApprovedLedgerExists
    <3>4. ledger_currency[l] = CurrencyOf[holder]
      BY <3>1, <3>2 DEF BInv, RowInv
    <3> QED BY <2>2, <3>3, <3>4 DEF ReadLedger
  <2> QED BY <2>1, <2>2
<1> QED BY <1>1, BankInvariant, PTL

-----------------------------------------------------------------------------
(* Bank implements PaymentPromise.                                         *)

Held == {t \in Recorded : transactions[t].held # {}}
Settled == {t \in Recorded : transactions[t].settled # {}}
Completed == {t \in Recorded : transactions[t].status = "completed"}

(* One transaction is written. *)
Written(t, tx) ==
  /\ Recorded' = Recorded \cup {t}
  /\ Held' = (Held \ {t}) \cup {u \in {t} : tx.held # {}}
  /\ Settled' = (Settled \ {t}) \cup {u \in {t} : tx.settled # {}}
  /\ Completed' = (Completed \ {t}) \cup {u \in {t} : tx.status = "completed"}

LEMMA OneTransactionWritten ==
  ASSUME BInv, NEW t \in TxId, NEW tx \in Transaction,
         transactions' = [transactions EXCEPT ![t] = tx]
  PROVE  Written(t, tx)
<1>1. transactions'[t] = tx /\ \A u \in TxId : u # t => transactions'[u] = transactions[u]
  BY DEF BInv, BankTypeOK
<1>2. tx.status # "none"
  BY DEF Transaction
<1>3. Recorded' = Recorded \cup {t}
  BY <1>1, <1>2 DEF Recorded
<1>4. Held' = (Held \ {t}) \cup {u \in {t} : tx.held # {}}
  BY <1>1, <1>3 DEF Held, Recorded
<1>5. Settled' = (Settled \ {t}) \cup {u \in {t} : tx.settled # {}}
  BY <1>1, <1>3 DEF Settled, Recorded
<1>6. Completed' = (Completed \ {t}) \cup {u \in {t} : tx.status = "completed"}
  BY <1>1, <1>3 DEF Completed, Recorded
<1> QED BY <1>3, <1>4, <1>5, <1>6 DEF Written

(* A step writes at most one transaction, and what it writes there is one *)
(* of the four events, or nothing new.                                    *)
LEMMA PromiseStep ==
  ASSUME BInv, [BankNext]_allVars
  PROVE  [Promise!Next]_(Promise!vars)
<1>1. CASE UNCHANGED transactions
  BY <1>1 DEF Promise!vars, Recorded
<1>2. CASE RecordTransaction
  <2>1. PICK l \in LedgerIds, t \in TxId :
          /\ Referenced(payment.house) /\ NextTxId(t)
          /\ transactions' = [transactions EXCEPT ![t] = TransactionOn(l)]
    BY <1>2 DEF RecordTransaction
  <2>2. payment.step # "none" /\ payment.house \in LedgerIds
    BY <1>2, <2>1 DEF RecordTransaction, Referenced, BInv, AInv, TypeOK
  <2>3. PICK tx \in Transaction :
          /\ tx.held = {} /\ tx.settled = {} /\ tx.status = "processing"
          /\ transactions' = [transactions EXCEPT ![t] = tx]
    BY <2>1, <2>2, PaymentTypes DEF TransactionOn, Transaction
  <2>4. t \notin Recorded /\ t \notin Held /\ t \notin Settled /\ t \notin Completed
    BY <2>1 DEF NextTxId, Held, Settled, Completed
  <2>5. /\ Held' = Held /\ Settled' = Settled /\ Completed' = Completed
        /\ Recorded' = Recorded \cup {t}
    <3>1. Written(t, tx)
      BY <2>3, OneTransactionWritten
    <3> QED BY <2>3, <2>4, <3>1 DEF Written
  <2>6. Promise!Record(t)
    BY <2>4, <2>5 DEF Promise!Record, Held, Settled, Completed
  <2> QED BY <2>6 DEF Promise!Next
<1>3. CASE HoldMoney
  <2>1. payment.transaction \in Recorded
    BY <1>3 DEF HoldMoney, BInv, PaymentInv
  <2>2. PICK t \in Recorded : t = payment.transaction
    BY <2>1
  <2>3. PICK l \in LedgerIds : transactions' = [transactions EXCEPT ![t].held = @ \cup {l}]
    BY <1>3, <2>2 DEF HoldMoney
  <2>4. transactions[t] \in Transaction /\ t \in TxId
    BY RecordedTypes
  <2>5. PICK tx \in Transaction :
          /\ tx.held # {}
          /\ tx.settled = transactions[t].settled /\ tx.status = transactions[t].status
          /\ transactions' = [transactions EXCEPT ![t] = tx]
    <3> DEFINE held == [transactions[t] EXCEPT !.held = @ \cup {l}]
    <3>1. /\ held \in Transaction /\ held.held # {}
          /\ held.settled = transactions[t].settled /\ held.status = transactions[t].status
      BY <2>4 DEF Transaction
    <3> QED BY <2>3, <3>1
  <2>6. /\ tx.settled # {} <=> t \in Settled
        /\ tx.status = "completed" <=> t \in Completed
    BY <2>5 DEF Settled, Completed
  <2>7. /\ Recorded' = Recorded /\ Settled' = Settled /\ Completed' = Completed
        /\ Held' = Held \cup {t}
    <3>1. Written(t, tx)
      BY <2>4, <2>5, OneTransactionWritten
    <3> QED BY <2>5, <2>6, <3>1 DEF Written
  <2>8. CASE t \in Held
    <3>1. Held' = Held
      BY <2>7, <2>8
    <3> QED BY <2>7, <3>1 DEF Promise!vars, Held, Settled, Completed
  <2>9. CASE t \notin Held
    <3>1. Promise!Hold(t)
      BY <2>7, <2>9 DEF Promise!Hold, Held, Settled, Completed
    <3> QED BY <2>4, <3>1 DEF Promise!Next
  <2> QED BY <2>8, <2>9
<1>4. ASSUME NEW t \in TxId, Settle(t) PROVE [Promise!Next]_(Promise!vars)
  <2>1. t \in Recorded /\ transactions[t].status = "processing"
    BY <1>4 DEF Settle, Recorded
  <2>2. transactions[t] \in Transaction
    BY <2>1, RecordedTypes
  <2>3. PICK tx \in Transaction :
          /\ tx.settled # {}
          /\ tx.held = transactions[t].held /\ tx.status = "processing"
          /\ transactions' = [transactions EXCEPT ![t] = tx]
    <3> DEFINE new == [transactions[t] EXCEPT !.settled = @ \cup {transactions[t].ledger}]
    <3>1. /\ new \in Transaction /\ new.settled # {}
          /\ new.held = transactions[t].held /\ new.status = "processing"
      BY <2>1, <2>2 DEF Transaction
    <3> QED BY <1>4, <3>1 DEF Settle
  <2>4. (tx.held # {} <=> t \in Held) /\ t \notin Completed
    BY <2>1, <2>3 DEF Held, Completed
  <2>5. /\ Recorded' = Recorded /\ Held' = Held /\ Completed' = Completed
        /\ Settled' = Settled \cup {t}
    <3>1. Written(t, tx)
      BY <2>3, OneTransactionWritten
    <3> QED BY <2>1, <2>3, <2>4, <3>1 DEF Written
  <2>6. CASE t \in Settled
    <3>1. Settled' = Settled
      BY <2>5, <2>6
    <3> QED BY <2>5, <3>1 DEF Promise!vars, Held, Settled, Completed
  <2>7. CASE t \notin Settled
    <3>1. Promise!Settle(t)
      BY <2>1, <2>4, <2>5, <2>7 DEF Promise!Settle, Held, Settled, Completed
    <3> QED BY <3>1 DEF Promise!Next
  <2> QED BY <2>6, <2>7
<1>5. ASSUME NEW t \in TxId, Complete(t) PROVE [Promise!Next]_(Promise!vars)
  <2>1. /\ t \in Recorded /\ t \in Settled /\ t \notin Completed
        /\ transactions[t].settled # {}
    BY <1>5 DEF Complete, Completable, Recorded, Settled, Completed
  <2>2. transactions[t] \in Transaction
    BY <2>1, RecordedTypes
  <2>3. PICK tx \in Transaction :
          /\ tx.settled = transactions[t].settled
          /\ tx.held = transactions[t].held /\ tx.status = "completed"
          /\ transactions' = [transactions EXCEPT ![t] = tx]
    <3> DEFINE new == [transactions[t] EXCEPT !.status = "completed"]
    <3>1. /\ new \in Transaction /\ new.settled = transactions[t].settled
          /\ new.held = transactions[t].held /\ new.status = "completed"
      BY <2>2 DEF Transaction
    <3> QED BY <1>5, <3>1 DEF Complete
  <2>4. tx.held # {} <=> t \in Held
    BY <2>1, <2>3 DEF Held
  <2>5. /\ Recorded' = Recorded /\ Held' = Held /\ Settled' = Settled
        /\ Completed' = Completed \cup {t}
    <3>1. Written(t, tx)
      BY <2>3, OneTransactionWritten
    <3> QED BY <2>1, <2>3, <2>4, <3>1 DEF Written
  <2>6. Promise!Complete(t)
    BY <2>1, <2>5 DEF Promise!Complete, Held, Settled, Completed
  <2> QED BY <2>6 DEF Promise!Next
<1> QED BY <1>1, <1>2, <1>3, <1>4, <1>5 DEF BankNext, allVars, bankVars, BankSubmit, TakePayment,
       TakeOther, PaymentStep, FindHouseAccount, UnknownAccount, ValidatePayment,
       PaymentFails, ApprovalInitsLedger, AccountStep, BankFault

(* The promise of PaymentPromise is kept beside accounts that are opened,  *)
(* approved and approved again, with any faults.                           *)
THEOREM BankKeepsPromiseAlways == BankSpec => BankKeepsPromise
<1>1. BankInit => Promise!Init
  BY DEF BankInit, Recorded, NoTransaction, Promise!Init
<1>2. BInv /\ [BankNext]_allVars => [Promise!Next]_(Promise!vars)
  BY PromiseStep
<1> QED BY <1>1, <1>2, BankInvariant, PTL DEF BankSpec, BankKeepsPromise, Promise!Spec

-----------------------------------------------------------------------------
(* The payments of an account: waiting in the channel, taken and not yet   *)
(* recorded, recorded.                                                     *)
Waiting(a) ==
  {i \in DOMAIN command_queue : command_queue[i].type = "Payment" /\ command_queue[i].id = a}

InHand(a) ==
  payment.step \in {"house", "validate", "record"} /\ processor.command.id = a

PaidFor(a) == {t \in Recorded : transactions[t].account = a}

(* However many were accepted, each is in one place at most; at the bound  *)
(* of the count there are no more transactions to record.                  *)
PaymentsCounted ==
  \A a \in AccountIds :
    /\ accepted[a] <= MaxAccepted
    /\ accepted[a] < MaxAccepted =>
         Cardinality(PaidFor(a)) + Cardinality(Waiting(a)) + (IF InHand(a) THEN 1 ELSE 0)
           <= accepted[a]

LEMMA CountTypes ==
  ASSUME BInv, NEW a \in AccountIds
  PROVE  /\ IsFiniteSet(PaidFor(a)) /\ Cardinality(PaidFor(a)) \in Nat
         /\ Cardinality(PaidFor(a)) <= MaxAccepted
         /\ IsFiniteSet(Waiting(a)) /\ Cardinality(Waiting(a)) \in Nat
         /\ MaxAccepted \in Nat /\ accepted[a] \in Nat
<1>1. PaidFor(a) \subseteq TxId /\ IsFiniteSet(TxId)
  BY BankAssumption DEF PaidFor, Recorded
<1>2. /\ IsFiniteSet(PaidFor(a)) /\ Cardinality(PaidFor(a)) \in Nat
      /\ Cardinality(PaidFor(a)) <= MaxAccepted /\ MaxAccepted \in Nat
  BY <1>1, FS_Subset, FS_CardinalityType DEF MaxAccepted
<1>3. Len(command_queue) \in Nat /\ DOMAIN command_queue = 1..Len(command_queue)
  BY DEF BInv, AInv, TypeOK
<1>4. IsFiniteSet(DOMAIN command_queue)
  BY <1>3, FS_Interval
<1>5. IsFiniteSet(Waiting(a)) /\ Cardinality(Waiting(a)) \in Nat
  BY <1>4, FS_Subset, FS_CardinalityType DEF Waiting
<1> QED BY <1>2, <1>5 DEF BInv, BankTypeOK

(* Moved down by one place, a set of places has no more elements. *)
LEMMA MovedDown ==
  ASSUME NEW S, IsFiniteSet(S), S \subseteq Nat
  PROVE  /\ IsFiniteSet({i - 1 : i \in S})
         /\ Cardinality({i - 1 : i \in S}) <= Cardinality(S)
<1> DEFINE T == {i - 1 : i \in S}
           f == [i \in S |-> i - 1]
<1>1. f \in [S -> T] /\ \A x \in T : \E i \in S : f[i] = x
  OBVIOUS
<1>2. f \in Surjection(S, T)
  BY <1>1 DEF Surjection
<1> QED BY <1>2, FS_Surjection

(* The places behind the first one, after Tail. *)
LEMMA WaitingAfterReceive ==
  ASSUME BInv, BInv', ReceiveCommand, NEW a \in AccountIds
  PROVE  /\ Cardinality(Waiting(a)') <= Cardinality(Waiting(a))
         /\ Head(command_queue).type = "Payment" /\ Head(command_queue).id = a =>
              Cardinality(Waiting(a)') + 1 <= Cardinality(Waiting(a))
<1> DEFINE n == Len(command_queue)
           rest == Waiting(a) \ {1}
           moved == {i - 1 : i \in rest}
<1>1. /\ n \in Nat /\ n # 0 /\ DOMAIN command_queue = 1..n
      /\ command_queue' = Tail(command_queue) /\ Head(command_queue) = command_queue[1]
  BY DEF ReceiveCommand, BInv, AInv, TypeOK
<1>2. /\ DOMAIN command_queue' = 1..(n - 1)
      /\ \A i \in 1..(n - 1) : command_queue'[i] = command_queue[i + 1]
  BY <1>1 DEF BInv, AInv, TypeOK
<1>3. Waiting(a)' \subseteq moved
  <2> SUFFICES ASSUME NEW i \in Waiting(a)' PROVE i \in moved
    OBVIOUS
  <2>1. i \in 1..(n - 1) /\ i + 1 \in 1..n /\ i + 1 # 1 /\ i = (i + 1) - 1
    BY <1>1, <1>2 DEF Waiting
  <2>2. i + 1 \in Waiting(a)
    BY <1>1, <1>2, <2>1 DEF Waiting
  <2> QED BY <2>1, <2>2
<1>4. IsFiniteSet(Waiting(a)) /\ Cardinality(Waiting(a)) \in Nat
  BY CountTypes
<1>5. Waiting(a) \subseteq Nat
  BY <1>1 DEF Waiting
<1>6. /\ IsFiniteSet(rest) /\ rest \subseteq Nat
      /\ Cardinality(rest) =
           IF 1 \in Waiting(a) THEN Cardinality(Waiting(a)) - 1 ELSE Cardinality(Waiting(a))
  BY <1>4, <1>5, FS_RemoveElement
<1> HIDE DEF rest
<1>7. IsFiniteSet(moved) /\ Cardinality(moved) <= Cardinality(rest)
  BY <1>6, MovedDown
<1>8. Cardinality(moved) \in Nat
  BY <1>7, FS_CardinalityType
<1> HIDE DEF moved
<1>9. Cardinality(Waiting(a)') <= Cardinality(moved) /\ Cardinality(Waiting(a)') \in Nat
  BY <1>3, <1>7, FS_Subset, FS_CardinalityType
<1>10. Head(command_queue).type = "Payment" /\ Head(command_queue).id = a => 1 \in Waiting(a)
  BY <1>1 DEF Waiting
<1> QED BY <1>4, <1>6, <1>7, <1>8, <1>9, <1>10

(* A step after which there is no more of a payment than before. *)
LEMMA NoNewPayment ==
  ASSUME BInv, BInv', PaymentsCounted, UNCHANGED accepted, NEW a \in AccountIds,
         PaidFor(a)' \subseteq PaidFor(a), Waiting(a)' \subseteq Waiting(a),
         InHand(a)' => InHand(a)
  PROVE  /\ accepted'[a] <= MaxAccepted
         /\ accepted'[a] < MaxAccepted =>
              Cardinality(PaidFor(a)') + Cardinality(Waiting(a)') + (IF InHand(a)' THEN 1 ELSE 0)
                <= accepted'[a]
<1>1. /\ IsFiniteSet(PaidFor(a)) /\ Cardinality(PaidFor(a)) \in Nat
      /\ IsFiniteSet(Waiting(a)) /\ Cardinality(Waiting(a)) \in Nat
      /\ MaxAccepted \in Nat /\ accepted[a] \in Nat
  BY CountTypes
<1>2. /\ Cardinality(PaidFor(a)') <= Cardinality(PaidFor(a)) /\ Cardinality(PaidFor(a)') \in Nat
      /\ Cardinality(Waiting(a)') <= Cardinality(Waiting(a)) /\ Cardinality(Waiting(a)') \in Nat
  BY <1>1, FS_Subset, FS_CardinalityType
<1>3. (IF InHand(a)' THEN 1 ELSE 0) <= (IF InHand(a) THEN 1 ELSE 0)
  OBVIOUS
<1>4. /\ accepted[a] <= MaxAccepted
      /\ accepted[a] < MaxAccepted =>
           Cardinality(PaidFor(a)) + Cardinality(Waiting(a)) + (IF InHand(a) THEN 1 ELSE 0)
             <= accepted[a]
  BY DEF PaymentsCounted
<1> QED BY <1>1, <1>2, <1>3, <1>4

LEMMA CountedInit == BankInit => PaymentsCounted
<1> SUFFICES ASSUME BankInit, NEW a \in AccountIds
             PROVE  /\ accepted[a] <= MaxAccepted
                    /\ accepted[a] < MaxAccepted =>
                         Cardinality(PaidFor(a)) + Cardinality(Waiting(a))
                           + (IF InHand(a) THEN 1 ELSE 0) <= accepted[a]
  BY DEF PaymentsCounted
<1>1. PaidFor(a) = {} /\ Waiting(a) = {} /\ ~InHand(a) /\ accepted[a] = 0
  BY DEF BankInit, Init, PaidFor, Recorded, NoTransaction, Waiting, InHand, NoPayment
<1>2. Cardinality({}) = 0 /\ MaxAccepted \in Nat
  BY BankAssumption, FS_EmptySet, FS_CardinalityType DEF MaxAccepted
<1> HIDE DEF PaymentsCounted
<1> QED BY <1>1, <1>2

LEMMA SubmitCounted ==
  ASSUME BInv, BInv', PaymentsCounted, NEW command \in Command, BankSubmit(command),
         NEW a \in AccountIds
  PROVE  /\ accepted'[a] <= MaxAccepted
         /\ accepted'[a] < MaxAccepted =>
              Cardinality(PaidFor(a)') + Cardinality(Waiting(a)') + (IF InHand(a)' THEN 1 ELSE 0)
                <= accepted'[a]
<1> DEFINE n == Len(command_queue)
           ours == command.type = "Payment" /\ command.id = a
<1>1. /\ n \in Nat /\ DOMAIN command_queue = 1..n
      /\ command_queue' = Append(command_queue, command)
      /\ UNCHANGED <<processor, payment, transactions>>
  BY DEF BankSubmit, Submit, BInv, AInv, TypeOK
<1>2. /\ DOMAIN command_queue' = 1..(n + 1) /\ command_queue'[n + 1] = command
      /\ \A i \in 1..n : command_queue'[i] = command_queue[i]
  BY <1>1 DEF BInv, AInv, TypeOK
<1>3. PaidFor(a)' = PaidFor(a) /\ InHand(a)' = InHand(a)
  BY <1>1 DEF PaidFor, Recorded, InHand
<1>4. Waiting(a)' = IF ours THEN Waiting(a) \cup {n + 1} ELSE Waiting(a)
  BY <1>1, <1>2 DEF Waiting
<1>5. n + 1 \notin Waiting(a)
  BY <1>1 DEF Waiting
<1>6. /\ Cardinality(PaidFor(a)) \in Nat
      /\ IsFiniteSet(Waiting(a)) /\ Cardinality(Waiting(a)) \in Nat
      /\ MaxAccepted \in Nat /\ accepted[a] \in Nat
  BY CountTypes
<1>7. Cardinality(Waiting(a)') = Cardinality(Waiting(a)) + (IF ours THEN 1 ELSE 0)
  <2>1. Cardinality(Waiting(a) \cup {n + 1}) = Cardinality(Waiting(a)) + 1
    BY <1>5, <1>6, FS_AddElement
  <2> HIDE DEF ours, n
  <2> QED BY <1>4, <1>6, <2>1
<1>8. accepted'[a] = IF ours /\ accepted[a] < MaxAccepted THEN accepted[a] + 1 ELSE accepted[a]
  BY DEF BankSubmit, BInv, BankTypeOK
<1>9. /\ accepted[a] <= MaxAccepted
      /\ accepted[a] < MaxAccepted =>
           Cardinality(PaidFor(a)) + Cardinality(Waiting(a)) + (IF InHand(a) THEN 1 ELSE 0)
             <= accepted[a]
  BY DEF PaymentsCounted
<1> HIDE DEF ours, n
<1> QED BY <1>3, <1>6, <1>7, <1>8, <1>9

LEMMA TakePaymentCounted ==
  ASSUME BInv, BInv', PaymentsCounted, TakePayment, NEW a \in AccountIds
  PROVE  /\ accepted'[a] <= MaxAccepted
         /\ accepted'[a] < MaxAccepted =>
              Cardinality(PaidFor(a)') + Cardinality(Waiting(a)') + (IF InHand(a)' THEN 1 ELSE 0)
                <= accepted'[a]
<1>1. /\ ReceiveCommand /\ processor'.step = "pay" /\ processor.step = "idle"
      /\ UNCHANGED <<transactions, accepted>>
  BY DEF TakePayment, ReceiveCommand
<1>2. /\ processor' = [IdleProcessor EXCEPT !.step = FirstStep(Head(command_queue)),
                                            !.command = Head(command_queue)]
      /\ Head(command_queue) \in Command
  BY <1>1 DEF ReceiveCommand, BInv, AInv, TypeOK
<1>3. processor'.step = FirstStep(Head(command_queue)) /\ processor'.command = Head(command_queue)
  BY <1>2 DEF IdleProcessor
<1>4. Head(command_queue).type = "Payment"
  BY <1>1, <1>2, <1>3 DEF Command, FirstStep
<1>5. PaidFor(a)' = PaidFor(a)
  BY <1>1 DEF PaidFor, Recorded
<1>6. InHand(a)' => Head(command_queue).type = "Payment" /\ Head(command_queue).id = a
  BY <1>3, <1>4 DEF InHand
<1>7. /\ Cardinality(Waiting(a)') <= Cardinality(Waiting(a))
      /\ InHand(a)' => Cardinality(Waiting(a)') + 1 <= Cardinality(Waiting(a))
  BY <1>1, <1>6, WaitingAfterReceive
<1>8. /\ Cardinality(PaidFor(a)) \in Nat /\ Cardinality(Waiting(a)) \in Nat
      /\ MaxAccepted \in Nat /\ accepted[a] \in Nat
  BY CountTypes
<1>9. Cardinality(Waiting(a)') \in Nat
  <2>1. \A b \in AccountIds : IsFiniteSet(Waiting(b)) /\ Cardinality(Waiting(b)) \in Nat
    BY CountTypes
  <2>2. Len(command_queue') \in Nat /\ DOMAIN command_queue' = 1..Len(command_queue')
    BY DEF BInv, AInv, TypeOK
  <2>3. IsFiniteSet(DOMAIN command_queue')
    BY <2>2, FS_Interval
  <2> QED BY <2>3, FS_Subset, FS_CardinalityType DEF Waiting
<1>10. /\ accepted[a] <= MaxAccepted
       /\ accepted[a] < MaxAccepted =>
            Cardinality(PaidFor(a)) + Cardinality(Waiting(a)) + (IF InHand(a) THEN 1 ELSE 0)
              <= accepted[a]
  BY DEF PaymentsCounted
<1> QED BY <1>1, <1>5, <1>7, <1>8, <1>9, <1>10

(* Recording takes the payment out of the processor's hand. *)
LEMMA RecordCounted ==
  ASSUME BInv, BInv', PaymentsCounted, RecordTransaction, NEW a \in AccountIds
  PROVE  /\ accepted'[a] <= MaxAccepted
         /\ accepted'[a] < MaxAccepted =>
              Cardinality(PaidFor(a)') + Cardinality(Waiting(a)') + (IF InHand(a)' THEN 1 ELSE 0)
                <= accepted'[a]
<1>1. PICK l \in LedgerIds, t \in TxId :
        /\ NextTxId(t)
        /\ transactions' = [transactions EXCEPT ![t] = TransactionOn(l)]
  BY DEF RecordTransaction
<1>2. payment.step = "record" /\ accepted' = accepted /\ command_queue' = command_queue
  BY DEF RecordTransaction, EndPayment, PaymentEnds, vars
<1>3. payment'.step \in {"none", "hold"}
  <2>1. \/ payment' = NoPayment
        \/ \E u \in TxId : payment' = [payment EXCEPT !.step = "hold", !.transaction = u]
    BY DEF RecordTransaction, EndPayment
  <2>2. ASSUME NEW u \in TxId, payment' = [payment EXCEPT !.step = "hold", !.transaction = u]
        PROVE  payment'.step = "hold"
    BY <1>2, <2>2, PaymentTypes
  <2>3. CASE payment' = NoPayment
    BY <2>3 DEF NoPayment
  <2>4. CASE \E u \in TxId : payment' = [payment EXCEPT !.step = "hold", !.transaction = u]
    <3>1. PICK u \in TxId : payment' = [payment EXCEPT !.step = "hold", !.transaction = u]
      BY <2>4
    <3>2. payment'.step = "hold"
      BY <2>2, <3>1
    <3> QED BY <3>2
  <2> QED BY <2>1, <2>3, <2>4
<1>4. ~InHand(a)'
  BY <1>3 DEF InHand
<1>5. /\ transactions'[t] = TransactionOn(l)
      /\ \A u \in TxId : u # t => transactions'[u] = transactions[u]
  BY <1>1 DEF BInv, BankTypeOK
<1>6. t \notin Recorded /\ transactions'[t].account = processor.command.id
  BY <1>1, <1>5 DEF NextTxId, TransactionOn
<1>7. PaidFor(a)' \subseteq PaidFor(a) \cup (IF InHand(a) THEN {t} ELSE {})
  BY <1>2, <1>5, <1>6 DEF PaidFor, Recorded, InHand
<1>8. /\ IsFiniteSet(PaidFor(a)) /\ Cardinality(PaidFor(a)) \in Nat
      /\ Cardinality(Waiting(a)) \in Nat
      /\ MaxAccepted \in Nat /\ accepted[a] \in Nat
  BY CountTypes
<1> DEFINE more == PaidFor(a) \cup {t}
<1>9. /\ IsFiniteSet(more) /\ Cardinality(more) \in Nat
      /\ Cardinality(more) <= Cardinality(PaidFor(a)) + 1
  <2>1. /\ IsFiniteSet(more)
        /\ Cardinality(more) \in {Cardinality(PaidFor(a)), Cardinality(PaidFor(a)) + 1}
    BY <1>8, FS_AddElement
  <2> HIDE DEF more
  <2> QED BY <1>8, <2>1
<1>10. /\ Cardinality(PaidFor(a)') \in Nat
       /\ Cardinality(PaidFor(a)') <= Cardinality(PaidFor(a)) + (IF InHand(a) THEN 1 ELSE 0)
  <2>1. CASE InHand(a)
    <3>1. PaidFor(a)' \subseteq more
      BY <1>7, <2>1
    <3> HIDE DEF more
    <3>2. IsFiniteSet(PaidFor(a)') /\ Cardinality(PaidFor(a)') <= Cardinality(more)
      BY <1>9, <3>1, FS_Subset
    <3>3. Cardinality(PaidFor(a)') \in Nat
      BY <3>2, FS_CardinalityType
    <3> QED BY <1>8, <1>9, <2>1, <3>2, <3>3
  <2>2. CASE ~InHand(a)
    <3>1. PaidFor(a)' \subseteq PaidFor(a)
      BY <1>7, <2>2
    <3>2. IsFiniteSet(PaidFor(a)') /\ Cardinality(PaidFor(a)') <= Cardinality(PaidFor(a))
      BY <1>8, <3>1, FS_Subset
    <3>3. Cardinality(PaidFor(a)') \in Nat
      BY <3>2, FS_CardinalityType
    <3> QED BY <1>8, <2>2, <3>2, <3>3
  <2> QED BY <2>1, <2>2
<1>11. Waiting(a)' = Waiting(a)
  BY <1>2 DEF Waiting
<1>12. /\ accepted[a] <= MaxAccepted
       /\ accepted[a] < MaxAccepted =>
            Cardinality(PaidFor(a)) + Cardinality(Waiting(a)) + (IF InHand(a) THEN 1 ELSE 0)
              <= accepted[a]
  BY DEF PaymentsCounted
<1> HIDE DEF more
<1> QED BY <1>2, <1>4, <1>8, <1>10, <1>11, <1>12

LEMMA CountedStep ==
  ASSUME BInv, BInv', PaymentsCounted, [BankNext]_allVars
  PROVE  PaymentsCounted'
<1> SUFFICES ASSUME NEW a \in AccountIds
             PROVE  /\ accepted'[a] <= MaxAccepted
                    /\ accepted'[a] < MaxAccepted =>
                         Cardinality(PaidFor(a)') + Cardinality(Waiting(a)')
                           + (IF InHand(a)' THEN 1 ELSE 0) <= accepted'[a]
  BY DEF PaymentsCounted, MaxAccepted
<1> DEFINE Goal == /\ accepted'[a] <= MaxAccepted
                   /\ accepted'[a] < MaxAccepted =>
                        Cardinality(PaidFor(a)') + Cardinality(Waiting(a)')
                          + (IF InHand(a)' THEN 1 ELSE 0) <= accepted'[a]
<1>1. ASSUME NEW command \in Command, BankSubmit(command) PROVE Goal
  BY <1>1, SubmitCounted
<1>2. ASSUME UNCHANGED allVars PROVE Goal
  <2>1. /\ UNCHANGED accepted
        /\ PaidFor(a)' = PaidFor(a) /\ Waiting(a)' = Waiting(a) /\ InHand(a)' = InHand(a)
    BY <1>2 DEF allVars, vars, bankVars, PaidFor, Recorded, Waiting, InHand
  <2> QED BY <2>1, NoNewPayment
<1>3. ASSUME SubmitRefused /\ UNCHANGED bankVars PROVE Goal
  BY <1>2, <1>3 DEF SubmitRefused, allVars
<1>4. ASSUME TakePayment PROVE Goal
  BY <1>4, TakePaymentCounted
<1>5. ASSUME TakeOther PROVE Goal
  <2>1. /\ ReceiveCommand /\ processor.step = "idle"
        /\ UNCHANGED <<payment, transactions, accepted>>
    BY <1>5 DEF TakeOther, ReceiveCommand, bankVars
  <2>2. payment = NoPayment
    BY <2>1 DEF BInv, PaymentInv
  <2>3. PaidFor(a)' = PaidFor(a) /\ ~InHand(a)'
    BY <2>1, <2>2 DEF PaidFor, Recorded, InHand, NoPayment
  <2>4. Cardinality(Waiting(a)') <= Cardinality(Waiting(a))
    BY <2>1, WaitingAfterReceive
  <2>5. /\ Cardinality(PaidFor(a)) \in Nat /\ Cardinality(Waiting(a)) \in Nat
        /\ MaxAccepted \in Nat /\ accepted[a] \in Nat
    BY CountTypes
  <2>6. Cardinality(Waiting(a)') \in Nat
    <3>1. Len(command_queue') \in Nat /\ DOMAIN command_queue' = 1..Len(command_queue')
      BY DEF BInv, AInv, TypeOK
    <3>2. IsFiniteSet(DOMAIN command_queue')
      BY <3>1, FS_Interval
    <3> QED BY <3>2, FS_Subset, FS_CardinalityType DEF Waiting
  <2>7. /\ accepted[a] <= MaxAccepted
        /\ accepted[a] < MaxAccepted =>
             Cardinality(PaidFor(a)) + Cardinality(Waiting(a)) + (IF InHand(a) THEN 1 ELSE 0)
               <= accepted[a]
    BY DEF PaymentsCounted
  <2> QED BY <2>1, <2>3, <2>4, <2>5, <2>6, <2>7
<1>6. ASSUME RecordTransaction PROVE Goal
  BY <1>6, RecordCounted
<1>7. ASSUME FindHouseAccount \/ ValidatePayment PROVE Goal
  <2>1. /\ UNCHANGED <<command_queue, transactions, accepted>>
        /\ payment.step \in {"house", "validate"}
        /\ payment'.step = "none" \/ UNCHANGED processor
    <3>1. CASE FindHouseAccount
      <4>1. /\ UNCHANGED <<transactions, accepted>> /\ payment.step = "house"
            /\ UNCHANGED vars \/ EndPayment
        BY <3>1 DEF FindHouseAccount
      <4>2. UNCHANGED command_queue
        BY <4>1 DEF EndPayment, PaymentEnds, vars
      <4>3. payment'.step = "none" \/ UNCHANGED processor
        <5>1. CASE UNCHANGED vars
          BY <5>1 DEF vars
        <5>2. CASE EndPayment
          BY <5>2 DEF EndPayment, NoPayment
        <5> QED BY <4>1, <5>1, <5>2
      <4> QED BY <4>1, <4>2, <4>3
    <3>2. CASE ValidatePayment
      BY <3>2 DEF ValidatePayment, EndPayment, PaymentEnds, vars, NoPayment
    <3> QED BY <1>7, <3>1, <3>2
  <2>2. PaidFor(a)' = PaidFor(a) /\ Waiting(a)' = Waiting(a) /\ (InHand(a)' => InHand(a))
    BY <2>1 DEF PaidFor, Recorded, Waiting, InHand
  <2> QED BY <2>1, <2>2, NoNewPayment
<1>8. ASSUME UnknownAccount \/ PaymentFails PROVE Goal
  <2>1. /\ command_queue' \in {command_queue, <<>>} /\ UNCHANGED <<transactions, accepted>>
        /\ payment'.step = "none"
    BY <1>8 DEF UnknownAccount, PaymentFails, PaymentPanics, EndPayment, PaymentEnds, NoPayment
  <2>2. PaidFor(a)' = PaidFor(a) /\ Waiting(a)' \subseteq Waiting(a) /\ ~InHand(a)'
    BY <2>1 DEF PaidFor, Recorded, Waiting, InHand
  <2> QED BY <2>1, <2>2, NoNewPayment
<1>9. ASSUME NEW t \in Recorded, NEW tx \in Transaction, tx.account = transactions[t].account,
             transactions' = [transactions EXCEPT ![t] = tx],
             UNCHANGED <<command_queue, accepted>>,
             payment'.step = "none" \/ UNCHANGED <<payment, processor>>
      PROVE  Goal
  <2>1. /\ transactions'[t] = tx /\ t \in TxId
        /\ \A u \in TxId : u # t => transactions'[u] = transactions[u]
    BY <1>9 DEF BInv, BankTypeOK, Recorded
  <2>2. PaidFor(a)' \subseteq PaidFor(a)
    BY <1>9, <2>1 DEF PaidFor, Recorded
  <2>3. Waiting(a)' = Waiting(a) /\ (InHand(a)' => InHand(a))
    BY <1>9 DEF Waiting, InHand
  <2> QED BY <1>9, <2>2, <2>3, NoNewPayment
<1>10. ASSUME HoldMoney PROVE Goal
  <2>1. payment.transaction \in Recorded
    BY <1>10 DEF HoldMoney, BInv, PaymentInv
  <2>2. PICK l \in LedgerIds :
          transactions' = [transactions EXCEPT ![payment.transaction].held = @ \cup {l}]
    BY <1>10 DEF HoldMoney
  <2>3. PICK t \in Recorded : t = payment.transaction
    BY <2>1
  <2>4. transactions[t] \in Transaction
    BY RecordedTypes
  <2> DEFINE tx == [transactions[t] EXCEPT !.held = @ \cup {l}]
  <2>5. tx \in Transaction /\ tx.account = transactions[t].account
    BY <2>4 DEF Transaction
  <2>6. transactions' = [transactions EXCEPT ![t] = tx]
    BY <2>2, <2>3
  <2>7. UNCHANGED <<command_queue, accepted>> /\ payment'.step = "none"
    BY <1>10 DEF HoldMoney, EndPayment, PaymentEnds, NoPayment
  <2> HIDE DEF tx, Goal
  <2> QED BY <1>9, <2>5, <2>6, <2>7
<1>11. ASSUME NEW t \in TxId, Settle(t) \/ Complete(t) PROVE Goal
  <2>1. t \in Recorded
    BY <1>11 DEF Settle, Complete, Completable, Recorded
  <2>2. transactions[t] \in Transaction
    BY <2>1, RecordedTypes
  <2>3. /\ [transactions[t] EXCEPT !.settled = @ \cup {transactions[t].ledger}] \in Transaction
        /\ [transactions[t] EXCEPT !.status = "completed"] \in Transaction
    BY <2>2 DEF Transaction
  <2>4. PICK tx \in Transaction : /\ tx.account = transactions[t].account
                                  /\ transactions' = [transactions EXCEPT ![t] = tx]
    <3>1. CASE Settle(t)
      <4> DEFINE tx == [transactions[t] EXCEPT !.settled = @ \cup {transactions[t].ledger}]
      <4>1. transactions' = [transactions EXCEPT ![t] = tx]
        BY <3>1 DEF Settle
      <4>2. tx \in Transaction /\ tx.account = transactions[t].account
        BY <2>2, <2>3 DEF Transaction
      <4> HIDE DEF tx
      <4> QED BY <4>1, <4>2
    <3>2. CASE Complete(t)
      <4> DEFINE tx == [transactions[t] EXCEPT !.status = "completed"]
      <4>1. transactions' = [transactions EXCEPT ![t] = tx]
        BY <3>2 DEF Complete
      <4>2. tx \in Transaction /\ tx.account = transactions[t].account
        BY <2>2, <2>3 DEF Transaction
      <4> HIDE DEF tx
      <4> QED BY <4>1, <4>2
    <3> QED BY <1>11, <3>1, <3>2
  <2>5. UNCHANGED <<command_queue, accepted, payment, processor>>
    BY <1>11 DEF Settle, Complete, vars
  <2> HIDE DEF Goal
  <2> QED BY <1>9, <2>1, <2>4, <2>5
<1>12. ASSUME ApprovalInitsLedger \/ AccountStep PROVE Goal
  <2>1. UNCHANGED <<command_queue, payment, transactions, accepted>>
    BY <1>12 DEF ApprovalInitsLedger, AccountStep, bankVars, InitLedger, ValidateCreation,
       CommitOpened, Dispatch, FindAccount, CreateLedgerView, CommitApproved, HouseStep,
       InitHouseLedger, CreateHouseLedgerView, CreateHouseAccount
  <2>2. processor.step # "pay" \/ UNCHANGED processor
    BY <1>12 DEF ApprovalInitsLedger, AccountStep, InitLedger, ValidateCreation, CommitOpened,
       Dispatch, FindAccount, CreateLedgerView, CommitApproved, HouseStep, InitHouseLedger,
       CreateHouseLedgerView, CreateHouseAccount
  <2>3. InHand(a)' => InHand(a)
    <3>1. CASE UNCHANGED processor
      BY <2>1, <3>1 DEF InHand
    <3>2. CASE processor.step # "pay"
      <4>1. payment = NoPayment
        BY <3>2 DEF BInv, PaymentInv
      <4> QED BY <2>1, <4>1 DEF InHand, NoPayment
    <3> QED BY <2>2, <3>1, <3>2
  <2>4. PaidFor(a)' = PaidFor(a) /\ Waiting(a)' = Waiting(a)
    BY <2>1 DEF PaidFor, Recorded, Waiting
  <2> QED BY <2>1, <2>3, <2>4, NoNewPayment
<1>13. ASSUME BankFault PROVE Goal
  <2>1. /\ command_queue' \in {command_queue, <<>>}
        /\ UNCHANGED <<transactions, accepted>>
        /\ payment' = IF processor'.step = "pay" THEN payment ELSE NoPayment
    BY <1>13 DEF BankFault, Fault, CommandFails, DispatchFails, HouseRequestFails, Crash
  <2>2. processor' = processor \/ processor'.step # "pay"
    BY <1>13 DEF BankFault, Fault, CommandFails, AfterFailedInit, DispatchFails, GoTo,
       HouseRequestFails, Crash, IdleProcessor, BInv, AInv, TypeOK
  <2>3. InHand(a)' => InHand(a)
    BY <2>1, <2>2 DEF InHand, NoPayment
  <2>4. PaidFor(a)' = PaidFor(a) /\ Waiting(a)' \subseteq Waiting(a)
    BY <2>1 DEF PaidFor, Recorded, Waiting
  <2> QED BY <2>1, <2>3, <2>4, NoNewPayment
<1> HIDE DEF Goal
<1>14. Goal
  BY <1>1, <1>2, <1>3, <1>4, <1>5, <1>6, <1>7, <1>8, <1>10, <1>11, <1>12, <1>13
    DEF BankNext, PaymentStep
<1> QED BY <1>14 DEF Goal

(* No payment is recorded more often than it was accepted: the channel     *)
(* gives each command to the processor once, the processor records it at   *)
(* most once, and nothing puts it back.                                    *)
THEOREM NoPaymentTwiceAlways == BankSpec => []NoPaymentTwice
<1>1. BankSpec => []PaymentsCounted
  BY CountedInit, CountedStep, BankInvariant, PTL DEF BankSpec
<1>2. BInv /\ PaymentsCounted => NoPaymentTwice
  <2> SUFFICES ASSUME BInv, PaymentsCounted, NEW a \in AccountIds
               PROVE  Cardinality(PaidFor(a)) <= accepted[a]
    BY DEF NoPaymentTwice, PaidFor
  <2>1. /\ Cardinality(PaidFor(a)) \in Nat /\ Cardinality(Waiting(a)) \in Nat
        /\ Cardinality(PaidFor(a)) <= MaxAccepted
        /\ MaxAccepted \in Nat /\ accepted[a] \in Nat
    BY CountTypes
  <2>2. /\ accepted[a] <= MaxAccepted
        /\ accepted[a] < MaxAccepted =>
             Cardinality(PaidFor(a)) + Cardinality(Waiting(a)) + (IF InHand(a) THEN 1 ELSE 0)
               <= accepted[a]
    BY DEF PaymentsCounted
  <2> QED BY <2>1, <2>2
<1> QED BY <1>1, <1>2, BankInvariant, PTL
=============================================================================
