------------------------------ MODULE Accounts ------------------------------
(***************************************************************************)
(* Bank accounts and house accounts: how they come to exist, and how an    *)
(* account gets its ledger.                                                *)
(*                                                                         *)
(* The processor of Payments executes OpenAccount and ApproveAccount too.  *)
(* Each command writes several things in database transactions of their    *)
(* own: the account's events, its row in bank_account_views, the ledger's  *)
(* first event, the ledger's row in ledger_views.  A call that fails or a  *)
(* crash in between leaves a part of them.  Requests for house accounts    *)
(* are served by the HTTP handlers themselves, any number at a time.       *)
(*                                                                         *)
(* The processor is the only writer of an account's events and row, so     *)
(* loading the aggregate or the row and writing it back is one step.       *)
(***************************************************************************)
EXTENDS Integers, Sequences, FiniteSets, SequencesExt

CONSTANTS
  Holders,      \* combinations of user, currency and kind of account
  AccountIds,
  LedgerIds,
  HouseIds,
  HouseKinds,   \* combinations of account_type, currency and status
  MaxQueue,     \* bound: commands waiting in the (unbounded) channel
  MaxFaults     \* bound: failed calls and crashes

NoHolder == "no holder"
NoLedger == "no ledger"
NoAccount == "no account"
NoHouse == "no house account"

ASSUME AccountsAssumption ==
  /\ AccountIds \cap HouseIds = {}
  /\ NoHolder \notin Holders /\ NoLedger \notin LedgerIds
  /\ NoAccount \notin AccountIds \cup HouseIds /\ NoHouse \notin HouseKinds
  /\ MaxQueue \in Nat /\ MaxFaults \in Nat

VARIABLES
  bank_account_events,   \* table bank_account_events: the log of each account
  bank_account_views,    \* table bank_account_views
  ledger_events,         \* the account_id in each ledger's LedgerInitiated
  ledger_views,          \* ledgers with a row in ledger_views
  house_accounts,        \* table house_accounts: kind and ledger of each
  requests,              \* the request that creates each house account
  command_queue,
  processor,
  faults

vars == <<bank_account_events, bank_account_views, ledger_events, ledger_views,
          house_accounts, requests, command_queue, processor, faults>>

accountVars == <<bank_account_events, bank_account_views>>
ledgerVars == <<ledger_events, ledger_views>>
houseVars == <<house_accounts, requests>>

AccountOpened(holder) == [type |-> "AccountOpened", holder |-> holder]

AccountKycApproved(ledger) == [type |-> "AccountKycApproved", ledger_id |-> ledger]

AccountEvent ==
  {AccountOpened(h) : h \in Holders} \cup {AccountKycApproved(l) : l \in LedgerIds}

(* BankAccountView; a row that does not exist is NoView, and its default. *)
NoView == [status |-> "none", holder |-> NoHolder, ledger_id |-> NoLedger]

View ==
  [status: {"Pending", "Approved"}, holder: Holders, ledger_id: LedgerIds \cup {NoLedger}]

Command ==
  [type: {"OpenAccount"}, id: AccountIds, holder: Holders]
    \cup [type: {"ApproveAccount", "Payment"}, id: AccountIds]

NoCommand == [type |-> "none", id |-> NoAccount]

IdleProcessor == [step |-> "idle", command |-> NoCommand, ledger |-> NoLedger]

NoRequest == [step |-> "none", ledger |-> NoLedger]

TypeOK ==
  /\ bank_account_events \in [AccountIds -> Seq(AccountEvent)]
  /\ bank_account_views \in [AccountIds -> View \cup {NoView}]
  /\ ledger_events \in [LedgerIds -> AccountIds \cup HouseIds \cup {NoAccount}]
  /\ ledger_views \subseteq LedgerIds
  /\ house_accounts \in [HouseIds -> [kind: HouseKinds \cup {NoHouse},
                                      ledger_id: LedgerIds \cup {NoLedger}]]
  /\ requests \in [HouseIds -> [step: {"none", "initiated", "viewed", "answered"},
                                ledger: LedgerIds \cup {NoLedger}]]
  /\ command_queue \in Seq(Command)
  /\ processor \in [step: {"idle", "validate", "open", "opened", "find", "init",
                           "initiated", "approve", "approved", "pay", "dead"},
                    command: Command \cup {NoCommand},
                    ledger: LedgerIds \cup {NoLedger}]
  /\ faults \in 0..MaxFaults

Init ==
  /\ bank_account_events = [a \in AccountIds |-> <<>>]
  /\ bank_account_views = [a \in AccountIds |-> NoView]
  /\ ledger_events = [l \in LedgerIds |-> NoAccount]
  /\ ledger_views = {}
  /\ house_accounts = [h \in HouseIds |-> [kind |-> NoHouse, ledger_id |-> NoLedger]]
  /\ requests = [h \in HouseIds |-> NoRequest]
  /\ command_queue = <<>>
  /\ processor = IdleProcessor
  /\ faults = 0

-----------------------------------------------------------------------------
(* The command channel.                                                    *)

Queued(type) == {i \in DOMAIN command_queue : command_queue[i].type = type}

(* Uuids nobody has seen. *)
NewAccountId(a) ==
  /\ bank_account_events[a] = <<>>
  /\ \A i \in DOMAIN command_queue : command_queue[i].id # a
  /\ processor.command.id # a

NewLedgerId(l) == ledger_events[l] = NoAccount /\ processor.ledger # l

(* Bound: ledger ids left for the approvals under way. *)
LedgersLeft ==
  Cardinality({l \in LedgerIds : NewLedgerId(l)}) - Cardinality(Queued("ApproveAccount"))
    - (IF processor.step = "find" THEN 1 ELSE 0)

(* CommandExtractor gives OpenAccount a new id; the other commands name    *)
(* any id.  The handler answers as soon as the channel has the command.    *)
Submit(command) ==
  /\ processor.step # "dead"
  /\ Len(command_queue) < MaxQueue
  /\ command.type = "OpenAccount" => NewAccountId(command.id)
  /\ command.type = "ApproveAccount" => LedgersLeft > 0
  /\ command_queue' = Append(command_queue, command)
  /\ UNCHANGED <<accountVars, ledgerVars, houseVars, processor, faults>>

(* The receiver went with the processor: send fails, the answer is 400. *)
SubmitRefused ==
  /\ processor.step = "dead"
  /\ UNCHANGED vars

FirstStep(command) ==
  CASE command.type = "OpenAccount"    -> "validate"
    [] command.type = "ApproveAccount" -> "find"
    [] command.type = "Payment"        -> "pay"

(* Mutant of ReceiveCommand: a stack instead of a channel. *)
ReceiveNewest ==
  /\ processor.step = "idle"
  /\ command_queue # <<>>
  /\ command_queue' = Front(command_queue)
  /\ processor' = [IdleProcessor EXCEPT !.step = FirstStep(Last(command_queue)),
                                        !.command = Last(command_queue)]
  /\ UNCHANGED <<accountVars, ledgerVars, houseVars, faults>>

ReceiveCommand ==
  /\ processor.step = "idle"
  /\ command_queue # <<>>
  /\ command_queue' = Tail(command_queue)
  /\ processor' = [IdleProcessor EXCEPT !.step = FirstStep(Head(command_queue)),
                                        !.command = Head(command_queue)]
  /\ UNCHANGED <<accountVars, ledgerVars, houseVars, faults>>

GoTo(step) == processor' = [processor EXCEPT !.step = step]

(* A deposit or a withdrawal, as far as Payments leaves it out: on an      *)
(* account that exists, or in a currency without a house account, it       *)
(* changes nothing here.                                                   *)
PaymentEnds ==
  /\ processor.step = "pay"
  /\ processor' = IdleProcessor
  /\ UNCHANGED <<accountVars, ledgerVars, houseVars, command_queue, faults>>

(* The aggregate of an id without events has the id "", which is no uuid: *)
(* the unwrap ends the processor, and the channel goes with it.           *)
PaymentPanics ==
  /\ processor.step = "pay"
  /\ bank_account_events[processor.command.id] = <<>>
  /\ processor' = [IdleProcessor EXCEPT !.step = "dead"]
  /\ command_queue' = <<>>
  /\ UNCHANGED <<accountVars, ledgerVars, houseVars, faults>>

-----------------------------------------------------------------------------
(* OpenAccount.                                                            *)

(* Mutant of Counted: accounts that wait for approval are not counted. *)
CountedApproved(view, holder) == view.holder = holder /\ view.status = "Approved"

(* The rows validate_bank_account_exists counts. *)
Counted(view, holder) ==
  view.holder = holder /\ view.status \in {"Pending", "Approved"}

ValidateCreation ==
  /\ processor.step = "validate"
  /\ LET new == /\ bank_account_views[processor.command.id] = NoView
                /\ \A a \in AccountIds :
                     ~Counted(bank_account_views[a], processor.command.holder)
     IN  processor' = IF new THEN [processor EXCEPT !.step = "open"] ELSE IdleProcessor
  /\ UNCHANGED <<accountVars, ledgerVars, houseVars, command_queue, faults>>

CommitEvent(event) ==
  bank_account_events' = [bank_account_events EXCEPT ![processor.command.id] = Append(@, event)]

(* Mutant of Update: an approved row keeps its first ledger. *)
UpdateKeepsLedger(view, event) ==
  IF event.type = "AccountOpened"
  THEN [status |-> "Pending", holder |-> event.holder, ledger_id |-> view.ledger_id]
  ELSE [view EXCEPT !.status = "Approved",
                    !.ledger_id = IF @ = NoLedger THEN event.ledger_id ELSE @]

(* BankAccountView::update; BankAccount::apply does the same. *)
Update(view, event) ==
  IF event.type = "AccountOpened"
  THEN [status |-> "Pending", holder |-> event.holder, ledger_id |-> view.ledger_id]
  ELSE [view EXCEPT !.status = "Approved", !.ledger_id = event.ledger_id]

DispatchEvent ==
  LET id == processor.command.id IN
  bank_account_views' =
    [bank_account_views EXCEPT ![id] = Update(@, Last(bank_account_events[id]))]

CommitOpened ==
  /\ processor.step = "open"
  /\ CommitEvent(AccountOpened(processor.command.holder))
  /\ GoTo("opened")
  /\ UNCHANGED <<bank_account_views, ledgerVars, houseVars, command_queue, faults>>

(* Either kind of event, once committed. *)
Dispatch ==
  /\ processor.step \in {"opened", "approved"}
  /\ DispatchEvent
  /\ processor' = IdleProcessor
  /\ UNCHANGED <<bank_account_events, ledgerVars, houseVars, command_queue, faults>>

-----------------------------------------------------------------------------
(* ApproveAccount.                                                         *)

(* Mutant of Known: an account without a row is approved as well. *)
KnownOrNot(a) == TRUE

(* get_bank_account finds the row. *)
Known(a) == bank_account_views[a] # NoView

FindAccount ==
  /\ processor.step = "find"
  /\ IF Known(processor.command.id)
     THEN \E l \in LedgerIds :
            /\ NewLedgerId(l)
            /\ processor' = [processor EXCEPT !.step = "init", !.ledger = l]
     ELSE processor' = IdleProcessor
  /\ UNCHANGED <<accountVars, ledgerVars, houseVars, command_queue, faults>>

(* Mutant of InitLedger: nothing dispatches the event to a row. *)
InitLedgerUndispatched ==
  /\ processor.step = "init"
  /\ ledger_events' = [ledger_events EXCEPT ![processor.ledger] = processor.command.id]
  /\ GoTo("approve")
  /\ UNCHANGED <<accountVars, ledger_views, houseVars, command_queue, faults>>

(* LedgerCommand::Init: commit, then dispatch to the new row. *)
InitLedger ==
  /\ processor.step = "init"
  /\ ledger_events' = [ledger_events EXCEPT ![processor.ledger] = processor.command.id]
  /\ GoTo("initiated")
  /\ UNCHANGED <<accountVars, ledger_views, houseVars, command_queue, faults>>

CreateLedgerView ==
  /\ processor.step = "initiated"
  /\ ledger_views' = ledger_views \cup {processor.ledger}
  /\ GoTo("approve")
  /\ UNCHANGED <<accountVars, ledger_events, houseVars, command_queue, faults>>

CommitApproved ==
  /\ processor.step = "approve"
  /\ CommitEvent(AccountKycApproved(processor.ledger))
  /\ GoTo("approved")
  /\ UNCHANGED <<bank_account_views, ledgerVars, houseVars, command_queue, faults>>

-----------------------------------------------------------------------------
(* house_account_create_handler, the request that makes house account h.   *)

InitHouseLedger(h) ==
  /\ requests[h].step = "none"
  /\ LedgersLeft > 0
  /\ \E l \in LedgerIds :
       /\ NewLedgerId(l)
       /\ ledger_events' = [ledger_events EXCEPT ![l] = h]
       /\ requests' = [requests EXCEPT ![h] = [step |-> "initiated", ledger |-> l]]
  /\ UNCHANGED <<accountVars, ledger_views, house_accounts, command_queue, processor, faults>>

CreateHouseLedgerView(h) ==
  /\ requests[h].step = "initiated"
  /\ ledger_views' = ledger_views \cup {requests[h].ledger}
  /\ requests' = [requests EXCEPT ![h].step = "viewed"]
  /\ UNCHANGED <<accountVars, ledger_events, house_accounts, command_queue, processor, faults>>

(* Mutant of KindFree: the unique constraint is not there. *)
KindUnconstrained(kind) == TRUE

(* unique_account_type_currency_status *)
KindFree(kind) == \A h \in HouseIds : house_accounts[h].kind # kind

(* create_house_account inserts the row, or the constraint refuses it and *)
(* the ledger stays behind.                                               *)
CreateHouseAccount(h) ==
  /\ requests[h].step = "viewed"
  /\ \E kind \in HouseKinds :
       house_accounts' =
         IF KindFree(kind)
         THEN [house_accounts EXCEPT ![h] = [kind |-> kind, ledger_id |-> requests[h].ledger]]
         ELSE house_accounts
  /\ requests' = [requests EXCEPT ![h].step = "answered"]
  /\ UNCHANGED <<accountVars, ledgerVars, command_queue, processor, faults>>

-----------------------------------------------------------------------------
(* Mutant of AfterFailedInit: the `?` behind init_ledger is forgotten. *)
ApproveAnyway == [processor EXCEPT !.step = "approve"]

(* "ledger write failed": the command is over. *)
AfterFailedInit == IdleProcessor

(* The database refuses a validation query, a lookup or a commit, *)
CommandFails ==
  /\ processor.step \in {"validate", "open", "find", "init", "approve"}
  /\ processor' = IF processor.step = "init" THEN AfterFailedInit ELSE IdleProcessor
  /\ UNCHANGED <<accountVars, ledgerVars, houseVars, command_queue>>

(* or the write of a row that follows a commit, which is logged. *)
DispatchFails ==
  /\ \/ processor.step = "initiated" /\ GoTo("approve")
     \/ processor.step \in {"opened", "approved"} /\ processor' = IdleProcessor
  /\ UNCHANGED <<accountVars, ledgerVars, houseVars, command_queue>>

HouseRequestFails(h) ==
  /\ \/ /\ requests[h].step \in {"none", "viewed"}
        /\ requests' = [requests EXCEPT ![h].step = "answered"]
     \/ /\ requests[h].step = "initiated"
        /\ requests' = [requests EXCEPT ![h].step = "viewed"]
  /\ UNCHANGED <<accountVars, ledgerVars, house_accounts, command_queue, processor>>

(* Mutant of Crash: the command at work is delivered again. *)
CrashRedelivers ==
  /\ command_queue' = IF processor.step = "pay" THEN <<processor.command>> ELSE <<>>
  /\ processor' = IdleProcessor
  /\ requests' = [h \in HouseIds |-> IF requests[h].step = "none" THEN requests[h]
                                     ELSE [requests[h] EXCEPT !.step = "answered"]]
  /\ UNCHANGED <<accountVars, ledgerVars, house_accounts>>

(* The process dies and is started again: queue and requests are gone. *)
Crash ==
  /\ command_queue' = <<>>
  /\ processor' = IdleProcessor
  /\ requests' = [h \in HouseIds |-> IF requests[h].step = "none" THEN requests[h]
                                     ELSE [requests[h] EXCEPT !.step = "answered"]]
  /\ UNCHANGED <<accountVars, ledgerVars, house_accounts>>

Fault ==
  /\ faults < MaxFaults
  /\ faults' = faults + 1
  /\ CommandFails \/ DispatchFails \/ Crash \/ \E h \in HouseIds : HouseRequestFails(h)

ProcessorStep ==
  \/ ReceiveCommand \/ PaymentEnds \/ PaymentPanics
  \/ ValidateCreation \/ CommitOpened \/ Dispatch
  \/ FindAccount \/ InitLedger \/ CreateLedgerView \/ CommitApproved

HouseStep(h) ==
  InitHouseLedger(h) \/ CreateHouseLedgerView(h) \/ CreateHouseAccount(h)

Next ==
  \/ \E command \in Command : Submit(command)
  \/ SubmitRefused
  \/ ProcessorStep
  \/ \E h \in HouseIds : HouseStep(h)
  \/ Fault

Spec == Init /\ [][Next]_vars

(* Tokio keeps polling the processor; nobody has to send a request. *)
FairSpec == Spec /\ WF_vars(ProcessorStep)

-----------------------------------------------------------------------------
(* Properties.                                                             *)

Opened(holder) ==
  {a \in AccountIds : AccountOpened(holder) \in Range(bank_account_events[a])}

(* The ledger an approval names was initiated before it, for that account, *)
(* wherever a call fails or a crash falls: no approval points at a ledger  *)
(* without events, or at one that another account or a house account has.  *)
ApprovedLedgerExists ==
  \A a \in AccountIds, l \in LedgerIds :
    AccountKycApproved(l) \in Range(bank_account_events[a]) => ledger_events[l] = a

(* An account's row may lag behind its events, for good when a dispatch    *)
(* failed, but it always shows a state the account was in, never a mixture *)
(* of events with one of them missing.                                     *)
ViewIsPast ==
  \A a \in AccountIds :
    bank_account_views[a] # NoView =>
      \E n \in DOMAIN bank_account_events[a] :
        bank_account_views[a] =
          FoldLeft(Update, NoView, SubSeq(bank_account_events[a], 1, n))

(* The check in OpenAccount and the single processor keep the rows of a    *)
(* holder unique, also after faults: an account whose row was lost never   *)
(* gets one.                                                               *)
OneViewPerHolder ==
  \A a, b \in AccountIds :
    /\ bank_account_views[a] # NoView
    /\ bank_account_views[b] # NoView
    /\ bank_account_views[a].holder = bank_account_views[b].holder
    => a = b

(* The accounts themselves are not unique, as the check looks at rows: a   *)
(* second one can be opened after the first lost its row, which takes a    *)
(* fault each time.                                                        *)
DuplicatesNeedFaults ==
  \A h \in Holders : Cardinality(Opened(h)) <= 1 + faults

(* get_house_account finds at most one row of a kind (it takes the first), *)
(* and the ledger of every house account was initiated for it, with any    *)
(* number of requests at once.                                             *)
HouseAccountsOwnLedgers ==
  \A h \in HouseIds :
    house_accounts[h].kind # NoHouse =>
      /\ ledger_events[house_accounts[h].ledger_id] = h
      /\ \A g \in HouseIds : house_accounts[g].kind = house_accounts[h].kind => g = h

(* An approval that was accepted for an account with a row is carried out  *)
(* unless a call fails or the process crashes from then on, or the         *)
(* processor dies of another client's command.                             *)
ApprovalHappens ==
  \A a \in AccountIds, n \in 0..MaxFaults :
    /\ [type |-> "ApproveAccount", id |-> a] \in Range(command_queue)
    /\ Known(a)
    /\ faults = n
    ~> \/ bank_account_views[a].status = "Approved"
       \/ processor.step = "dead"
       \/ faults > n
=============================================================================
