--------------------------- MODULE AccountsProofs ---------------------------
(***************************************************************************)
(* Theorems about Accounts, for every set of accounts, holders, ledgers    *)
(* and requests for house accounts, and any number of faults.              *)
(***************************************************************************)
EXTENDS Accounts, SequenceTheorems, FiniteSetTheorems, FoldLemmas, TLAPS

-----------------------------------------------------------------------------
(* The inductive invariant.                                                *)

OpenCommand == [type: {"OpenAccount"}, id: AccountIds, holder: Holders]

Approving == {"init", "initiated", "approve", "approved"}

(* How far the processor is.  From the check of an account's holder to the *)
(* account's row there is no row of that holder; from the lookup of an     *)
(* approval's account on its row is there; and the approval's ledger is    *)
(* free until InitLedger and the account's from then on.                   *)
ProcessorInv ==
  /\ processor.step \in {"validate", "open", "opened"} => processor.command \in OpenCommand
  /\ processor.step \in Approving \cup {"find", "pay"} => processor.command.id \in AccountIds
  /\ processor.step \in {"open", "opened"} =>
       \A a \in AccountIds : bank_account_views[a].holder # processor.command.holder
  /\ processor.step = "opened" =>
       /\ bank_account_events[processor.command.id] # <<>>
       /\ Last(bank_account_events[processor.command.id])
            = AccountOpened(processor.command.holder)
  /\ processor.step \in Approving =>
       /\ processor.ledger \in LedgerIds
       /\ bank_account_views[processor.command.id] # NoView
  /\ processor.step = "init" => ledger_events[processor.ledger] = NoAccount
  /\ processor.step \in {"initiated", "approve"} =>
       ledger_events[processor.ledger] = processor.command.id
  /\ processor.step = "approved" =>
       /\ bank_account_events[processor.command.id] # <<>>
       /\ Last(bank_account_events[processor.command.id])
            = AccountKycApproved(processor.ledger)

(* A request that has initiated its ledger still has it. *)
RequestInv ==
  \A h \in HouseIds :
    requests[h].step \in {"initiated", "viewed"} =>
      /\ requests[h].ledger \in LedgerIds
      /\ ledger_events[requests[h].ledger] = h

(* A house account has its ledger, and its kind for itself. *)
HouseInv ==
  /\ \A h \in HouseIds :
       house_accounts[h].kind # NoHouse =>
         /\ house_accounts[h].ledger_id \in LedgerIds
         /\ ledger_events[house_accounts[h].ledger_id] = h
  /\ \A g, h \in HouseIds :
       house_accounts[h].kind # NoHouse /\ house_accounts[g].kind = house_accounts[h].kind
         => g = h

AInv ==
  /\ TypeOK
  /\ ApprovedLedgerExists
  /\ OneViewPerHolder
  /\ ProcessorInv
  /\ RequestInv
  /\ HouseInv

-----------------------------------------------------------------------------
LEMMA AInit == Init => AInv
<1> SUFFICES ASSUME Init PROVE AInv
  OBVIOUS
<1> USE DEF Init
<1>1. TypeOK
  <2>1. /\ IdleProcessor.step = "idle" /\ IdleProcessor.command = NoCommand
        /\ IdleProcessor.ledger = NoLedger
    BY DEF IdleProcessor
  <2>2. bank_account_events \in [AccountIds -> Seq(AccountEvent)]
    OBVIOUS
  <2>3. command_queue \in Seq(Command)
    OBVIOUS
  <2> QED BY <2>2, <2>3, AccountsAssumption DEF TypeOK, IdleProcessor, NoRequest
<1>2. ApprovedLedgerExists
  BY DEF ApprovedLedgerExists, Range
<1>3. OneViewPerHolder
  BY DEF OneViewPerHolder
<1>4. ProcessorInv /\ RequestInv /\ HouseInv
  BY DEF ProcessorInv, RequestInv, HouseInv, IdleProcessor, NoRequest, Approving
<1> QED BY <1>1, <1>2, <1>3, <1>4 DEF AInv

-----------------------------------------------------------------------------
(* Parts that a step leaves alone.                                         *)

LEMMA LedgersStay ==
  ASSUME AInv, UNCHANGED <<bank_account_events, ledger_events>>
  PROVE  ApprovedLedgerExists'
BY DEF AInv, ApprovedLedgerExists

LEMMA RowsStay ==
  ASSUME AInv, UNCHANGED bank_account_views
  PROVE  OneViewPerHolder'
BY DEF AInv, OneViewPerHolder

LEMMA RequestsStay ==
  ASSUME AInv, UNCHANGED <<requests, ledger_events>>
  PROVE  RequestInv'
BY DEF AInv, RequestInv

LEMMA HousesStay ==
  ASSUME AInv, UNCHANGED <<house_accounts, ledger_events>>
  PROVE  HouseInv'
BY DEF AInv, HouseInv

LEMMA ProcessorStays ==
  ASSUME AInv, UNCHANGED <<bank_account_events, bank_account_views, ledger_events, processor>>
  PROVE  ProcessorInv'
BY DEF AInv, ProcessorInv

(* A ledger that was free is taken by a. *)
LEMMA LedgerTaken ==
  ASSUME AInv, NEW l \in LedgerIds, NEW a \in AccountIds \cup HouseIds,
         ledger_events[l] = NoAccount,
         ledger_events' = [ledger_events EXCEPT ![l] = a]
  PROVE  /\ ledger_events'[l] = a
         /\ \A m \in LedgerIds : ledger_events[m] # NoAccount =>
              ledger_events'[m] = ledger_events[m]
         /\ \A m \in LedgerIds : m # l => ledger_events'[m] = ledger_events[m]
         /\ ledger_events' \in [LedgerIds -> AccountIds \cup HouseIds \cup {NoAccount}]
BY DEF AInv, TypeOK

(* What holds of taken ledgers goes on to hold. *)
LEMMA TakenStay ==
  ASSUME AInv, UNCHANGED <<bank_account_events, house_accounts>>,
         \A m \in LedgerIds : ledger_events[m] # NoAccount =>
           ledger_events'[m] = ledger_events[m]
  PROVE  ApprovedLedgerExists' /\ HouseInv'
<1> USE AccountsAssumption DEF AInv
<1>1. ApprovedLedgerExists'
  BY DEF ApprovedLedgerExists
<1>2. HouseInv'
  BY DEF HouseInv
<1> QED BY <1>1, <1>2

(* The log of the processor's account grows by an event. *)
LEMMA LogGrows ==
  ASSUME AInv, processor.command.id \in AccountIds, NEW event \in AccountEvent,
         CommitEvent(event)
  PROVE  /\ bank_account_events' \in [AccountIds -> Seq(AccountEvent)]
         /\ bank_account_events'[processor.command.id] # <<>>
         /\ Last(bank_account_events'[processor.command.id]) = event
         /\ \A a \in AccountIds :
              Range(bank_account_events'[a]) \subseteq
                Range(bank_account_events[a])
                  \cup (IF a = processor.command.id THEN {event} ELSE {})
<1> DEFINE id == processor.command.id
           log == bank_account_events[id]
           new == Append(log, event)
<1>1. log \in Seq(AccountEvent)
  BY DEF AInv, TypeOK
<1>2. /\ new \in Seq(AccountEvent) /\ Len(new) = Len(log) + 1
      /\ new[Len(log) + 1] = event
      /\ \A i \in 1..Len(log) : new[i] = log[i]
  BY <1>1, AppendProperties
<1>3. DOMAIN new = 1..(Len(log) + 1) /\ DOMAIN log = 1..Len(log) /\ Len(log) \in Nat
  BY <1>1, <1>2
<1>4. bank_account_events' = [bank_account_events EXCEPT ![id] = new]
  BY DEF CommitEvent
<1>5. /\ bank_account_events'[id] = new
      /\ \A a \in AccountIds : a # id => bank_account_events'[a] = bank_account_events[a]
      /\ bank_account_events' \in [AccountIds -> Seq(AccountEvent)]
  BY <1>2, <1>4 DEF AInv, TypeOK
<1>6. Last(new) = event /\ new # <<>>
  BY <1>2, <1>3 DEF Last
<1>7. Range(new) \subseteq Range(log) \cup {event}
  <2> SUFFICES ASSUME NEW i \in DOMAIN new PROVE new[i] \in Range(log) \cup {event}
    BY DEF Range
  <2>1. CASE i = Len(log) + 1
    BY <1>2, <2>1
  <2>2. CASE i \in 1..Len(log)
    BY <1>2, <1>3, <2>2 DEF Range
  <2> QED BY <1>3, <2>1, <2>2
<1> HIDE DEF new, log
<1> QED BY <1>5, <1>6, <1>7 DEF log

-----------------------------------------------------------------------------
(* The command channel.                                                    *)

LEMMA SubmitInv ==
  ASSUME AInv, NEW command \in Command, Submit(command)
  PROVE  AInv'
<1> USE DEF Submit, accountVars, ledgerVars, houseVars
<1>1. command_queue' \in Seq(Command)
  BY AppendProperties DEF AInv, TypeOK
<1>2. TypeOK'
  BY <1>1 DEF AInv, TypeOK
<1> QED BY <1>2, LedgersStay, RowsStay, RequestsStay, HousesStay, ProcessorStays DEF AInv

LEMMA ReceiveCommandInv ==
  ASSUME AInv, ReceiveCommand
  PROVE  AInv'
<1> USE DEF ReceiveCommand, accountVars, ledgerVars, houseVars
<1>1. Head(command_queue) \in Command /\ Tail(command_queue) \in Seq(Command)
  BY HeadTailProperties DEF AInv, TypeOK
<1>2. PICK command \in Command :
        /\ processor' = [step |-> FirstStep(command), command |-> command, ledger |-> NoLedger]
        /\ processor'.step = FirstStep(command) /\ processor'.command = command
  BY <1>1 DEF IdleProcessor
<1>3. \/ FirstStep(command) = "validate" /\ command \in OpenCommand
      \/ FirstStep(command) \in {"find", "pay"} /\ command.id \in AccountIds
  BY DEF Command, FirstStep, OpenCommand
<1>4. TypeOK'
  BY <1>1, <1>2, <1>3 DEF AInv, TypeOK
<1>5. ProcessorInv'
  <2>1. CASE FirstStep(command) = "validate" /\ command \in OpenCommand
    <3>1. processor'.step = "validate" /\ processor'.command \in OpenCommand
      BY <1>2, <2>1
    <3> QED BY <3>1 DEF ProcessorInv, Approving
  <2>2. CASE FirstStep(command) \in {"find", "pay"} /\ command.id \in AccountIds
    <3>1. processor'.step \in {"find", "pay"} /\ processor'.command.id \in AccountIds
      BY <1>2, <2>2
    <3> QED BY <3>1 DEF ProcessorInv, Approving
  <2> QED BY <1>3, <2>1, <2>2
<1> QED BY <1>4, <1>5, LedgersStay, RowsStay, RequestsStay, HousesStay DEF AInv

(* The processor drops its command; requests may end. *)
LEMMA ToIdle ==
  ASSUME AInv, UNCHANGED <<accountVars, ledgerVars, houseVars>>,
         processor' \in {IdleProcessor, [IdleProcessor EXCEPT !.step = "dead"]},
         command_queue' \in {command_queue, <<>>}, faults' \in 0..MaxFaults
  PROVE  AInv'
<1> USE DEF accountVars, ledgerVars, houseVars
<1>1. /\ processor'.step \in {"idle", "dead"} /\ processor'.command = NoCommand
      /\ processor' \in [step: {"idle", "dead"}, command: {NoCommand}, ledger: {NoLedger}]
  BY DEF IdleProcessor
<1>2. command_queue' \in Seq(Command)
  <2>1. command_queue \in Seq(Command)
    BY DEF AInv, TypeOK
  <2>2. <<>> \in Seq(Command)
    OBVIOUS
  <2> QED BY <2>1, <2>2
<1>3. TypeOK'
  <2>1. processor' \in [step: {"idle", "validate", "open", "opened", "find", "init",
                               "initiated", "approve", "approved", "pay", "dead"},
                        command: Command \cup {NoCommand},
                        ledger: LedgerIds \cup {NoLedger}]
    BY <1>1
  <2> QED BY <1>2, <2>1 DEF AInv, TypeOK
<1>4. ProcessorInv'
  BY <1>1 DEF ProcessorInv, Approving
<1> QED BY <1>3, <1>4, LedgersStay, RowsStay, RequestsStay, HousesStay DEF AInv

-----------------------------------------------------------------------------
(* OpenAccount.                                                            *)

LEMMA ValidateCreationInv ==
  ASSUME AInv, ValidateCreation
  PROVE  AInv'
<1> USE DEF ValidateCreation, accountVars, ledgerVars, houseVars
<1>1. CASE processor' = IdleProcessor
  BY <1>1, ToIdle DEF AInv, TypeOK
<1>2. CASE processor' # IdleProcessor
  <2>1. /\ \A a \in AccountIds : ~Counted(bank_account_views[a], processor.command.holder)
        /\ processor' = [processor EXCEPT !.step = "open"]
    BY <1>2
  <2>2. processor.command \in OpenCommand
    BY DEF AInv, ProcessorInv
  <2>3. /\ processor'.step = "open" /\ processor'.command = processor.command
        /\ processor'.ledger = processor.ledger
    BY <2>1 DEF AInv, TypeOK
  <2>4. \A a \in AccountIds : bank_account_views[a].holder # processor.command.holder
    BY <2>1, <2>2, AccountsAssumption DEF AInv, TypeOK, OpenCommand, Counted, View, NoView
  <2>5. TypeOK'
    BY <2>1 DEF AInv, TypeOK
  <2>6. ProcessorInv'
    BY <2>2, <2>3, <2>4 DEF ProcessorInv, Approving
  <2> QED BY <2>5, <2>6, LedgersStay, RowsStay, RequestsStay, HousesStay DEF AInv
<1> QED BY <1>1, <1>2

LEMMA CommitOpenedInv ==
  ASSUME AInv, CommitOpened
  PROVE  AInv'
<1> USE DEF accountVars, ledgerVars, houseVars
<1> DEFINE event == AccountOpened(processor.command.holder)
<1>1. /\ processor.step = "open" /\ CommitEvent(event) /\ GoTo("opened")
      /\ UNCHANGED <<bank_account_views, ledgerVars, houseVars, command_queue, faults>>
  BY DEF CommitOpened
<1>2. processor.command \in OpenCommand
  BY <1>1 DEF AInv, ProcessorInv
<1>3. processor.command.id \in AccountIds /\ event \in AccountEvent
  BY <1>2 DEF OpenCommand, AccountEvent
<1>4. /\ bank_account_events' \in [AccountIds -> Seq(AccountEvent)]
      /\ bank_account_events'[processor.command.id] # <<>>
      /\ Last(bank_account_events'[processor.command.id]) = event
      /\ \A a \in AccountIds : \A l \in LedgerIds :
           AccountKycApproved(l) \in Range(bank_account_events'[a])
             => AccountKycApproved(l) \in Range(bank_account_events[a])
  BY <1>1, <1>3, LogGrows DEF AccountOpened, AccountKycApproved
<1>5. /\ processor' = [processor EXCEPT !.step = "opened"]
      /\ processor'.step = "opened" /\ processor'.command = processor.command
  BY <1>1 DEF GoTo, AInv, TypeOK
<1>6. TypeOK'
  BY <1>1, <1>4, <1>5 DEF AInv, TypeOK
<1>7. ApprovedLedgerExists'
  BY <1>1, <1>4 DEF AInv, ApprovedLedgerExists
<1>8. ProcessorInv'
  BY <1>1, <1>2, <1>4, <1>5 DEF AInv, ProcessorInv, Approving
<1> QED BY <1>1, <1>6, <1>7, <1>8, RowsStay, RequestsStay, HousesStay DEF AInv

(* The row of an account that is opened is the first of its holder; the *)
(* row of one that is approved keeps its holder.                        *)
LEMMA DispatchInv ==
  ASSUME AInv, Dispatch
  PROVE  AInv'
<1> USE DEF accountVars, ledgerVars, houseVars
<1> DEFINE id == processor.command.id
           event == Last(bank_account_events[id])
           row == Update(bank_account_views[id], event)
<1>1. /\ processor.step \in {"opened", "approved"} /\ processor' = IdleProcessor
      /\ bank_account_views' = [bank_account_views EXCEPT ![id] = row]
      /\ UNCHANGED <<bank_account_events, ledgerVars, houseVars, command_queue, faults>>
  BY DEF Dispatch, DispatchEvent
<1>2. id \in AccountIds
  BY <1>1 DEF AInv, ProcessorInv, OpenCommand, Approving
<1>3. bank_account_views[id] \in View \cup {NoView}
  BY <1>2 DEF AInv, TypeOK
<1>4. /\ row \in View
      /\ \/ row.holder = bank_account_views[id].holder /\ bank_account_views[id] # NoView
         \/ \A a \in AccountIds : bank_account_views[a].holder # row.holder
  <2>1. CASE processor.step = "opened"
    <3>1. event = AccountOpened(processor.command.holder) /\ processor.command.holder \in Holders
      BY <2>1 DEF AInv, ProcessorInv, OpenCommand
    <3>2. row = [status |-> "Pending", holder |-> processor.command.holder,
                 ledger_id |-> bank_account_views[id].ledger_id]
      BY <3>1 DEF Update, AccountOpened
    <3>3. bank_account_views[id].ledger_id \in LedgerIds \cup {NoLedger}
      BY <1>3 DEF View, NoView
    <3> QED BY <2>1, <3>1, <3>2, <3>3 DEF View, AInv, ProcessorInv
  <2>2. CASE processor.step = "approved"
    <3>1. /\ event = AccountKycApproved(processor.ledger) /\ processor.ledger \in LedgerIds
          /\ bank_account_views[id] # NoView
      BY <2>2 DEF AInv, ProcessorInv, Approving
    <3>2. row = [bank_account_views[id] EXCEPT !.status = "Approved",
                                               !.ledger_id = processor.ledger]
      BY <3>1 DEF Update, AccountKycApproved
    <3> QED BY <1>3, <3>1, <3>2 DEF View
  <2> QED BY <1>1, <2>1, <2>2
<1>5. /\ bank_account_views'[id] = row
      /\ \A a \in AccountIds : a # id => bank_account_views'[a] = bank_account_views[a]
      /\ bank_account_views' \in [AccountIds -> View \cup {NoView}]
  BY <1>1, <1>2, <1>4 DEF AInv, TypeOK
<1> HIDE DEF row, event, id
<1>6. OneViewPerHolder'
  BY <1>2, <1>4, <1>5 DEF AInv, OneViewPerHolder
<1>7. TypeOK'
  BY <1>1, <1>5 DEF AInv, TypeOK, IdleProcessor
<1>8. ProcessorInv'
  BY <1>1 DEF ProcessorInv, IdleProcessor, Approving
<1> QED BY <1>1, <1>6, <1>7, <1>8, LedgersStay, RequestsStay, HousesStay DEF AInv

-----------------------------------------------------------------------------
(* ApproveAccount.                                                         *)

LEMMA FindAccountInv ==
  ASSUME AInv, FindAccount
  PROVE  AInv'
<1> USE DEF accountVars, ledgerVars, houseVars
<1>1. CASE processor' = IdleProcessor
  BY <1>1, ToIdle DEF FindAccount, AInv, TypeOK
<1>2. CASE processor' # IdleProcessor
  <2>1. PICK l \in LedgerIds :
          /\ Known(processor.command.id) /\ NewLedgerId(l)
          /\ processor' = [processor EXCEPT !.step = "init", !.ledger = l]
    BY <1>2 DEF FindAccount
  <2>2. /\ processor.step = "find"
        /\ UNCHANGED <<accountVars, ledgerVars, houseVars, command_queue, faults>>
    BY DEF FindAccount
  <2>3. /\ processor'.step = "init" /\ processor'.command = processor.command
        /\ processor'.ledger = l
    BY <2>1 DEF AInv, TypeOK
  <2>4. TypeOK'
    BY <2>1, <2>2 DEF AInv, TypeOK
  <2>5. ProcessorInv'
    BY <2>1, <2>2, <2>3 DEF AInv, ProcessorInv, Approving, Known, NewLedgerId
  <2> QED BY <2>2, <2>4, <2>5, LedgersStay, RowsStay, RequestsStay, HousesStay DEF AInv
<1> QED BY <1>1, <1>2

LEMMA InitLedgerInv ==
  ASSUME AInv, InitLedger
  PROVE  AInv'
<1> USE DEF accountVars, ledgerVars, houseVars
<1>1. /\ processor.step = "init" /\ GoTo("initiated")
      /\ ledger_events' = [ledger_events EXCEPT ![processor.ledger] = processor.command.id]
      /\ UNCHANGED <<accountVars, ledger_views, houseVars, command_queue, faults>>
  BY DEF InitLedger
<1>2. /\ processor.ledger \in LedgerIds /\ processor.command.id \in AccountIds
      /\ ledger_events[processor.ledger] = NoAccount
      /\ bank_account_views[processor.command.id] # NoView
  BY <1>1 DEF AInv, ProcessorInv, Approving
<1>3. /\ ledger_events'[processor.ledger] = processor.command.id
      /\ \A m \in LedgerIds : ledger_events[m] # NoAccount =>
           ledger_events'[m] = ledger_events[m]
      /\ ledger_events' \in [LedgerIds -> AccountIds \cup HouseIds \cup {NoAccount}]
  BY <1>1, <1>2, LedgerTaken
<1>4. /\ processor' = [processor EXCEPT !.step = "initiated"]
      /\ processor'.step = "initiated" /\ processor'.command = processor.command
      /\ processor'.ledger = processor.ledger
  BY <1>1 DEF GoTo, AInv, TypeOK
<1>5. TypeOK'
  BY <1>1, <1>3, <1>4 DEF AInv, TypeOK
<1>6. ProcessorInv'
  BY <1>1, <1>2, <1>3, <1>4 DEF ProcessorInv, Approving
<1>7. RequestInv'
  BY <1>1, <1>3, AccountsAssumption DEF AInv, RequestInv
<1> QED BY <1>1, <1>3, <1>5, <1>6, <1>7, TakenStay, RowsStay DEF AInv

(* The ledger's row is written, or the write is logged to have failed. *)
LEMMA LedgerViewInv ==
  ASSUME AInv, processor.step = "initiated", GoTo("approve"),
         ledger_views' \in {ledger_views, ledger_views \cup {processor.ledger}},
         UNCHANGED <<accountVars, ledger_events, houseVars, command_queue>>,
         faults' \in 0..MaxFaults
  PROVE  AInv'
<1> USE DEF accountVars, ledgerVars, houseVars
<1>1. processor.ledger \in LedgerIds
  BY DEF AInv, ProcessorInv, Approving
<1>2. /\ processor' = [processor EXCEPT !.step = "approve"]
      /\ processor'.step = "approve" /\ processor'.command = processor.command
      /\ processor'.ledger = processor.ledger
  BY DEF GoTo, AInv, TypeOK
<1>3. TypeOK'
  BY <1>1, <1>2 DEF AInv, TypeOK
<1>4. ProcessorInv'
  BY <1>2 DEF AInv, ProcessorInv, Approving
<1> QED BY <1>3, <1>4, LedgersStay, RowsStay, RequestsStay, HousesStay DEF AInv

LEMMA CommitApprovedInv ==
  ASSUME AInv, CommitApproved
  PROVE  AInv'
<1> USE DEF accountVars, ledgerVars, houseVars
<1> DEFINE event == AccountKycApproved(processor.ledger)
<1>1. /\ processor.step = "approve" /\ CommitEvent(event) /\ GoTo("approved")
      /\ UNCHANGED <<bank_account_views, ledgerVars, houseVars, command_queue, faults>>
  BY DEF CommitApproved
<1>2. /\ processor.command.id \in AccountIds /\ processor.ledger \in LedgerIds
      /\ event \in AccountEvent
      /\ bank_account_views[processor.command.id] # NoView
      /\ ledger_events[processor.ledger] = processor.command.id
  BY <1>1 DEF AInv, ProcessorInv, Approving, AccountEvent
<1>3. /\ bank_account_events' \in [AccountIds -> Seq(AccountEvent)]
      /\ bank_account_events'[processor.command.id] # <<>>
      /\ Last(bank_account_events'[processor.command.id]) = event
      /\ \A a \in AccountIds : \A l \in LedgerIds :
           AccountKycApproved(l) \in Range(bank_account_events'[a])
             => \/ AccountKycApproved(l) \in Range(bank_account_events[a])
                \/ a = processor.command.id /\ l = processor.ledger
  BY <1>1, <1>2, LogGrows DEF AccountKycApproved
<1>4. /\ processor' = [processor EXCEPT !.step = "approved"]
      /\ processor'.step = "approved" /\ processor'.command = processor.command
      /\ processor'.ledger = processor.ledger
  BY <1>1 DEF GoTo, AInv, TypeOK
<1>5. TypeOK'
  BY <1>1, <1>3, <1>4 DEF AInv, TypeOK
<1>6. ApprovedLedgerExists'
  BY <1>1, <1>2, <1>3 DEF AInv, ApprovedLedgerExists
<1>7. ProcessorInv'
  BY <1>1, <1>2, <1>3, <1>4 DEF ProcessorInv, Approving
<1> QED BY <1>1, <1>5, <1>6, <1>7, RowsStay, RequestsStay, HousesStay DEF AInv

-----------------------------------------------------------------------------
(* House accounts.                                                         *)

(* A new ledger is not the one the processor has in hand. *)
LEMMA InitHouseLedgerInv ==
  ASSUME AInv, NEW h \in HouseIds, InitHouseLedger(h)
  PROVE  AInv'
<1> USE DEF accountVars, ledgerVars, houseVars
<1>1. PICK l \in LedgerIds :
        /\ NewLedgerId(l)
        /\ ledger_events' = [ledger_events EXCEPT ![l] = h]
        /\ requests' = [requests EXCEPT ![h] = [step |-> "initiated", ledger |-> l]]
  BY DEF InitHouseLedger
<1>2. UNCHANGED <<accountVars, ledger_views, house_accounts, command_queue, processor, faults>>
  BY DEF InitHouseLedger
<1>3. ledger_events[l] = NoAccount /\ processor.ledger # l
  BY <1>1 DEF NewLedgerId
<1>4. /\ ledger_events'[l] = h
      /\ \A m \in LedgerIds : ledger_events[m] # NoAccount =>
           ledger_events'[m] = ledger_events[m]
      /\ \A m \in LedgerIds : m # l => ledger_events'[m] = ledger_events[m]
      /\ ledger_events' \in [LedgerIds -> AccountIds \cup HouseIds \cup {NoAccount}]
  BY <1>1, <1>3, LedgerTaken
<1>5. /\ requests'[h] = [step |-> "initiated", ledger |-> l]
      /\ \A g \in HouseIds : g # h => requests'[g] = requests[g]
      /\ requests' \in [HouseIds -> [step: {"none", "initiated", "viewed", "answered"},
                                     ledger: LedgerIds \cup {NoLedger}]]
  BY <1>1 DEF AInv, TypeOK
<1>6. TypeOK'
  BY <1>2, <1>4, <1>5 DEF AInv, TypeOK
<1>7. ProcessorInv'
  BY <1>2, <1>3, <1>4 DEF AInv, ProcessorInv, Approving
<1>8. RequestInv'
  BY <1>4, <1>5, AccountsAssumption DEF AInv, RequestInv
<1> QED BY <1>2, <1>4, <1>6, <1>7, <1>8, TakenStay, RowsStay DEF AInv

(* A request goes on, or ends, and its ledger stays what it was. *)
LEMMA RequestGoesOn ==
  ASSUME AInv, NEW h \in HouseIds, NEW step \in {"viewed", "answered"},
         step = "viewed" => requests[h].step = "initiated",
         requests' = [requests EXCEPT ![h].step = step],
         ledger_views' \subseteq LedgerIds, faults' \in 0..MaxFaults,
         UNCHANGED <<accountVars, ledger_events, house_accounts, command_queue, processor>>
  PROVE  AInv'
<1> USE DEF accountVars, ledgerVars, houseVars
<1>1. /\ requests'[h].step = step /\ requests'[h].ledger = requests[h].ledger
      /\ \A g \in HouseIds : g # h => requests'[g] = requests[g]
      /\ requests' \in [HouseIds -> [step: {"none", "initiated", "viewed", "answered"},
                                     ledger: LedgerIds \cup {NoLedger}]]
  BY DEF AInv, TypeOK
<1>2. TypeOK'
  BY <1>1 DEF AInv, TypeOK
<1>3. RequestInv'
  BY <1>1 DEF AInv, RequestInv
<1> QED BY <1>2, <1>3, LedgersStay, RowsStay, HousesStay, ProcessorStays DEF AInv

LEMMA CreateHouseLedgerViewInv ==
  ASSUME AInv, NEW h \in HouseIds, CreateHouseLedgerView(h)
  PROVE  AInv'
<1>1. requests[h].step = "initiated" /\ requests[h].ledger \in LedgerIds
  BY DEF CreateHouseLedgerView, AInv, RequestInv
<1>2. ledger_views' \subseteq LedgerIds /\ faults' \in 0..MaxFaults
  BY <1>1 DEF CreateHouseLedgerView, AInv, TypeOK
<1> QED BY <1>1, <1>2, RequestGoesOn DEF CreateHouseLedgerView

LEMMA CreateHouseAccountInv ==
  ASSUME AInv, NEW h \in HouseIds, CreateHouseAccount(h)
  PROVE  AInv'
<1> USE DEF accountVars, ledgerVars, houseVars
<1>1. PICK kind \in HouseKinds :
        house_accounts' =
          IF KindFree(kind)
          THEN [house_accounts EXCEPT ![h] = [kind |-> kind, ledger_id |-> requests[h].ledger]]
          ELSE house_accounts
  BY DEF CreateHouseAccount
<1>2. /\ requests[h].step = "viewed"
      /\ requests' = [requests EXCEPT ![h].step = "answered"]
      /\ UNCHANGED <<accountVars, ledgerVars, command_queue, processor, faults>>
  BY DEF CreateHouseAccount
<1>3. requests[h].ledger \in LedgerIds /\ ledger_events[requests[h].ledger] = h
  BY <1>2 DEF AInv, RequestInv
<1>4. /\ requests'[h].step = "answered"
      /\ \A g \in HouseIds : g # h => requests'[g] = requests[g]
      /\ requests' \in [HouseIds -> [step: {"none", "initiated", "viewed", "answered"},
                                     ledger: LedgerIds \cup {NoLedger}]]
  BY <1>2 DEF AInv, TypeOK
<1>5. /\ house_accounts' \in [HouseIds -> [kind: HouseKinds \cup {NoHouse},
                                           ledger_id: LedgerIds \cup {NoLedger}]]
      /\ HouseInv'
  <2>1. CASE ~KindFree(kind)
    BY <1>1, <1>2, <2>1 DEF AInv, TypeOK, HouseInv
  <2>2. CASE KindFree(kind)
    <3>1. /\ house_accounts'[h] = [kind |-> kind, ledger_id |-> requests[h].ledger]
          /\ \A g \in HouseIds : g # h => house_accounts'[g] = house_accounts[g]
          /\ house_accounts' \in [HouseIds -> [kind: HouseKinds \cup {NoHouse},
                                               ledger_id: LedgerIds \cup {NoLedger}]]
      BY <1>1, <1>3, <2>2 DEF AInv, TypeOK
    <3>2. \A g \in HouseIds : house_accounts[g].kind # kind
      BY <2>2 DEF KindFree
    <3> QED BY <1>2, <1>3, <3>1, <3>2 DEF AInv, HouseInv
  <2> QED BY <2>1, <2>2
<1>6. TypeOK'
  BY <1>2, <1>4, <1>5 DEF AInv, TypeOK
<1>7. RequestInv'
  BY <1>2, <1>4 DEF AInv, RequestInv
<1> QED BY <1>2, <1>5, <1>6, <1>7, LedgersStay, RowsStay, ProcessorStays DEF AInv

-----------------------------------------------------------------------------
(* Faults.                                                                 *)

LEMMA CrashInv ==
  ASSUME AInv, Crash, faults' \in 0..MaxFaults
  PROVE  AInv'
<1> USE DEF Crash, accountVars, ledgerVars, houseVars
<1>1. \A h \in HouseIds :
        /\ requests'[h].step \in {"none", "answered"}
        /\ requests'[h] \in [step: {"none", "initiated", "viewed", "answered"},
                             ledger: LedgerIds \cup {NoLedger}]
  BY DEF AInv, TypeOK
<1>2. requests' \in [HouseIds -> [step: {"none", "initiated", "viewed", "answered"},
                                  ledger: LedgerIds \cup {NoLedger}]]
  BY <1>1
<1>3. TypeOK'
  BY <1>2 DEF AInv, TypeOK, IdleProcessor
<1>4. ProcessorInv' /\ RequestInv'
  BY <1>1 DEF ProcessorInv, RequestInv, IdleProcessor, Approving
<1> QED BY <1>3, <1>4, LedgersStay, RowsStay, HousesStay DEF AInv

LEMMA FaultInv ==
  ASSUME AInv, Fault
  PROVE  AInv'
<1>1. faults' \in 0..MaxFaults
  BY AccountsAssumption DEF Fault, AInv, TypeOK
<1>2. command_queue' \in {command_queue, <<>>}
  BY DEF Fault, CommandFails, DispatchFails, Crash, HouseRequestFails
<1>3. CASE CommandFails
  BY <1>1, <1>3, ToIdle DEF CommandFails, AfterFailedInit
<1>4. CASE DispatchFails
  <2>1. CASE processor.step = "initiated" /\ GoTo("approve")
    BY <1>1, <1>4, <2>1, LedgerViewInv DEF DispatchFails, ledgerVars
  <2>2. CASE processor.step \in {"opened", "approved"} /\ processor' = IdleProcessor
    BY <1>1, <1>4, <2>2, ToIdle DEF DispatchFails
  <2> QED BY <1>4, <2>1, <2>2 DEF DispatchFails
<1>5. CASE Crash
  BY <1>1, <1>5, CrashInv
<1>6. ASSUME NEW h \in HouseIds, HouseRequestFails(h) PROVE AInv'
  <2>1. ledger_views' \subseteq LedgerIds
    BY <1>6 DEF HouseRequestFails, ledgerVars, AInv, TypeOK
  <2>2. PICK step \in {"viewed", "answered"} :
          /\ step = "viewed" => requests[h].step = "initiated"
          /\ requests' = [requests EXCEPT ![h].step = step]
    BY <1>6 DEF HouseRequestFails
  <2> QED BY <1>1, <1>6, <2>1, <2>2, RequestGoesOn DEF HouseRequestFails, ledgerVars
<1> QED BY <1>3, <1>4, <1>5, <1>6 DEF Fault

-----------------------------------------------------------------------------
LEMMA AStep == AInv /\ [Next]_vars => AInv'
<1> SUFFICES ASSUME AInv, [Next]_vars PROVE AInv'
  OBVIOUS
<1> USE DEF accountVars, ledgerVars, houseVars
<1>1. ASSUME NEW command \in Command, Submit(command) PROVE AInv'
  BY <1>1, SubmitInv
<1>2. CASE SubmitRefused \/ UNCHANGED vars
  <2>1. UNCHANGED vars
    BY <1>2 DEF SubmitRefused
  <2>2. TypeOK'
    BY <2>1 DEF vars, AInv, TypeOK
  <2> QED BY <2>1, <2>2, LedgersStay, RowsStay, RequestsStay, HousesStay, ProcessorStays
        DEF vars, AInv
<1>3. CASE ProcessorStep
  <2>1. CASE PaymentEnds \/ PaymentPanics
    BY <2>1, ToIdle DEF PaymentEnds, PaymentPanics, AInv, TypeOK
  <2>2. CASE CreateLedgerView
    BY <2>2, LedgerViewInv DEF CreateLedgerView, AInv, TypeOK
  <2> QED BY <1>3, <2>1, <2>2, ReceiveCommandInv, ValidateCreationInv, CommitOpenedInv,
         DispatchInv, FindAccountInv, InitLedgerInv, CommitApprovedInv DEF ProcessorStep
<1>4. ASSUME NEW h \in HouseIds, HouseStep(h) PROVE AInv'
  BY <1>4, InitHouseLedgerInv, CreateHouseLedgerViewInv, CreateHouseAccountInv DEF HouseStep
<1> QED BY <1>1, <1>2, <1>3, <1>4, FaultInv DEF Next

(* The inductive invariant holds in every state the specification allows. *)
THEOREM AccountsInvariant == Spec => []AInv
BY AInit, AStep, PTL DEF Spec

(* Every variable of Accounts keeps its type: in particular no row is ever *)
(* written for an account that never had an opening event.                 *)
THEOREM AccountsTypeCorrect == Spec => []TypeOK
<1>1. AInv => TypeOK
  BY DEF AInv
<1> QED BY <1>1, AccountsInvariant, PTL

(* An approved account has its ledger, in every state: helper::init_ledger *)
(* has committed before the approval, or the approval is not committed.    *)
THEOREM ApprovedLedgerExistsAlways == Spec => []ApprovedLedgerExists
<1>1. AInv => ApprovedLedgerExists
  BY DEF AInv
<1> QED BY <1>1, AccountsInvariant, PTL

(* No holder ever has two rows: validate_account_creation sees every row,  *)
(* and the one processor writes no other row before the new one.           *)
THEOREM OneViewPerHolderAlways == Spec => []OneViewPerHolder
<1>1. AInv => OneViewPerHolder
  BY DEF AInv
<1> QED BY <1>1, AccountsInvariant, PTL

(* A house account has a ledger of its own and is the only one of its      *)
(* kind, however many requests house_account_create_handler serves.        *)
THEOREM HouseAccountsOwnLedgersAlways == Spec => []HouseAccountsOwnLedgers
<1>1. AInv => HouseAccountsOwnLedgers
  BY DEF AInv, HouseInv, HouseAccountsOwnLedgers
<1> QED BY <1>1, AccountsInvariant, PTL

-----------------------------------------------------------------------------
(* The history of an account: its log, and what became of its row.  A      *)
(* second inductive invariant, on top of the first.                        *)

(* An account's first event opens it, and no other does. *)
OpenedFirst ==
  \A a \in AccountIds : \A i \in DOMAIN bank_account_events[a] :
    bank_account_events[a][i].type = "AccountOpened" <=> i = 1

(* The id of an account that is still to be opened is in use nowhere. *)
OpensAreFresh ==
  /\ \A i \in DOMAIN command_queue :
       command_queue[i].type = "OpenAccount" =>
         /\ bank_account_events[command_queue[i].id] = <<>>
         /\ processor.step \in {"validate", "open"} =>
              processor.command.id # command_queue[i].id
         /\ \A j \in DOMAIN command_queue :
              command_queue[j].type = "OpenAccount" /\ j # i =>
                command_queue[j].id # command_queue[i].id
  /\ processor.step \in {"validate", "open"} =>
       bank_account_events[processor.command.id] = <<>>

(* The row that the first n events of a log make. *)
RowAt(log, n) ==
  IF n = 1
  THEN [status |-> "Pending", holder |-> log[1].holder, ledger_id |-> NoLedger]
  ELSE [status |-> "Approved", holder |-> log[1].holder, ledger_id |-> log[n].ledger_id]

RowsArePast ==
  \A a \in AccountIds :
    bank_account_views[a] # NoView =>
      \E n \in DOMAIN bank_account_events[a] :
        bank_account_views[a] = RowAt(bank_account_events[a], n)

(* The accounts of a holder that have no row, nor will get one. *)
Lost(holder) ==
  {a \in Opened(holder) :
     /\ bank_account_views[a] = NoView
     /\ ~(processor.step = "opened" /\ processor.command.id = a)}

LossesAreFaults ==
  \A h \in Holders : IsFiniteSet(Lost(h)) /\ Cardinality(Lost(h)) <= faults

HistoryInv == OpenedFirst /\ OpensAreFresh /\ RowsArePast /\ LossesAreFaults

-----------------------------------------------------------------------------
LEMMA HistoryInit == Init => HistoryInv
<1> SUFFICES ASSUME Init PROVE HistoryInv
  OBVIOUS
<1> USE DEF Init
<1>1. OpenedFirst /\ RowsArePast
  BY DEF OpenedFirst, RowsArePast
<1>2. OpensAreFresh
  BY DEF OpensAreFresh, IdleProcessor
<1>3. \A h \in Holders : Lost(h) = {}
  BY DEF Lost, Opened, Range
<1>4. IsFiniteSet({}) /\ Cardinality({}) = 0
  BY FS_EmptySet
<1>5. LossesAreFaults
  <2>1. faults = 0
    OBVIOUS
  <2> HIDE DEF Init
  <2> QED BY <1>3, <1>4, <2>1 DEF LossesAreFaults
<1> QED BY <1>1, <1>2, <1>5 DEF HistoryInv

(* What the history knows of a log. *)
LEMMA LogFacts ==
  ASSUME AInv, HistoryInv, NEW a \in AccountIds
  PROVE  /\ bank_account_events[a] \in Seq(AccountEvent)
         /\ Len(bank_account_events[a]) \in Nat
         /\ DOMAIN bank_account_events[a] = 1..Len(bank_account_events[a])
         /\ bank_account_events[a] # <<>> =>
              /\ 1 \in DOMAIN bank_account_events[a]
              /\ \E h \in Holders : bank_account_events[a][1] = AccountOpened(h)
         /\ \A h \in Holders :
              a \in Opened(h) <=>
                bank_account_events[a] # <<>> /\ bank_account_events[a][1] = AccountOpened(h)
         /\ bank_account_views[a] # NoView =>
              /\ bank_account_events[a] # <<>>
              /\ bank_account_events[a][1] = AccountOpened(bank_account_views[a].holder)
<1> DEFINE log == bank_account_events[a]
<1>1. log \in Seq(AccountEvent)
  BY DEF AInv, TypeOK
<1>2. Len(log) \in Nat /\ DOMAIN log = 1..Len(log)
  BY <1>1
<1>3. \A i \in DOMAIN log : log[i] \in AccountEvent /\ (log[i].type = "AccountOpened" <=> i = 1)
  BY <1>1, <1>2 DEF HistoryInv, OpenedFirst
<1>4. log # <<>> => 1 \in DOMAIN log
  BY <1>1, <1>2
<1>5. \A e \in AccountEvent :
        e.type = "AccountOpened" =>
          \E h \in Holders : e = AccountOpened(h) /\ e.holder = h
  BY DEF AccountEvent, AccountOpened, AccountKycApproved
<1>6. log # <<>> => \E h \in Holders : log[1] = AccountOpened(h) /\ log[1].holder = h
  BY <1>3, <1>4, <1>5
<1>7. ASSUME NEW h \in Holders
      PROVE  a \in Opened(h) <=> log # <<>> /\ log[1] = AccountOpened(h)
  <2>1. AccountOpened(h).type = "AccountOpened"
    BY DEF AccountOpened
  <2>2. ASSUME AccountOpened(h) \in Range(log) PROVE log # <<>> /\ log[1] = AccountOpened(h)
    <3>1. PICK i \in DOMAIN log : log[i] = AccountOpened(h)
      BY <2>2 DEF Range
    <3>2. i = 1
      BY <1>3, <2>1, <3>1
    <3> QED BY <3>1, <3>2
  <2>3. ASSUME log # <<>>, log[1] = AccountOpened(h) PROVE AccountOpened(h) \in Range(log)
    BY <1>4, <2>3 DEF Range
  <2> QED BY <2>2, <2>3 DEF Opened
<1>8. ASSUME bank_account_views[a] # NoView
      PROVE  log # <<>> /\ log[1] = AccountOpened(bank_account_views[a].holder)
  <2>1. PICK n \in DOMAIN log : bank_account_views[a] = RowAt(log, n)
    BY <1>8 DEF HistoryInv, RowsArePast
  <2>2. log # <<>>
    BY <2>1
  <2>3. bank_account_views[a].holder = log[1].holder
    BY <2>1 DEF RowAt
  <2> QED BY <1>6, <2>2, <2>3
<1> QED BY <1>1, <1>2, <1>4, <1>6, <1>7, <1>8

-----------------------------------------------------------------------------
(* Nothing is lost as long as no row that is to come is given up. *)
LEMMA NothingLost ==
  ASSUME AInv, HistoryInv, faults' \in {faults, faults + 1},
         \A h \in Holders : Lost(h)' \subseteq Lost(h)
  PROVE  LossesAreFaults'
<1>1. faults \in Nat
  BY AccountsAssumption DEF AInv, TypeOK
<1> SUFFICES ASSUME NEW h \in Holders
             PROVE  IsFiniteSet(Lost(h)') /\ Cardinality(Lost(h)') <= faults'
  BY DEF LossesAreFaults
<1>2. IsFiniteSet(Lost(h)) /\ Cardinality(Lost(h)) <= faults /\ Cardinality(Lost(h)) \in Nat
  BY FS_CardinalityType DEF HistoryInv, LossesAreFaults
<1>3. /\ IsFiniteSet(Lost(h)') /\ Cardinality(Lost(h)') <= Cardinality(Lost(h))
      /\ Cardinality(Lost(h)') \in Nat
  BY <1>2, FS_Subset, FS_CardinalityType
<1> QED BY <1>1, <1>2, <1>3

(* A step that writes neither events nor rows and opens no account. *)
LEMMA QuietStep ==
  ASSUME AInv, HistoryInv, UNCHANGED accountVars,
         command_queue' \in {command_queue, <<>>}, faults' \in {faults, faults + 1},
         processor.step # "opened" \/ UNCHANGED processor,
         processor'.step \in {"validate", "open"} =>
           processor.step \in {"validate", "open"} /\ processor'.command = processor.command
  PROVE  HistoryInv'
<1> USE DEF accountVars
<1>1. OpenedFirst' /\ RowsArePast'
  BY DEF HistoryInv, OpenedFirst, RowsArePast
<1>2. OpensAreFresh'
  <2>1. CASE command_queue' = command_queue
    BY <2>1 DEF HistoryInv, OpensAreFresh
  <2>2. CASE command_queue' = <<>>
    BY <2>2 DEF HistoryInv, OpensAreFresh
  <2> QED BY <2>1, <2>2
<1>3. \A h \in Holders : Lost(h)' \subseteq Lost(h)
  BY DEF Lost, Opened
<1>4. LossesAreFaults'
  BY <1>3, NothingLost
<1> QED BY <1>1, <1>2, <1>4 DEF HistoryInv

(* A fault takes the row of an account that has just been opened. *)
LEMMA RowLost ==
  ASSUME AInv, HistoryInv, UNCHANGED accountVars, processor' = IdleProcessor,
         command_queue' \in {command_queue, <<>>}, faults' = faults + 1
  PROVE  HistoryInv'
<1> USE DEF accountVars
<1>0. processor'.step = "idle"
  BY DEF IdleProcessor
<1>1. OpenedFirst' /\ RowsArePast'
  BY DEF HistoryInv, OpenedFirst, RowsArePast
<1>2. OpensAreFresh'
  <2>1. CASE command_queue' = command_queue
    BY <1>0, <2>1 DEF HistoryInv, OpensAreFresh
  <2>2. CASE command_queue' = <<>>
    BY <1>0, <2>2 DEF HistoryInv, OpensAreFresh
  <2> QED BY <2>1, <2>2
<1>3. LossesAreFaults'
  <2>1. faults \in Nat
    BY AccountsAssumption DEF AInv, TypeOK
  <2> SUFFICES ASSUME NEW h \in Holders
               PROVE  IsFiniteSet(Lost(h)') /\ Cardinality(Lost(h)') <= faults'
    BY DEF LossesAreFaults
  <2> DEFINE more == Lost(h) \cup {processor.command.id}
  <2>2. Lost(h)' \subseteq more
    BY DEF Lost, Opened
  <2>3. IsFiniteSet(Lost(h)) /\ Cardinality(Lost(h)) <= faults /\ Cardinality(Lost(h)) \in Nat
    BY FS_CardinalityType DEF HistoryInv, LossesAreFaults
  <2>4. /\ IsFiniteSet(more) /\ Cardinality(more) \in Nat
        /\ Cardinality(more) <= Cardinality(Lost(h)) + 1
    <3>1. IsFiniteSet(more) /\ Cardinality(more) \in {Cardinality(Lost(h)), Cardinality(Lost(h)) + 1}
      BY <2>3, FS_AddElement
    <3> HIDE DEF more
    <3> QED BY <2>3, <3>1
  <2> HIDE DEF more
  <2>5. /\ IsFiniteSet(Lost(h)') /\ Cardinality(Lost(h)') <= Cardinality(more)
        /\ Cardinality(Lost(h)') \in Nat
    BY <2>2, <2>4, FS_Subset, FS_CardinalityType
  <2> QED BY <2>1, <2>3, <2>4, <2>5
<1> QED BY <1>1, <1>2, <1>3 DEF HistoryInv

LEMMA SubmitHistory ==
  ASSUME AInv, HistoryInv, NEW command \in Command, Submit(command)
  PROVE  HistoryInv'
<1> USE DEF Submit, accountVars, ledgerVars, houseVars
<1>1. OpenedFirst' /\ RowsArePast'
  BY DEF HistoryInv, OpenedFirst, RowsArePast
<1>2. \A h \in Holders : Lost(h)' \subseteq Lost(h)
  BY DEF Lost, Opened
<1>3. LossesAreFaults'
  BY <1>2, NothingLost
<1>4. OpensAreFresh'
  <2> DEFINE n == Len(command_queue)
  <2>1. /\ command_queue \in Seq(Command) /\ n \in Nat /\ DOMAIN command_queue = 1..n
        /\ command_queue' = Append(command_queue, command)
    BY DEF AInv, TypeOK
  <2>2. /\ DOMAIN command_queue' = 1..(n + 1)
        /\ command_queue'[n + 1] = command
        /\ \A i \in 1..n : command_queue'[i] = command_queue[i]
    BY <2>1
  <2>3. command.type = "OpenAccount" =>
          /\ bank_account_events[command.id] = <<>> /\ processor.command.id # command.id
          /\ \A i \in 1..n : command_queue[i].id # command.id
    BY <2>1 DEF NewAccountId
  <2>4. ASSUME NEW i \in 1..(n + 1), command_queue'[i].type = "OpenAccount"
        PROVE  /\ bank_account_events[command_queue'[i].id] = <<>>
               /\ processor.step \in {"validate", "open"} =>
                    processor.command.id # command_queue'[i].id
               /\ \A j \in 1..(n + 1) :
                    command_queue'[j].type = "OpenAccount" /\ j # i =>
                      command_queue'[j].id # command_queue'[i].id
    <3>1. CASE i = n + 1
      BY <2>1, <2>2, <2>3, <2>4, <3>1
    <3>2. CASE i \in 1..n
      <4>1. /\ bank_account_events[command_queue[i].id] = <<>>
            /\ processor.step \in {"validate", "open"} =>
                 processor.command.id # command_queue[i].id
            /\ \A j \in 1..n :
                 command_queue[j].type = "OpenAccount" /\ j # i =>
                   command_queue[j].id # command_queue[i].id
        BY <2>1, <2>2, <2>4, <3>2 DEF HistoryInv, OpensAreFresh
      <4> QED BY <2>1, <2>2, <2>3, <3>2, <4>1
    <3> QED BY <2>1, <3>1, <3>2
  <2> QED BY <2>2, <2>4 DEF HistoryInv, OpensAreFresh
<1> QED BY <1>1, <1>3, <1>4 DEF HistoryInv

LEMMA ReceiveCommandHistory ==
  ASSUME AInv, HistoryInv, ReceiveCommand
  PROVE  HistoryInv'
<1> USE DEF ReceiveCommand, accountVars, ledgerVars, houseVars
<1>1. OpenedFirst' /\ RowsArePast'
  BY DEF HistoryInv, OpenedFirst, RowsArePast
<1>2. \A h \in Holders : Lost(h)' \subseteq Lost(h)
  BY DEF Lost, Opened
<1>3. LossesAreFaults'
  BY <1>2, NothingLost
<1>4. OpensAreFresh'
  <2> DEFINE n == Len(command_queue)
             head == command_queue[1]
  <2>1. /\ command_queue \in Seq(Command) /\ n \in Nat /\ DOMAIN command_queue = 1..n
        /\ n # 0 /\ 1 \in 1..n
    BY DEF AInv, TypeOK
  <2>2. /\ DOMAIN command_queue' = 1..(n - 1)
        /\ \A i \in 1..(n - 1) : i + 1 \in 1..n /\ command_queue'[i] = command_queue[i + 1]
    BY <2>1
  <2>3. processor'.command = head /\ processor'.step = FirstStep(head) /\ head \in Command
    BY <2>1 DEF IdleProcessor
  <2>4. processor'.step \in {"validate", "open"} => head.type = "OpenAccount"
    BY <2>3 DEF Command, FirstStep
  <2>5. \A i, j \in 1..n :
          command_queue[i].type = "OpenAccount" =>
            /\ bank_account_events[command_queue[i].id] = <<>>
            /\ command_queue[j].type = "OpenAccount" /\ j # i =>
                 command_queue[j].id # command_queue[i].id
    BY <2>1 DEF HistoryInv, OpensAreFresh
  <2>6. ASSUME NEW i \in 1..(n - 1), command_queue'[i].type = "OpenAccount"
        PROVE  /\ bank_account_events[command_queue'[i].id] = <<>>
               /\ processor'.step \in {"validate", "open"} =>
                    processor'.command.id # command_queue'[i].id
               /\ \A j \in 1..(n - 1) :
                    command_queue'[j].type = "OpenAccount" /\ j # i =>
                      command_queue'[j].id # command_queue'[i].id
    <3>1. i + 1 \in 1..n /\ i + 1 # 1 /\ command_queue'[i] = command_queue[i + 1]
      BY <2>1, <2>2
    <3>2. \A j \in 1..(n - 1) : j # i =>
            j + 1 \in 1..n /\ j + 1 # i + 1 /\ command_queue'[j] = command_queue[j + 1]
      BY <2>1, <2>2
    <3> QED BY <2>1, <2>3, <2>4, <2>5, <2>6, <3>1, <3>2
  <2>7. processor'.step \in {"validate", "open"} =>
          bank_account_events[processor'.command.id] = <<>>
    BY <2>1, <2>3, <2>4, <2>5
  <2> QED BY <2>2, <2>6, <2>7 DEF OpensAreFresh
<1> QED BY <1>1, <1>3, <1>4 DEF HistoryInv

(* The new account has no row yet and its log no other event. *)
LEMMA CommitOpenedHistory ==
  ASSUME AInv, HistoryInv, CommitOpened
  PROVE  HistoryInv'
<1> USE DEF ledgerVars, houseVars
<1> DEFINE id == processor.command.id
           event == AccountOpened(processor.command.holder)
<1>1. /\ processor.step = "open" /\ CommitEvent(event)
      /\ processor' = [processor EXCEPT !.step = "opened"]
      /\ UNCHANGED <<bank_account_views, command_queue, faults>>
  BY DEF CommitOpened, GoTo
<1>2. processor.command \in OpenCommand
  BY <1>1 DEF AInv, ProcessorInv
<1>3. id \in AccountIds /\ processor.command.holder \in Holders
  BY <1>2 DEF OpenCommand
<1>4. bank_account_events[id] = <<>> /\ bank_account_views[id] = NoView
  <2>1. bank_account_events[id] = <<>>
    BY <1>1 DEF HistoryInv, OpensAreFresh
  <2> QED BY <1>3, <2>1, LogFacts
<1>5. /\ bank_account_events'[id] = <<event>>
      /\ \A a \in AccountIds : a # id => bank_account_events'[a] = bank_account_events[a]
  BY <1>1, <1>3, <1>4 DEF CommitEvent, AInv, TypeOK
<1>6. processor'.step = "opened" /\ processor'.command = processor.command
  BY <1>1 DEF AInv, TypeOK
<1>7. event.type = "AccountOpened" /\ event \in AccountEvent
  BY <1>3 DEF AccountOpened, AccountEvent
<1> HIDE DEF event, id
<1>8. OpenedFirst'
  <2> SUFFICES ASSUME NEW a \in AccountIds, NEW i \in DOMAIN bank_account_events'[a]
               PROVE  bank_account_events'[a][i].type = "AccountOpened" <=> i = 1
    BY DEF OpenedFirst
  <2>1. CASE a = id
    BY <1>5, <1>7, <2>1
  <2>2. CASE a # id
    BY <1>5, <2>2 DEF HistoryInv, OpenedFirst
  <2> QED BY <2>1, <2>2
<1>9. OpensAreFresh'
  <2>1. \A i \in DOMAIN command_queue :
          command_queue[i].type = "OpenAccount" => command_queue[i].id # id
    BY <1>1 DEF HistoryInv, OpensAreFresh, id
  <2>2. \A i \in DOMAIN command_queue :
          command_queue[i].type = "OpenAccount" => command_queue[i].id \in AccountIds
    <3>1. \A i \in DOMAIN command_queue : command_queue[i] \in Command
      BY DEF AInv, TypeOK
    <3> QED BY <3>1 DEF Command
  <2> QED BY <1>1, <1>5, <1>6, <2>1, <2>2 DEF HistoryInv, OpensAreFresh
<1>10. RowsArePast'
  BY <1>1, <1>4, <1>5 DEF HistoryInv, RowsArePast
<1>11. ASSUME NEW h \in Holders PROVE Lost(h)' \subseteq Lost(h)
  BY <1>1, <1>5, <1>6 DEF Lost, Opened, id
<1>12. LossesAreFaults'
  BY <1>1, <1>11, NothingLost
<1> QED BY <1>8, <1>9, <1>10, <1>12 DEF HistoryInv

LEMMA CommitApprovedHistory ==
  ASSUME AInv, HistoryInv, CommitApproved
  PROVE  HistoryInv'
<1> USE DEF ledgerVars, houseVars
<1> DEFINE id == processor.command.id
           event == AccountKycApproved(processor.ledger)
           log == bank_account_events[id]
<1>1. /\ processor.step = "approve" /\ CommitEvent(event)
      /\ processor' = [processor EXCEPT !.step = "approved"]
      /\ UNCHANGED <<bank_account_views, command_queue, faults>>
  BY DEF CommitApproved, GoTo
<1>2. id \in AccountIds /\ bank_account_views[id] # NoView
  BY <1>1 DEF AInv, ProcessorInv, Approving
<1>3. log \in Seq(AccountEvent) /\ Len(log) \in Nat /\ DOMAIN log = 1..Len(log) /\ 1 \in DOMAIN log
  BY <1>2, LogFacts
<1>4. /\ bank_account_events'[id] = Append(log, event)
      /\ \A a \in AccountIds : a # id => bank_account_events'[a] = bank_account_events[a]
  BY <1>1, <1>2 DEF CommitEvent, AInv, TypeOK
<1>5. /\ DOMAIN Append(log, event) = 1..(Len(log) + 1)
      /\ \A i \in 1..Len(log) : Append(log, event)[i] = log[i]
      /\ Append(log, event)[Len(log) + 1] = event
  BY <1>3
<1>6. processor'.step = "approved" /\ processor'.command = processor.command
  BY <1>1 DEF AInv, TypeOK
<1>7. event.type # "AccountOpened"
  BY DEF AccountKycApproved
<1> DEFINE new == Append(log, event)
<1> HIDE DEF event, id, new, log
<1>8. OpenedFirst'
  <2> SUFFICES ASSUME NEW a \in AccountIds, NEW i \in DOMAIN bank_account_events'[a]
               PROVE  bank_account_events'[a][i].type = "AccountOpened" <=> i = 1
    BY DEF OpenedFirst
  <2>1. CASE a = id
    <3>1. CASE i = Len(log) + 1
      BY <1>3, <1>4, <1>5, <1>7, <2>1, <3>1 DEF new
    <3>2. CASE i \in 1..Len(log)
      BY <1>2, <1>3, <1>4, <1>5, <2>1, <3>2 DEF new, log, HistoryInv, OpenedFirst
    <3> QED BY <1>3, <1>4, <1>5, <2>1, <3>1, <3>2 DEF new
  <2>2. CASE a # id
    BY <1>4, <2>2 DEF HistoryInv, OpenedFirst
  <2> QED BY <2>1, <2>2
<1>9. OpensAreFresh'
  <2>1. log # <<>>
    BY <1>3
  <2>2. \A i \in DOMAIN command_queue :
          command_queue[i].type = "OpenAccount" =>
            command_queue[i].id \in AccountIds /\ command_queue[i].id # id
    <3>1. \A i \in DOMAIN command_queue : command_queue[i] \in Command
      BY DEF AInv, TypeOK
    <3> QED BY <2>1, <3>1 DEF Command, HistoryInv, OpensAreFresh, log
  <2> QED BY <1>1, <1>4, <1>6, <2>2 DEF HistoryInv, OpensAreFresh
<1>10. RowsArePast'
  <2> SUFFICES ASSUME NEW a \in AccountIds, bank_account_views[a] # NoView
               PROVE  \E n \in DOMAIN bank_account_events'[a] :
                        bank_account_views[a] = RowAt(bank_account_events'[a], n)
    BY <1>1 DEF RowsArePast
  <2>1. PICK n \in DOMAIN bank_account_events[a] :
          bank_account_views[a] = RowAt(bank_account_events[a], n)
    BY DEF HistoryInv, RowsArePast
  <2>2. CASE a = id
    <3>1. n \in 1..Len(log) /\ n \in 1..(Len(log) + 1) /\ 1 \in 1..Len(log)
      BY <1>3, <2>1, <2>2 DEF log
    <3>2. RowAt(new, n) = RowAt(log, n)
      BY <1>5, <3>1 DEF RowAt, new
    <3> QED BY <1>4, <1>5, <2>1, <2>2, <3>1, <3>2 DEF new, log
  <2>3. CASE a # id
    BY <1>4, <2>1, <2>3
  <2> QED BY <2>2, <2>3
<1>11. ASSUME NEW h \in Holders PROVE Lost(h)' \subseteq Lost(h)
  <2>1. AccountOpened(h) # event
    BY <1>7 DEF AccountOpened
  <2>2. ASSUME AccountOpened(h) \in Range(new) PROVE AccountOpened(h) \in Range(log)
    <3>1. PICK i \in DOMAIN new : new[i] = AccountOpened(h)
      BY <2>2 DEF Range
    <3>2. i \in 1..Len(log)
      BY <1>3, <1>5, <2>1, <3>1 DEF new
    <3> QED BY <1>3, <1>5, <3>1, <3>2 DEF Range, new
  <2>3. Opened(h)' \subseteq Opened(h)
    BY <1>2, <1>4, <2>2 DEF Opened, new, log
  <2> QED BY <1>1, <1>6, <2>3 DEF Lost
<1>12. LossesAreFaults'
  BY <1>1, <1>11, NothingLost
<1> QED BY <1>8, <1>9, <1>10, <1>12 DEF HistoryInv

LEMMA DispatchHistory ==
  ASSUME AInv, HistoryInv, Dispatch
  PROVE  HistoryInv'
<1> USE DEF ledgerVars, houseVars
<1> DEFINE id == processor.command.id
           log == bank_account_events[id]
           row == Update(bank_account_views[id], Last(log))
<1>1. /\ processor.step \in {"opened", "approved"} /\ processor' = IdleProcessor
      /\ bank_account_views' = [bank_account_views EXCEPT ![id] = row]
      /\ UNCHANGED <<bank_account_events, command_queue, faults>>
  BY DEF Dispatch, DispatchEvent
<1>2. id \in AccountIds
  BY <1>1 DEF AInv, ProcessorInv, OpenCommand, Approving
<1>3. /\ bank_account_views'[id] = row
      /\ \A a \in AccountIds : a # id => bank_account_views'[a] = bank_account_views[a]
  BY <1>1, <1>2 DEF AInv, TypeOK
<1>4. processor'.step = "idle"
  BY <1>1 DEF IdleProcessor
<1>5. /\ log # <<>> /\ Len(log) \in Nat /\ DOMAIN log = 1..Len(log) /\ 1 \in DOMAIN log
      /\ Last(log) = log[Len(log)] /\ Len(log) \in DOMAIN log
  <2>1. log # <<>>
    BY <1>1 DEF AInv, ProcessorInv
  <2>2. Len(log) \in Nat /\ DOMAIN log = 1..Len(log) /\ 1 \in DOMAIN log
    BY <1>2, <2>1, LogFacts
  <2> QED BY <2>1, <2>2 DEF Last
<1>6. \A i \in DOMAIN log : log[i].type = "AccountOpened" <=> i = 1
  BY <1>2 DEF HistoryInv, OpenedFirst
<1>7. row = RowAt(log, Len(log)) /\ row # NoView
  <2>1. CASE processor.step = "opened"
    <3>1. Last(log) = AccountOpened(processor.command.holder)
      BY <2>1 DEF AInv, ProcessorInv
    <3>2. Len(log) = 1 /\ log[1] = AccountOpened(processor.command.holder)
      <4>1. Last(log).type = "AccountOpened"
        BY <3>1 DEF AccountOpened
      <4> HIDE DEF log
      <4>2. Len(log) = 1
        BY <1>5, <1>6, <4>1
      <4> QED BY <1>5, <3>1, <4>2
    <3>3. bank_account_views[id].holder # processor.command.holder
      BY <1>2, <2>1 DEF AInv, ProcessorInv
    <3>4. bank_account_views[id] = NoView
      <4>1. SUFFICES ASSUME bank_account_views[id] # NoView PROVE FALSE
        OBVIOUS
      <4>2. log[1] = AccountOpened(bank_account_views[id].holder)
        BY <1>2, <4>1, LogFacts
      <4> QED BY <3>2, <3>3, <4>2 DEF AccountOpened
    <3>5. row = [status |-> "Pending", holder |-> processor.command.holder,
                 ledger_id |-> NoLedger]
      BY <3>1, <3>4 DEF Update, AccountOpened, NoView
    <3>6. row.status # "none"
      BY <3>5
    <3> QED BY <3>2, <3>5, <3>6 DEF RowAt, AccountOpened, NoView
  <2>2. CASE processor.step = "approved"
    <3>1. /\ Last(log) = AccountKycApproved(processor.ledger)
          /\ bank_account_views[id] # NoView
      BY <2>2 DEF AInv, ProcessorInv, Approving
    <3>2. Len(log) # 1 /\ log[Len(log)].ledger_id = processor.ledger
      <4>1. Last(log).type # "AccountOpened" /\ Last(log).ledger_id = processor.ledger
        BY <3>1 DEF AccountKycApproved
      <4> HIDE DEF log
      <4> QED BY <1>5, <1>6, <4>1
    <3>3. log[1] = AccountOpened(bank_account_views[id].holder)
      BY <1>2, <3>1, LogFacts
    <3>4. bank_account_views[id] \in View
      BY <1>2, <3>1 DEF AInv, TypeOK
    <3>5. row = [status |-> "Approved", holder |-> bank_account_views[id].holder,
                 ledger_id |-> processor.ledger]
      <4>1. row = [bank_account_views[id] EXCEPT !.status = "Approved",
                                                 !.ledger_id = processor.ledger]
        BY <3>1 DEF Update, AccountKycApproved
      <4> QED BY <3>4, <4>1 DEF View
    <3>6. row.status # "none"
      BY <3>5
    <3> QED BY <3>2, <3>3, <3>5, <3>6 DEF RowAt, AccountOpened, NoView
  <2> QED BY <1>1, <2>1, <2>2
<1> HIDE DEF row, log, id
<1>8. OpenedFirst'
  BY <1>1 DEF HistoryInv, OpenedFirst
<1>9. OpensAreFresh'
  BY <1>1, <1>4 DEF HistoryInv, OpensAreFresh
<1>10. RowsArePast'
  <2> SUFFICES ASSUME NEW a \in AccountIds, bank_account_views'[a] # NoView
               PROVE  \E n \in DOMAIN bank_account_events[a] :
                        bank_account_views'[a] = RowAt(bank_account_events[a], n)
    BY <1>1 DEF RowsArePast
  <2>1. CASE a = id
    BY <1>3, <1>5, <1>7, <2>1 DEF log
  <2>2. CASE a # id
    BY <1>3, <2>2 DEF HistoryInv, RowsArePast
  <2> QED BY <2>1, <2>2
<1>11. ASSUME NEW h \in Holders PROVE Lost(h)' \subseteq Lost(h)
  BY <1>1, <1>3, <1>7 DEF Lost, Opened, id
<1>12. LossesAreFaults'
  BY <1>1, <1>11, NothingLost
<1> QED BY <1>8, <1>9, <1>10, <1>12 DEF HistoryInv

LEMMA HistoryStep == AInv /\ HistoryInv /\ [Next]_vars => HistoryInv'
<1> SUFFICES ASSUME AInv, HistoryInv, [Next]_vars PROVE HistoryInv'
  OBVIOUS
<1>1. ASSUME NEW command \in Command, Submit(command) PROVE HistoryInv'
  BY <1>1, SubmitHistory
<1>2. CASE SubmitRefused \/ UNCHANGED vars
  BY <1>2, QuietStep DEF SubmitRefused, vars, accountVars
<1>3. CASE PaymentEnds \/ PaymentPanics
  BY <1>3, QuietStep DEF PaymentEnds, PaymentPanics, IdleProcessor
<1>4. CASE ValidateCreation
  <2>1. /\ processor'.step \in {"open", "idle"}
        /\ processor'.step = "open" => processor'.command = processor.command
    BY <1>4 DEF ValidateCreation, IdleProcessor, AInv, TypeOK
  <2> QED BY <1>4, <2>1, QuietStep DEF ValidateCreation
<1>5. CASE FindAccount
  <2>1. processor'.step \in {"init", "idle"}
    <3>1. \/ processor' = IdleProcessor
          \/ \E l \in LedgerIds : processor' = [processor EXCEPT !.step = "init", !.ledger = l]
      BY <1>5 DEF FindAccount
    <3>2. CASE processor' = IdleProcessor
      BY <3>2 DEF IdleProcessor
    <3>3. ASSUME NEW l \in LedgerIds,
                 processor' = [processor EXCEPT !.step = "init", !.ledger = l]
          PROVE  processor'.step = "init"
      BY <3>3 DEF AInv, TypeOK
    <3> QED BY <3>1, <3>2, <3>3
  <2> QED BY <1>5, <2>1, QuietStep DEF FindAccount
<1>6. CASE InitLedger \/ CreateLedgerView
  <2>1. processor'.step \in {"initiated", "approve"}
    BY <1>6 DEF InitLedger, CreateLedgerView, GoTo, AInv, TypeOK
  <2> QED BY <1>6, <2>1, QuietStep DEF InitLedger, CreateLedgerView
<1>7. ASSUME NEW h \in HouseIds, HouseStep(h) PROVE HistoryInv'
  BY <1>7, QuietStep DEF HouseStep, InitHouseLedger, CreateHouseLedgerView, CreateHouseAccount
<1>8. CASE Fault
  <2>1. CASE CommandFails
    BY <1>8, <2>1, QuietStep DEF Fault, CommandFails, AfterFailedInit, IdleProcessor
  <2>2. CASE DispatchFails
    <3>1. CASE processor.step = "initiated" /\ GoTo("approve")
      <4>1. processor'.step = "approve"
        BY <3>1 DEF GoTo, AInv, TypeOK
      <4> QED BY <1>8, <2>2, <3>1, <4>1, QuietStep DEF Fault, DispatchFails
    <3>2. CASE processor' = IdleProcessor
      BY <1>8, <2>2, <3>2, RowLost DEF Fault, DispatchFails
    <3> QED BY <2>2, <3>1, <3>2 DEF DispatchFails
  <2>3. CASE Crash
    BY <1>8, <2>3, RowLost DEF Fault, Crash
  <2>4. ASSUME NEW h \in HouseIds, HouseRequestFails(h) PROVE HistoryInv'
    BY <1>8, <2>4, QuietStep DEF Fault, HouseRequestFails
  <2> QED BY <1>8, <2>1, <2>2, <2>3, <2>4 DEF Fault
<1> QED BY <1>1, <1>2, <1>3, <1>4, <1>5, <1>6, <1>7, <1>8, ReceiveCommandHistory,
       CommitOpenedHistory, DispatchHistory, CommitApprovedHistory
    DEF Next, ProcessorStep

(* What an account's log begins with, what its row shows of it, and which   *)
(* rows of a holder are missing: kept by processor, requests and crashes.   *)
THEOREM AccountsHistoryInvariant == Spec => []HistoryInv
BY AInit, AStep, HistoryInit, HistoryStep, PTL DEF Spec

(* The accounts of a holder that are not lost: the one with a row, or the *)
(* one that is about to get it.                                           *)
LEMMA OneNotLost ==
  ASSUME AInv, HistoryInv, NEW h \in Holders,
         NEW a \in Opened(h) \ Lost(h), NEW b \in Opened(h) \ Lost(h)
  PROVE  a = b
<1> DEFINE Kept(c) == \/ bank_account_views[c] # NoView
                      \/ processor.step = "opened" /\ processor.command.id = c
<1>1. a \in AccountIds /\ b \in AccountIds /\ Kept(a) /\ Kept(b)
  <2>1. ASSUME NEW c \in Opened(h) \ Lost(h)
        PROVE  c \in AccountIds /\ Kept(c)
    <3>1. c \in AccountIds
      BY DEF Opened
    <3>2. c \in Opened(h) /\ c \notin Lost(h)
      OBVIOUS
    <3> QED BY <3>1, <3>2 DEF Lost
  <2> HIDE DEF Kept
  <2> QED BY <2>1
<1>2. ASSUME NEW c \in Opened(h), bank_account_views[c] # NoView
      PROVE  bank_account_views[c].holder = h
  <2>1. c \in AccountIds
    BY DEF Opened
  <2>2. AccountOpened(bank_account_views[c].holder) = AccountOpened(h)
    BY <1>2, <2>1, LogFacts
  <2> QED BY <2>2 DEF AccountOpened
<1>3. ASSUME NEW c \in Opened(h), processor.step = "opened", processor.command.id = c
      PROVE  processor.command.holder = h
  <2> DEFINE log == bank_account_events[c]
  <2>1. /\ c \in AccountIds /\ log # <<>> /\ log[1] = AccountOpened(h)
        /\ log \in Seq(AccountEvent) /\ DOMAIN log = 1..Len(log) /\ Len(log) \in Nat
    BY LogFacts DEF Opened
  <2>2. Last(log) = AccountOpened(processor.command.holder)
    BY <1>3 DEF AInv, ProcessorInv
  <2>3. Len(log) \in DOMAIN log /\ Last(log) = log[Len(log)]
    BY <2>1 DEF Last
  <2>4. Len(log) = 1
    <3>1. log[Len(log)].type = "AccountOpened"
      BY <2>2, <2>3 DEF AccountOpened
    <3> QED BY <2>1, <2>3, <3>1 DEF HistoryInv, OpenedFirst
  <2> QED BY <2>1, <2>2, <2>3, <2>4 DEF AccountOpened
<1>4. ASSUME processor.step = "opened", NEW c \in AccountIds
      PROVE  bank_account_views[c].holder # processor.command.holder
  BY <1>4 DEF AInv, ProcessorInv
<1> QED BY <1>1, <1>2, <1>3, <1>4 DEF AInv, OneViewPerHolder

(* A holder gets a second account only where a fault has taken the row of  *)
(* the first: validate_account_creation sees the rows and nothing else.    *)
THEOREM DuplicatesNeedFaultsAlways == Spec => []DuplicatesNeedFaults
<1>1. AInv /\ HistoryInv => DuplicatesNeedFaults
  <2> SUFFICES ASSUME AInv, HistoryInv, NEW h \in Holders
               PROVE  Cardinality(Opened(h)) <= 1 + faults
    BY DEF DuplicatesNeedFaults
  <2>1. /\ IsFiniteSet(Lost(h)) /\ Cardinality(Lost(h)) <= faults
        /\ Cardinality(Lost(h)) \in Nat /\ faults \in Nat
    BY FS_CardinalityType, AccountsAssumption DEF HistoryInv, LossesAreFaults, AInv, TypeOK
  <2>2. CASE Opened(h) \subseteq Lost(h)
    <3>1. Cardinality(Opened(h)) <= Cardinality(Lost(h)) /\ Cardinality(Opened(h)) \in Nat
      BY <2>1, <2>2, FS_Subset, FS_CardinalityType
    <3> QED BY <2>1, <3>1
  <2>3. CASE ~(Opened(h) \subseteq Lost(h))
    <3>1. PICK a \in Opened(h) \ Lost(h) : TRUE
      BY <2>3
    <3>2. Opened(h) = Lost(h) \cup {a}
      BY <3>1, OneNotLost DEF Lost
    <3>3. Cardinality(Lost(h) \cup {a}) = Cardinality(Lost(h)) + 1
      BY <2>1, <3>1, FS_AddElement
    <3> QED BY <2>1, <3>2, <3>3
  <2> QED BY <2>2, <2>3
<1> QED BY <1>1, AccountsInvariant, AccountsHistoryInvariant, PTL

-----------------------------------------------------------------------------
(* The row that Update makes of a log.                                     *)

Row ==
  [status: {"none", "Pending", "Approved"}, holder: Holders \cup {NoHolder},
   ledger_id: LedgerIds \cup {NoLedger}]

LEMMA UpdateRow ==
  ASSUME NEW row \in Row, NEW event \in AccountEvent
  PROVE  Update(row, event) \in Row
<1>1. CASE event \in {AccountOpened(h) : h \in Holders}
  BY <1>1 DEF Row, AccountOpened, Update
<1>2. CASE event \in {AccountKycApproved(l) : l \in LedgerIds}
  <2>1. PICK l \in LedgerIds : event = AccountKycApproved(l)
    BY <1>2
  <2>2. Update(row, event) = [row EXCEPT !.status = "Approved", !.ledger_id = l]
    BY <2>1 DEF AccountKycApproved, Update
  <2> QED BY <2>2 DEF Row
<1> QED BY <1>1, <1>2 DEF AccountEvent

(* What Update makes, one by one, of a log's events is what a fold makes. *)
LEMMA UpdateFold ==
  ASSUME NEW log \in Seq(AccountEvent), NEW h, h[0] = NoView,
         \A k \in 1..Len(log) : h[k] = Update(h[k - 1], log[k])
  PROVE  FoldLeft(Update, NoView, log) = h[Len(log)]
<1> DEFINE n == Len(log)
           P(f) == f = [s \in SUBSET DOMAIN log |->
                          IF s = {} THEN NoView ELSE Update(f[s \ {Max(s)}], log[Max(s)])]
           G == [p \in Row \X (1..n) |-> Update(p[1], log[p[2]])]
           d == CHOOSE f : P(f)
<1>1. n \in Nat /\ DOMAIN log = 1..n /\ \A k \in 1..n : log[k] \in AccountEvent
  OBVIOUS
<1>2. NoView \in Row
  BY DEF NoView, Row
<1>3. G \in [Row \X (1..n) -> Row]
  BY <1>1, UpdateRow
<1>4. PICK c \in [SUBSET (1..n) -> Row] : Folding(c, G, NoView, n)
  <2> HIDE DEF G
  <2> QED BY <1>1, <1>2, <1>3, FoldingExists
<1>5. P(c)
  <2>1. ASSUME NEW s \in SUBSET (1..n), s # {}
        PROVE  G[<<c[s \ {Max(s)}], Max(s)>>] = Update(c[s \ {Max(s)}], log[Max(s)])
    <3>1. Max(s) \in 1..n
      BY <1>1, <2>1, MaxOf
    <3>2. c[s \ {Max(s)}] \in Row
      OBVIOUS
    <3> QED BY <3>1, <3>2
  <2> HIDE DEF G
  <2> QED BY <1>1, <1>4, <2>1 DEF Folding
<1>6. P(d)
  <2> HIDE DEF P
  <2> QED BY <1>5
<1>7. FoldLeft(Update, NoView, log) = d[DOMAIN log]
  BY DEF FoldLeft, MapThenFoldSet
<1> HIDE DEF d
<1> DEFINE W == {d[s] : s \in SUBSET (1..n)} \cup {h[k] : k \in 0..n}
           H == [p \in W \X (1..n) |-> Update(p[1], log[p[2]])]
<1>8. Folding(d, H, NoView, n)
  <2>1. ASSUME NEW s \in SUBSET (1..n), s # {}
        PROVE  H[<<d[s \ {Max(s)}], Max(s)>>] = Update(d[s \ {Max(s)}], log[Max(s)])
    <3>1. Max(s) \in 1..n
      BY <1>1, <2>1, MaxOf
    <3>2. d[s \ {Max(s)}] \in W
      OBVIOUS
    <3> QED BY <3>1, <3>2
  <2> HIDE DEF H
  <2> QED BY <1>1, <1>6, <2>1 DEF Folding
<1>9. \A k \in 1..n : h[k] = H[<<h[k - 1], k>>]
  <2> SUFFICES ASSUME NEW k \in 1..n PROVE h[k] = H[<<h[k - 1], k>>]
    OBVIOUS
  <2>1. k - 1 \in 0..n
    BY <1>1
  <2>2. h[k - 1] \in W
    BY <2>1
  <2> QED BY <2>2
<1> HIDE DEF H
<1>10. d[1..n] = h[n]
  BY <1>1, <1>8, <1>9, FoldingPrefix
<1> QED BY <1>1, <1>7, <1>10

(* Every row is what BankAccountView::update makes of the account's log up *)
(* to some event: it may lag behind, but skips none.                       *)
THEOREM ViewIsPastAlways == Spec => []ViewIsPast
<1>1. AInv /\ HistoryInv => ViewIsPast
  <2> SUFFICES ASSUME AInv, HistoryInv, NEW a \in AccountIds, bank_account_views[a] # NoView
               PROVE  \E n \in DOMAIN bank_account_events[a] :
                        bank_account_views[a] =
                          FoldLeft(Update, NoView, SubSeq(bank_account_events[a], 1, n))
    BY DEF ViewIsPast
  <2> DEFINE log == bank_account_events[a]
  <2>1. PICK n \in DOMAIN log : bank_account_views[a] = RowAt(log, n)
    BY DEF HistoryInv, RowsArePast
  <2>2. log \in Seq(AccountEvent) /\ Len(log) \in Nat /\ DOMAIN log = 1..Len(log)
    BY LogFacts
  <2> DEFINE part == SubSeq(log, 1, n)
             h == [k \in 0..n |-> IF k = 0 THEN NoView ELSE RowAt(log, k)]
  <2>3. /\ n \in Nat /\ part \in Seq(AccountEvent) /\ Len(part) = n
        /\ \A k \in 1..n : part[k] = log[k] /\ k \in DOMAIN log
    BY <2>1, <2>2
  <2>4. ASSUME NEW k \in 1..n PROVE h[k] = Update(h[k - 1], log[k])
    <3>1. k \in DOMAIN log /\ k - 1 \in 0..n /\ k \in 0..n
      BY <2>3
    <3>2. h[k] = RowAt(log, k)
      BY <3>1
    <3>3. log[k].type = "AccountOpened" <=> k = 1
      BY <3>1 DEF HistoryInv, OpenedFirst
    <3>4. CASE k = 1
      BY <3>1, <3>2, <3>3, <3>4 DEF RowAt, Update, NoView
    <3>5. CASE k # 1
      <4>1. h[k - 1] = RowAt(log, k - 1)
        BY <3>1, <3>5
      <4>2. PICK s, l : h[k - 1] = [status |-> s, holder |-> log[1].holder, ledger_id |-> l]
        BY <4>1 DEF RowAt
      <4>3. \A event : event.type # "AccountOpened" =>
              Update([status |-> s, holder |-> log[1].holder, ledger_id |-> l], event)
                = [status |-> "Approved", holder |-> log[1].holder,
                   ledger_id |-> event.ledger_id]
        BY DEF Update
      <4>4. h[k] = [status |-> "Approved", holder |-> log[1].holder,
                    ledger_id |-> log[k].ledger_id]
        BY <3>2, <3>5 DEF RowAt
      <4> HIDE DEF h
      <4> QED BY <3>3, <3>5, <4>2, <4>3, <4>4
    <3> QED BY <3>4, <3>5
  <2>5. h[0] = NoView /\ h[n] = RowAt(log, n)
    BY <2>1, <2>2, <2>3
  <2> HIDE DEF h, part
  <2>6. FoldLeft(Update, NoView, part) = h[n]
    BY <2>3, <2>4, <2>5, UpdateFold
  <2> QED BY <2>1, <2>5, <2>6 DEF part
<1> QED BY <1>1, AccountsInvariant, AccountsHistoryInvariant, PTL
=============================================================================
