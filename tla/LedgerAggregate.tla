--------------------------- MODULE LedgerAggregate ---------------------------
(***************************************************************************)
(* The pure part of a ledger: which events a LedgerCommand produces        *)
(* (Ledger::handle), how the aggregate is rebuilt from its events          *)
(* (Ledger::apply) and how the read model follows them                     *)
(* (LedgerView::update).  Money is an integer: the ledger of an account    *)
(* holds one currency, and the guard that keeps other currencies away is   *)
(* in Payments.  Ids of the event's base record, timestamps and the        *)
(* aggregate's `amount` (the last event's amount, read by nobody) carry no *)
(* control and are left out.                                               *)
(***************************************************************************)
EXTENDS Integers, Sequences, SequencesExt

CONSTANTS
  Ledgers,     \* ledger ids
  TxId         \* transaction ids

(* Transactions are named by their order of creation. *)
ASSUME TxIdAssumption == TxId \subseteq Nat \ {0}

NoTxId == 0

CommandType == {"Credit", "DebitHold", "DebitRelease"}

(* A LedgerCommand on a ledger that exists; LedgerCommand::Init only ever  *)
(* creates one.                                                            *)
LedgerCommand ==
  [type: CommandType, ledger: Ledgers, transaction_id: TxId, amount: Int]

MovementType == {"credit_hold", "credit_release", "debit_hold", "debit_release"}

LedgerEvent ==
  [transaction_type: MovementType \cup {"initiated"},
   transaction_id: TxId \cup {NoTxId},
   available_delta: Int,
   pending_delta: Int]

Balance == [available: Int, pending: Int, current: Int]

ZeroBalance == [available |-> 0, pending |-> 0, current |-> 0]

(* LedgerInitiated carries the opening amount instead of deltas. *)
LedgerInitiated(amount) ==
  [transaction_type |-> "initiated", transaction_id |-> NoTxId,
   available_delta |-> amount, pending_delta |-> 0]

LedgerUpdated(type, t, available, pending) ==
  [transaction_type |-> type, transaction_id |-> t,
   available_delta |-> available, pending_delta |-> pending]

-----------------------------------------------------------------------------
(* Mutant of Handle: the hold forgets to take the money out of available. *)
HandleHoldKeepsAvailable(command) ==
  LET t == command.transaction_id
      a == command.amount
  IN  CASE command.type = "DebitHold"    -> << LedgerUpdated("debit_hold", t, 0, a) >>
        [] command.type = "DebitRelease" -> << LedgerUpdated("debit_release", t, 0, -a) >>
        [] command.type = "Credit"       -> << LedgerUpdated("credit_hold", t, 0, a),
                                               LedgerUpdated("credit_release", t, a, -a) >>

(* The events one command produces, committed together. *)
Handle(command) ==
  LET t == command.transaction_id
      a == command.amount
  IN  CASE command.type = "DebitHold"    -> << LedgerUpdated("debit_hold", t, -a, a) >>
        [] command.type = "DebitRelease" -> << LedgerUpdated("debit_release", t, 0, -a) >>
        [] command.type = "Credit"       -> << LedgerUpdated("credit_hold", t, 0, a),
                                               LedgerUpdated("credit_release", t, a, -a) >>

(* LedgerView::update.  The aggregate's Ledger::apply does the same to     *)
(* available and pending, and has no `current`.                            *)
Update(view, event) ==
  IF event.transaction_type = "initiated"
  THEN [available |-> event.available_delta, pending |-> 0,
        current |-> event.available_delta]
  ELSE LET available == view.available + event.available_delta
           pending   == view.pending + event.pending_delta
       IN  [available |-> available, pending |-> pending,
            current |-> available + pending]

(* load_aggregate: the balance a replay of the stored events gives.  It is *)
(* the ledger's true balance; the view is a copy of it.                    *)
Replay(events) == FoldLeft(Update, ZeroBalance, events)

(* The events of one commit (one, or a Credit's two), dispatched to the view. *)
UpdateAll(view, events) ==
  IF Len(events) = 1 THEN Update(view, events[1])
                     ELSE Update(Update(view, events[1]), events[2])
=============================================================================
