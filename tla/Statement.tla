----------------------------- MODULE Statement -----------------------------
(***************************************************************************)
(* The list of an account's transactions, as transaction_query_handler     *)
(* answers it page by page, while the processor records transactions and   *)
(* the job completes them; and the amounts in it, next to what the journal *)
(* and the ledger have of the same transaction.                            *)
(*                                                                         *)
(* The amount of a command is a decimal with any number of digits.  The    *)
(* outbox payload, and so the ledger, gets all of them, a journal line     *)
(* four decimals, the row of transactions two, and the list shows that row *)
(* at the currency's precision.                                            *)
(***************************************************************************)
EXTENDS Money, Sequences, FiniteSets

CONSTANTS
  Amounts,            \* amounts of deposits, in units of 1/One
  AccountCurrency,
  Limit,              \* the limit the reader asks for
  MaxTransactions     \* bound

ASSUME StatementAssumption ==
  /\ Amounts \subseteq Int
  /\ AccountCurrency \in Currency
  /\ Limit \in Nat \ {0}
  /\ MaxTransactions \in Nat

VARIABLES
  transactions,   \* table transactions, in the order of created_at
  ledger,         \* what the job has credited
  reader          \* a client that reads the list to its end

statementVars == <<transactions, ledger, reader>>

Transaction ==
  [amount: Int,    \* of the outbox payload
   column: Int, line: Int,
   status: {"processing", "completed"},
   updated_at: Nat]

(* `known` is how many transactions there were when the reader began, *)
(* `shown` the amounts it has got, by transaction.                    *)
Reader ==
  [step: {"idle", "reading", "done"}, offset: Nat, known: Nat,
   shown: SUBSET [transaction: Nat, amount: Int]]

IdleReader == [step |-> "idle", offset |-> 0, known |-> 0, shown |-> {}]

StatementTypeOK ==
  /\ transactions \in Seq(Transaction)
  /\ ledger \in Money
  /\ reader \in Reader

StatementInit ==
  /\ transactions = <<>>
  /\ ledger = Amount(0, AccountCurrency)
  /\ reader = IdleReader

-----------------------------------------------------------------------------
(* CURRENT_TIMESTAMP, as far as rows are ordered by it: later than in any row. *)
Now == Len(transactions)
         + Cardinality({n \in DOMAIN transactions : transactions[n].status = "completed"})

(* create_transaction_with_journal *)
Record(a) ==
  /\ Len(transactions) < MaxTransactions
  /\ transactions' =
       Append(transactions,
              [amount |-> a, column |-> TransactionColumn(a), line |-> JournalColumn(a),
               status |-> "processing", updated_at |-> Now])
  /\ UNCHANGED <<ledger, reader>>

(* The job credits the ledger by the payload and completes the row. *)
Complete(n) ==
  /\ transactions[n].status = "processing"
  /\ ledger' = Add(ledger, Amount(transactions[n].amount, AccountCurrency))
  /\ transactions' = [transactions EXCEPT ![n].status = "completed", ![n].updated_at = Now]
  /\ UNCHANGED reader

-----------------------------------------------------------------------------
(* Rows in front of row n in ORDER BY created_at DESC. *)

(* Mutant of Before: the rows changed last come first. *)
BeforeByUpdate(m, n) == transactions[m].updated_at > transactions[n].updated_at

Before(m, n) == m > n

Position(n) == Cardinality({m \in DOMAIN transactions : Before(m, n)})

(* get_transactions: OFFSET and LIMIT. *)
Page(offset, limit) ==
  {n \in DOMAIN transactions : offset <= Position(n) /\ Position(n) < offset + limit}

(* into_transaction_with_money: the row at the currency's precision.  The  *)
(* format of a Decimal may round or cut off the rest.                      *)
Shown(n) ==
  LET unit == Precision(AccountCurrency) IN
  {Rounded(transactions[n].column, unit), CutOff(transactions[n].column, unit)}

(* A client asks for one page after the other, until one is not full. *)
ReadPage ==
  /\ reader.step \in {"idle", "reading"}
  /\ LET page == Page(reader.offset, Limit) IN
     \E amounts \in [page -> UNION {Shown(n) : n \in page}] :
       /\ \A n \in page : amounts[n] \in Shown(n)
       /\ reader' =
            [step   |-> IF Cardinality(page) < Limit THEN "done" ELSE "reading",
             offset |-> reader.offset + Limit,
             known  |-> IF reader.step = "idle" THEN Len(transactions) ELSE reader.known,
             shown  |-> reader.shown
                          \cup {[transaction |-> n, amount |-> amounts[n]] : n \in page}]
  /\ UNCHANGED <<transactions, ledger>>

ReadAgain ==
  /\ reader.step = "done"
  /\ reader' = IdleReader
  /\ UNCHANGED <<transactions, ledger>>

StatementNext ==
  \/ \E a \in Amounts : Record(a)
  \/ \E n \in DOMAIN transactions : Complete(n)
  \/ ReadPage \/ ReadAgain

StatementSpec == StatementInit /\ [][StatementNext]_statementVars

-----------------------------------------------------------------------------
(* Properties.                                                             *)

(* Whoever reads to the end has got every transaction that was there when  *)
(* the reading began, though rows are added and completed between pages.   *)
NothingIsSkipped ==
  reader.step = "done" =>
    1..reader.known \subseteq {s.transaction : s \in reader.shown}

(* The ledger, the journal line, the row and the list have the same amount *)
(* if it has no more decimals than its currency; otherwise the row is off  *)
(* by no more than half a cent and the list by less than the smallest      *)
(* amount of the currency.                                                 *)
AmountsAgree ==
  \A n \in DOMAIN transactions :
    LET t     == transactions[n]
        unit  == Precision(AccountCurrency)
        shown == {s.amount : s \in {r \in reader.shown : r.transaction = n}}
        off(x) == IF x >= t.amount THEN x - t.amount ELSE t.amount - x
    IN  /\ t.amount % unit = 0 =>
             t.column = t.amount /\ t.line = t.amount /\ shown \subseteq {t.amount}
        /\ 2 * off(t.column) <= One \div 100
        /\ \A s \in shown : off(s) < unit
=============================================================================
