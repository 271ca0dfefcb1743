------------------------------- MODULE Money -------------------------------
(***************************************************************************)
(* Amounts of money: the type Money of common/money.rs, what the columns   *)
(* of the tables keep of an amount, and what a statement shows of it.      *)
(*                                                                         *)
(* A Decimal is an integer here, counted in units of 1/One: One = 100000   *)
(* gives five decimals, one more than any column keeps.                    *)
(***************************************************************************)
EXTENDS Integers

CONSTANT One

(* The journal's four decimals can be told apart, and a digit behind them. *)
ASSUME OneAssumption == One \in Nat \ {0} /\ One % 10000 = 0

USD == "USD"
TWD == "TWD"
Currency == {USD, TWD}

Amount(m, c) == [amount |-> m, currency |-> c]

Money == [amount: Int, currency: Currency]

(* The smallest amount a currency has: its precision is 2 or 0 decimals. *)
Precision(c) == IF c = USD THEN One \div 100 ELSE One

(* Add panics when the currencies differ; Bank shows that they do not. *)
Add(m, n) == Amount(m.amount + n.amount, m.currency)

-----------------------------------------------------------------------------
(* Postgres rounds what it stores to the column's scale, halves away from *)
(* zero.                                                                   *)
Rounded(a, unit) ==
  IF a >= 0 THEN ((2 * a + unit) \div (2 * unit)) * unit
            ELSE -(((unit - 2 * a) \div (2 * unit)) * unit)

(* Rust cuts off what the precision of a format has no room for. *)
CutOff(a, unit) == IF a >= 0 THEN (a \div unit) * unit ELSE -(((-a) \div unit) * unit)

(* Mutant of TransactionColumn: the decimals are cut off by a cast. *)
ColumnOfUnits(a) == CutOff(a, One)

(* decimal(19,2) of transactions, decimal(19,4) of journal_lines. *)
TransactionColumn(a) == Rounded(a, One \div 100)
JournalColumn(a) == Rounded(a, One \div 10000)
=============================================================================
