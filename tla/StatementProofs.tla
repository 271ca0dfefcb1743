-------------------------- MODULE StatementProofs --------------------------
(***************************************************************************)
(* Proofs about Statement, for any amounts, page size and number of        *)
(* transactions.                                                           *)
(*                                                                         *)
(* NothingIsSkipped rests on the order of the list: rows are only added in *)
(* front and none moves, so what the reader has is always a tail of the    *)
(* table, counted from its end.  `known` rows were there at the start; of  *)
(* them the reader has those that are more than Len - offset.  A row added *)
(* meanwhile makes this tail shorter than the offset, never longer.        *)
(***************************************************************************)
EXTENDS Statement, FiniteSetTheorems, SequenceTheorems, TLAPS

ShownTransactions == {s.transaction : s \in reader.shown}

(* The reader has all of the first `known` rows that its offset is past. *)
TailIsShown ==
  reader.step = "reading" =>
    /\ reader.known <= Len(transactions)
    /\ \A n \in 1..reader.known :
         n > Len(transactions) - reader.offset => n \in ShownTransactions

NInv ==
  /\ StatementTypeOK
  /\ reader.step = "idle" => reader = IdleReader
  /\ TailIsShown
  /\ NothingIsSkipped

-----------------------------------------------------------------------------
(* ORDER BY created_at DESC: the last row recorded is the first. *)
LEMMA PositionIs ==
  ASSUME StatementTypeOK, NEW n \in DOMAIN transactions
  PROVE  Position(n) = Len(transactions) - n
  <1> DEFINE len == Len(transactions)
  <1>1. len \in Nat /\ DOMAIN transactions = 1..len /\ n \in 1..len
    BY DEF StatementTypeOK
  <1>2. {m \in DOMAIN transactions : Before(m, n)} = (n + 1)..len
    <2>1. \A m : m \in 1..len /\ m > n <=> m \in (n + 1)..len
      BY <1>1
    <2> QED
      BY <1>1, <2>1 DEF Before
  <1>3. Cardinality((n + 1)..len) = IF n + 1 > len THEN 0 ELSE len - (n + 1) + 1
    <2>1. n + 1 \in Int /\ len \in Int
      BY <1>1
    <2> HIDE DEF len
    <2> QED
      BY <2>1, FS_Interval
  <1>4. Cardinality((n + 1)..len) = len - n
    BY <1>1, <1>3
  <1> QED
    BY <1>2, <1>4 DEF Position

(* A page is an interval of rows, and full unless it reaches the oldest. *)
LEMMA PageIs ==
  ASSUME StatementTypeOK, NEW offset \in Nat
  PROVE  /\ IsFiniteSet(Page(offset, Limit))
         /\ Page(offset, Limit) \subseteq 1..Len(transactions)
         /\ \A n \in 1..Len(transactions) :
              n \in Page(offset, Limit)
                <=> /\ n <= Len(transactions) - offset
                    /\ n > Len(transactions) - (offset + Limit)
         /\ Cardinality(Page(offset, Limit)) < Limit => Len(transactions) < offset + Limit
  <1> DEFINE len == Len(transactions)
             page == Page(offset, Limit)
  <1> USE StatementAssumption
  <1>1. len \in Nat /\ DOMAIN transactions = 1..len
    BY DEF StatementTypeOK
  <1>2. \A n \in 1..len :
          n \in page <=> n <= len - offset /\ n > len - (offset + Limit)
    BY <1>1, PositionIs DEF Page
  <1>3. page \subseteq 1..len
    BY <1>1 DEF Page
  <1>4. IsFiniteSet(page)
    <2>1. IsFiniteSet(1..len)
      BY <1>1, FS_Interval
    <2> QED
      BY <1>3, <2>1, FS_Subset
  <1>5. ASSUME len >= offset + Limit
        PROVE  Cardinality(page) = Limit
    <2>1. page = (len - (offset + Limit) + 1)..(len - offset)
      <3>1. \A n : n \in (len - (offset + Limit) + 1)..(len - offset)
                    <=> /\ n \in 1..len
                        /\ n <= len - offset /\ n > len - (offset + Limit)
        BY <1>1, <1>5
      <3>2. \A n : n \in page <=> n \in (len - (offset + Limit) + 1)..(len - offset)
        BY <1>2, <1>3, <3>1
      <3> HIDE DEF page
      <3> QED
        BY <3>2
    <2>2. /\ len - (offset + Limit) + 1 \in Int /\ len - offset \in Int
          /\ len - (offset + Limit) + 1 <= len - offset
      BY <1>1
    <2>3. Cardinality((len - (offset + Limit) + 1)..(len - offset))
            = (len - offset) - (len - (offset + Limit) + 1) + 1
      BY <2>2, FS_Interval
    <2> QED
      BY <1>1, <2>1, <2>3
  <1> QED
    BY <1>1, <1>2, <1>3, <1>4, <1>5

(* Columns hold whole numbers, whatever the amount. *)
LEMMA RoundingTypes ==
  ASSUME NEW a \in Int, NEW unit \in Nat \ {0}
  PROVE  Rounded(a, unit) \in Int /\ CutOff(a, unit) \in Int
  <1>1. 2 * unit \in Nat \ {0}
    OBVIOUS
  <1>2. \A x \in Int : x \div (2 * unit) \in Int /\ x \div unit \in Int
    BY <1>1
  <1>3. (2 * a + unit) \div (2 * unit) \in Int /\ (unit - 2 * a) \div (2 * unit) \in Int
    BY <1>2
  <1>4. a \div unit \in Int /\ (-a) \div unit \in Int
    BY <1>2
  <1> QED
    BY <1>3, <1>4 DEF Rounded, CutOff

LEMMA UnitsArePositive ==
  /\ One \div 100 \in Nat \ {0}
  /\ One \div 10000 \in Nat \ {0}
  BY OneAssumption

LEMMA ColumnTypes ==
  ASSUME NEW a \in Int
  PROVE  TransactionColumn(a) \in Int /\ JournalColumn(a) \in Int
  <1> DEFINE cent == One \div 100
             unit == One \div 10000
  <1>1. cent \in Nat \ {0} /\ unit \in Nat \ {0}
    BY UnitsArePositive
  <1>2. Rounded(a, cent) \in Int /\ Rounded(a, unit) \in Int
    <2> HIDE DEF cent, unit
    <2> QED
      BY <1>1, RoundingTypes
  <1> QED
    BY <1>2 DEF TransactionColumn, JournalColumn

LEMMA NowIsNat ==
  ASSUME StatementTypeOK
  PROVE  Now \in Nat
  <1> DEFINE completed == {n \in DOMAIN transactions : transactions[n].status = "completed"}
  <1>1. Len(transactions) \in Nat /\ DOMAIN transactions = 1..Len(transactions)
    BY DEF StatementTypeOK
  <1>2. IsFiniteSet(1..Len(transactions))
    BY <1>1, FS_Interval
  <1>3. IsFiniteSet(completed)
    BY <1>1, <1>2, FS_Subset
  <1>4. Cardinality(completed) \in Nat
    BY <1>3, FS_CardinalityType
  <1> QED
    BY <1>1, <1>4 DEF Now


(* Every row that is recorded, shown or completed is of the right type. *)
LEMMA NInvInit == StatementInit => NInv
  <1> SUFFICES ASSUME StatementInit PROVE NInv
    OBVIOUS
  <1>1. StatementTypeOK
    BY StatementAssumption
    DEF StatementInit, StatementTypeOK, IdleReader, Reader, Amount, Money
  <1>2. TailIsShown /\ NothingIsSkipped
    BY DEF StatementInit, TailIsShown, NothingIsSkipped, IdleReader
  <1> QED
    BY <1>1, <1>2 DEF NInv, StatementInit

(* A recorded row comes in front of all: the tail the reader has is still *)
(* at least as long as its offset asks for.                               *)
LEMMA RecordKeepsNInv ==
  ASSUME NInv, NEW a \in Amounts, Record(a)
  PROVE  NInv'
  <1> DEFINE t == [amount |-> a, column |-> TransactionColumn(a), line |-> JournalColumn(a),
                   status |-> "processing", updated_at |-> Now]
  <1> USE DEF Record
  <1>0. StatementTypeOK
    BY DEF NInv
  <1>1. transactions' = Append(transactions, t) /\ UNCHANGED <<ledger, reader>>
    OBVIOUS
  <1>2. t \in Transaction
    <2>1. a \in Int
      BY StatementAssumption
    <2>3. TransactionColumn(a) \in Int /\ JournalColumn(a) \in Int
      BY <2>1, ColumnTypes
    <2>4. Now \in Nat
      BY <1>0, NowIsNat
    <2> QED
      BY <2>1, <2>3, <2>4 DEF Transaction
  <1>3. /\ transactions' \in Seq(Transaction)
        /\ Len(transactions') = Len(transactions) + 1
        /\ Len(transactions) \in Nat
    <2> HIDE DEF t
    <2>1. transactions \in Seq(Transaction)
      BY <1>0 DEF StatementTypeOK
    <2> QED
      BY <1>1, <1>2, <2>1, AppendProperties
  <1>4. StatementTypeOK'
    BY <1>0, <1>1, <1>3 DEF StatementTypeOK
  <1>5. TailIsShown'
    BY <1>0, <1>1, <1>3 DEF NInv, TailIsShown, ShownTransactions, StatementTypeOK, Reader
  <1>6. NothingIsSkipped'
    BY <1>1 DEF NInv, NothingIsSkipped
  <1> QED
    BY <1>1, <1>4, <1>5, <1>6 DEF NInv

(* Completing a row changes none of its places. *)
LEMMA CompleteKeepsNInv ==
  ASSUME NInv, NEW n \in DOMAIN transactions, Complete(n)
  PROVE  NInv'
  <1> USE DEF Complete
  <1>0. StatementTypeOK
    BY DEF NInv
  <1>1. /\ transactions \in Seq(Transaction)
        /\ transactions' = [transactions EXCEPT ![n].status = "completed", ![n].updated_at = Now]
        /\ Now \in Nat
    BY <1>0, NowIsNat DEF StatementTypeOK
  <1>2. transactions[n] \in Transaction
    BY <1>1
  <1>3. [transactions[n] EXCEPT !.status = "completed", !.updated_at = Now] \in Transaction
    BY <1>1, <1>2 DEF Transaction
  <1>4. transactions' = [transactions EXCEPT ![n] =
                           [transactions[n] EXCEPT !.status = "completed", !.updated_at = Now]]
    BY <1>1
  <1>5. transactions' \in Seq(Transaction) /\ Len(transactions') = Len(transactions)
    <2> DEFINE t == [transactions[n] EXCEPT !.status = "completed", !.updated_at = Now]
    <2>1. n \in 1..Len(transactions) /\ t \in Transaction
      BY <1>1, <1>3
    <2>2. transactions' = [transactions EXCEPT ![n] = t]
      BY <1>4
    <2>3. transactions \in Seq(Transaction)
      BY <1>1
    <2> HIDE DEF t
    <2>4. /\ [transactions EXCEPT ![n] = t] \in Seq(Transaction)
          /\ Len([transactions EXCEPT ![n] = t]) = Len(transactions)
      BY <2>1, <2>3, ExceptSeq
    <2> QED
      BY <2>2, <2>4
  <1>6. ledger' \in Money
    BY <1>0, <1>2, StatementAssumption DEF StatementTypeOK, Transaction, Add, Amount, Money
  <1>7. StatementTypeOK'
    BY <1>0, <1>5, <1>6 DEF StatementTypeOK
  <1>8. TailIsShown' /\ NothingIsSkipped'
    BY <1>5 DEF NInv, TailIsShown, NothingIsSkipped, ShownTransactions
  <1> QED
    BY <1>7, <1>8 DEF NInv

(* A page gives the reader the next part of the tail, and if it is not *)
(* full there is nothing beyond.                                       *)
LEMMA ReadKeepsNInv ==
  ASSUME NInv, ReadPage
  PROVE  NInv'
  <1> DEFINE page  == Page(reader.offset, Limit)
             known == IF reader.step = "idle" THEN Len(transactions) ELSE reader.known
             len   == Len(transactions)
  <1> USE StatementAssumption
  <1>0. StatementTypeOK
    BY DEF NInv
  <1>1. /\ reader.step \in {"idle", "reading"}
        /\ UNCHANGED <<transactions, ledger>>
    BY DEF ReadPage
  <1>2. PICK amounts \in [page -> UNION {Shown(n) : n \in page}] :
          /\ \A n \in page : amounts[n] \in Shown(n)
          /\ reader' =
               [step   |-> IF Cardinality(page) < Limit THEN "done" ELSE "reading",
                offset |-> reader.offset + Limit,
                known  |-> known,
                shown  |-> reader.shown
                             \cup {[transaction |-> n, amount |-> amounts[n]] : n \in page}]
    BY DEF ReadPage
  <1>3. /\ len \in Nat /\ reader.offset \in Nat /\ reader.known \in Nat
        /\ reader \in Reader
    BY <1>0 DEF StatementTypeOK, Reader
  <1>4. /\ page \subseteq 1..len
        /\ \A n \in 1..len :
             n \in page <=> n <= len - reader.offset /\ n > len - (reader.offset + Limit)
        /\ Cardinality(page) < Limit => len < reader.offset + Limit
    BY <1>0, <1>3, PageIs
  <1>5. known \in Nat /\ known <= len
    BY <1>1, <1>3 DEF NInv, TailIsShown
  <1>6. \A n \in 1..known : n > len - reader.offset => n \in ShownTransactions
    <2>1. CASE reader.step = "idle"
      BY <1>3, <2>1 DEF NInv, IdleReader
    <2>2. CASE reader.step = "reading"
      BY <2>2 DEF NInv, TailIsShown
    <2> QED
      BY <1>1, <2>1, <2>2
  <1>7. ShownTransactions' = ShownTransactions \cup page
    <2> DEFINE new == {[transaction |-> n, amount |-> amounts[n]] : n \in page}
    <2>1. reader'.shown = reader.shown \cup new
      BY <1>2
    <2> HIDE DEF page
    <2>2. \A s \in new : s.transaction \in page
      OBVIOUS
    <2>3. ASSUME NEW m \in page
          PROVE  \E s \in new : s.transaction = m
      <3>1. [transaction |-> m, amount |-> amounts[m]] \in new
        OBVIOUS
      <3> HIDE DEF new
      <3> QED
        BY <3>1
    <2> HIDE DEF new
    <2>4. {s.transaction : s \in reader'.shown}
            = {s.transaction : s \in reader.shown} \cup page
      BY <2>1, <2>2, <2>3
    <2> QED
      BY <2>4 DEF ShownTransactions
  <1>8. \A n \in 1..known :
          n > len - (reader.offset + Limit) => n \in ShownTransactions'
    BY <1>3, <1>4, <1>5, <1>6, <1>7
  <1>9. /\ reader'.step = IF Cardinality(page) < Limit THEN "done" ELSE "reading"
        /\ reader'.offset = reader.offset + Limit
        /\ reader'.known = known
        /\ reader'.shown = reader.shown
                              \cup {[transaction |-> n, amount |-> amounts[n]] : n \in page}
    BY <1>2
  <1>10. StatementTypeOK'
    <2>1. \A n \in page : amounts[n] \in Int
      <3> SUFFICES ASSUME NEW n \in page PROVE Shown(n) \subseteq Int
        BY <1>2
      <3>1. transactions[n] \in Transaction
        BY <1>0, <1>4 DEF StatementTypeOK
      <3>2. Precision(AccountCurrency) \in Nat \ {0}
        BY UnitsArePositive, OneAssumption DEF Precision
      <3> QED
        BY <3>1, <3>2, RoundingTypes DEF Shown, Transaction
    <2>2. {[transaction |-> n, amount |-> amounts[n]] : n \in page}
            \subseteq [transaction: Nat, amount: Int]
      BY <1>3, <1>4, <2>1
    <2>3. reader' \in Reader
      BY <1>2, <1>3, <1>5, <2>2 DEF Reader
    <2> QED
      BY <1>0, <1>1, <2>3 DEF StatementTypeOK
  <1>11. reader'.step # "idle"
    BY <1>9
  <1>12. TailIsShown'
    BY <1>1, <1>5, <1>8, <1>9 DEF TailIsShown
  <1>13. NothingIsSkipped'
    <2> SUFFICES ASSUME reader'.step = "done"
                 PROVE  1..known \subseteq ShownTransactions'
      BY <1>9 DEF NothingIsSkipped, ShownTransactions
    <2>1. len < reader.offset + Limit
      BY <1>4, <1>9
    <2>2. \A n \in 1..known : n > len - (reader.offset + Limit)
      BY <1>3, <1>5, <2>1
    <2> QED
      BY <1>8, <2>2
  <1> QED
    BY <1>10, <1>11, <1>12, <1>13 DEF NInv

LEMMA NInvNext == NInv /\ [StatementNext]_statementVars => NInv'
  <1> SUFFICES ASSUME NInv, [StatementNext]_statementVars PROVE NInv'
    OBVIOUS
  <1>1. ASSUME NEW a \in Amounts, Record(a) PROVE NInv'
    BY <1>1, RecordKeepsNInv
  <1>2. ASSUME NEW n \in DOMAIN transactions, Complete(n) PROVE NInv'
    BY <1>2, CompleteKeepsNInv
  <1>3. CASE ReadPage
    BY <1>3, ReadKeepsNInv
  <1>4. CASE ReadAgain
    <2>1. reader' = IdleReader /\ IdleReader \in Reader
      BY <1>4 DEF ReadAgain, IdleReader, Reader
    <2>2. reader'.step = "idle"
      BY <2>1 DEF IdleReader
    <2> QED
      BY <1>4, <2>1, <2>2
      DEF ReadAgain, NInv, StatementTypeOK, TailIsShown, NothingIsSkipped
  <1>5. CASE UNCHANGED statementVars
    BY <1>5 DEF statementVars, NInv, StatementTypeOK, TailIsShown, NothingIsSkipped,
                ShownTransactions
  <1> QED
    BY <1>1, <1>2, <1>3, <1>4, <1>5 DEF StatementNext

(* The inductive invariant of Statement holds in every reachable state. *)
THEOREM StatementInvariant == StatementSpec => []NInv
  BY NInvInit, NInvNext, PTL DEF StatementSpec

(* transaction_query_handler: whatever is recorded and completed between   *)
(* the pages, a client that reads to the end misses no transaction.        *)
THEOREM NothingIsSkippedAlways == StatementSpec => []NothingIsSkipped
  <1>1. NInv => NothingIsSkipped
    BY DEF NInv
  <1> QED
    BY <1>1, StatementInvariant, PTL

-----------------------------------------------------------------------------
(* What rounding does to an amount, for the columns and the display.       *)

LEMMA Units ==
  \E d \in Nat \ {0} :
    One = 10000 * d /\ One \div 10000 = d /\ One \div 100 = 100 * d
  <1>1. /\ One \in Nat \ {0}
        /\ One = 10000 * (One \div 10000)
        /\ One \div 10000 \in Nat \ {0}
    BY OneAssumption
  <1>2. One \div 100 = 100 * (One \div 10000)
    BY <1>1
  <1> DEFINE d == One \div 10000
  <1> HIDE DEF d
  <1>3. d \in Nat \ {0} /\ One = 10000 * d /\ One \div 10000 = d /\ One \div 100 = 100 * d
    BY <1>1, <1>2 DEF d
  <1> QED
    BY <1>3

(* Two multiples of a unit that are closer than the unit are the same. *)
LEMMA MultiplesApart ==
  ASSUME NEW u \in Nat \ {0}, NEW j \in Int, NEW k \in Int,
         j * u - k * u < u, k * u - j * u < u
  PROVE  j = k
  <1>1. CASE j > k
    <2>1. PICK m \in Nat : j = k + 1 + m
      BY <1>1
    <2>2. j * u = k * u + u + m * u /\ m * u >= 0
      BY <2>1
    <2> QED
      BY <2>2
  <1>2. CASE k > j
    <2>1. PICK m \in Nat : k = j + 1 + m
      BY <1>2
    <2>2. k * u = j * u + u + m * u /\ m * u >= 0
      BY <2>1
    <2> QED
      BY <2>2
  <1> QED
    BY <1>1, <1>2

LEMMA ScaledUp ==
  ASSUME NEW c \in Nat, NEW m \in Int, NEW n \in Int, m <= n
  PROVE  m * c <= n * c
  <1>1. PICK d \in Nat : n = m + d
    OBVIOUS
  <1>2. n * c = m * c + d * c /\ d * c >= 0
    BY <1>1
  <1> QED
    BY <1>2

LEMMA SmallMultiple ==
  ASSUME NEW c \in Nat \ {0}, NEW m \in Int, m * c < 100 * c
  PROVE  m <= 99
  <1> SUFFICES ASSUME 100 <= m PROVE FALSE
    OBVIOUS
  <1>1. 100 * c <= m * c
    BY ScaledUp
  <1> QED
    BY <1>1

LEMMA Division ==
  ASSUME NEW x \in Nat, NEW u \in Nat \ {0}
  PROVE  /\ x \div u \in Nat
         /\ (x \div u) * u <= x
         /\ x < (x \div u) * u + u
  OBVIOUS

LEMMA WholeMultiple ==
  ASSUME NEW a \in Int, NEW u \in Nat \ {0}, a % u = 0
  PROVE  \E m \in Int : a = m * u
  <1> DEFINE m == a \div u
  <1>1. m \in Int /\ a = m * u
    OBVIOUS
  <1> HIDE DEF m
  <1> QED
    BY <1>1

(* Rounding gives a multiple of the unit no more than half of it away. *)
LEMMA RoundedIs ==
  ASSUME NEW a \in Int, NEW u \in Nat \ {0}
  PROVE  \E k \in Int : /\ Rounded(a, u) = k * u
                        /\ 2 * (k * u) <= 2 * a + u
                        /\ 2 * a - u <= 2 * (k * u)
  <1> DEFINE w == 2 * u
  <1>1. w \in Nat \ {0}
    OBVIOUS
  <1>2. CASE a >= 0
    <2> DEFINE x == 2 * a + u
               k == x \div w
    <2>1. x \in Nat
      BY <1>2
    <2>2. k \in Nat /\ k * w <= x /\ x < k * w + w
      <3> HIDE DEF x, w
      <3> QED
        BY <1>1, <2>1, Division
    <2>3. k * w = 2 * (k * u)
      <3> HIDE DEF k
      <3> QED
        BY <2>2
    <2>4. Rounded(a, u) = k * u
      BY <1>2 DEF Rounded
    <2> HIDE DEF k
    <2> QED
      BY <2>2, <2>3, <2>4
  <1>3. CASE ~(a >= 0)
    <2> DEFINE x == u - 2 * a
               k == x \div w
    <2>1. x \in Nat
      BY <1>3
    <2>2. k \in Nat /\ k * w <= x /\ x < k * w + w
      <3> HIDE DEF x, w
      <3> QED
        BY <1>1, <2>1, Division
    <2>3. k * w = 2 * (k * u)
      <3> HIDE DEF k
      <3> QED
        BY <2>2
    <2>4. Rounded(a, u) = -(k * u)
      BY <1>3 DEF Rounded
    <2> HIDE DEF k
    <2>5. (-k) * u = -(k * u) /\ -k \in Int
      BY <2>2
    <2> QED
      BY <2>2, <2>3, <2>4, <2>5
  <1> QED
    BY <1>2, <1>3

(* Cutting off gives a multiple of the unit less than the unit away. *)
LEMMA CutOffIs ==
  ASSUME NEW a \in Int, NEW u \in Nat \ {0}
  PROVE  \E k \in Int : /\ CutOff(a, u) = k * u
                        /\ k * u - a < u
                        /\ a - k * u < u
  <1>1. CASE a >= 0
    <2> DEFINE k == a \div u
    <2>1. k \in Nat /\ k * u <= a /\ a < k * u + u
      BY <1>1, Division
    <2>2. CutOff(a, u) = k * u
      BY <1>1 DEF CutOff
    <2> HIDE DEF k
    <2> QED
      BY <2>1, <2>2
  <1>2. CASE ~(a >= 0)
    <2> DEFINE x == -a
               k == x \div u
    <2>1. x \in Nat
      BY <1>2
    <2>2. k \in Nat /\ k * u <= x /\ x < k * u + u
      <3> HIDE DEF x
      <3> QED
        BY <2>1, Division
    <2>3. CutOff(a, u) = -(k * u)
      BY <1>2 DEF CutOff
    <2> HIDE DEF k
    <2>4. (-k) * u = -(k * u) /\ -k \in Int
      BY <2>2
    <2> QED
      BY <2>2, <2>3, <2>4
  <1> QED
    BY <1>1, <1>2

(* A multiple of the unit is kept as it is. *)
LEMMA MultiplesAreKept ==
  ASSUME NEW u \in Nat \ {0}, NEW j \in Int
  PROVE  Rounded(j * u, u) = j * u /\ CutOff(j * u, u) = j * u
  <1>1. j * u \in Int
    OBVIOUS
  <1>2. PICK k \in Int : /\ Rounded(j * u, u) = k * u
                        /\ 2 * (k * u) <= 2 * (j * u) + u
                        /\ 2 * (j * u) - u <= 2 * (k * u)
    BY <1>1, RoundedIs
  <1>3. j * u - k * u < u /\ k * u - j * u < u
    BY <1>2
  <1>4. PICK m \in Int : /\ CutOff(j * u, u) = m * u
                        /\ m * u - j * u < u
                        /\ j * u - m * u < u
    BY <1>1, CutOffIs
  <1> QED
    BY <1>2, <1>3, <1>4, MultiplesApart

(* Shown after it was stored in cents: by rounding or cutting off to a     *)
(* unit that is a cent or a hundred of them.                               *)
LEMMA ShownIsNear ==
  ASSUME NEW c \in Nat \ {0}, NEW a \in Int, NEW u, u = c \/ u = 100 * c,
         NEW x, x = Rounded(a, c), NEW s, s \in {Rounded(x, u), CutOff(x, u)}
  PROVE  s \in Int /\ s - a < u /\ a - s < u
  <1>1. PICK j \in Int : /\ x = j * c
                        /\ 2 * (j * c) <= 2 * a + c
                        /\ 2 * a - c <= 2 * (j * c)
    BY RoundedIs
  <1>2. x \in Int
    BY <1>1
  <1>3. CASE u = c
    <2>1. s = x
      BY <1>1, <1>3, MultiplesAreKept
    <2> QED
      BY <1>1, <1>2, <1>3, <2>1
  <1>4. CASE u = 100 * c
    <2>1. u \in Nat \ {0}
      BY <1>4
    <2>2. CASE s = Rounded(x, u)
      <3>1. PICK k \in Int : /\ s = k * u
                            /\ 2 * (k * u) <= 2 * x + u
                            /\ 2 * x - u <= 2 * (k * u)
        BY <1>2, <2>1, <2>2, RoundedIs
      <3>2. s \in Int /\ 2 * s <= 2 * x + u /\ 2 * x - u <= 2 * s
        BY <2>1, <3>1
      <3> QED
        BY <1>1, <1>2, <1>4, <3>2
    <2>3. CASE s = CutOff(x, u)
      <3>1. PICK k \in Int : s = k * u /\ k * u - x < u /\ x - k * u < u
        BY <1>2, <2>1, <2>3, CutOffIs
      <3>2. k * u = (100 * k) * c
        BY <1>4, <3>1
      <3> DEFINE m == 100 * k
      <3>3. m \in Int /\ s = m * c
        BY <3>1, <3>2
      <3>4. (m - j) * c = m * c - j * c /\ (j - m) * c = j * c - m * c
        BY <1>1, <3>3
      <3> HIDE DEF m
      <3>5. (m - j) * c < 100 * c /\ (j - m) * c < 100 * c
        BY <1>1, <1>4, <3>1, <3>3, <3>4
      <3>6. m - j <= 99 /\ j - m <= 99
        BY <1>1, <3>3, <3>5, SmallMultiple
      <3>7. (m - j) * c <= 99 * c /\ (j - m) * c <= 99 * c
        BY <1>1, <3>3, <3>6, ScaledUp
      <3> QED
        BY <1>1, <1>2, <1>4, <3>3, <3>4, <3>7
    <2> QED
      BY <2>2, <2>3
  <1> QED
    BY <1>3, <1>4

(* AmountsAgree of one amount, what the tables have of it and what is shown. *)
LEMMA AmountAgrees ==
  ASSUME NEW a \in Int, NEW cur \in Currency,
         NEW s, s \in {Rounded(TransactionColumn(a), Precision(cur)),
                       CutOff(TransactionColumn(a), Precision(cur))}
  PROVE  /\ s \in Int /\ s - a < Precision(cur) /\ a - s < Precision(cur)
         /\ a % Precision(cur) = 0 => s = a
  <1>1. PICK d \in Nat \ {0} :
          One = 10000 * d /\ One \div 10000 = d /\ One \div 100 = 100 * d
    BY Units
  <1> DEFINE c == 100 * d
             u == Precision(cur)
             x == Rounded(a, c)
  <1>2. c \in Nat \ {0} /\ TransactionColumn(a) = x
    BY <1>1 DEF TransactionColumn
  <1>3. u = c \/ u = 100 * c
    BY <1>1 DEF Precision
  <1>4. u \in Nat \ {0}
    BY <1>2, <1>3
  <1>5. s \in {Rounded(x, u), CutOff(x, u)}
    BY <1>2
  <1>6. s \in Int /\ s - a < u /\ a - s < u
    <2> HIDE DEF c, u
    <2> QED
      BY <1>2, <1>3, <1>5, ShownIsNear
  <1>7. ASSUME a % u = 0
        PROVE  s = a
    <2> HIDE DEF u
    <2>1. PICK m \in Int : a = m * u
      BY <1>4, <1>7, WholeMultiple
    <2>2. PICK j \in Int : a = j * c
      <3>1. CASE u = c
        BY <2>1, <3>1
      <3>2. CASE u = 100 * c
        <4>1. 100 * m \in Int /\ m * u = (100 * m) * c
          BY <1>1, <2>1, <3>2
        <4> QED
          BY <2>1, <4>1
      <3> QED
        BY <1>3, <3>1, <3>2
    <2> HIDE DEF c
    <2>3. Rounded(a, c) = a
      BY <1>2, <2>2, MultiplesAreKept
    <2>4. Rounded(a, u) = a /\ CutOff(a, u) = a
      BY <1>4, <2>1, MultiplesAreKept
    <2> QED
      BY <1>5, <2>3, <2>4
  <1> QED
    BY <1>6, <1>7

LEMMA ColumnsAgree ==
  ASSUME NEW a \in Int, NEW cur \in Currency
  PROVE  /\ a % Precision(cur) = 0 => TransactionColumn(a) = a /\ JournalColumn(a) = a
         /\ 2 * (TransactionColumn(a) - a) <= One \div 100
         /\ 2 * (a - TransactionColumn(a)) <= One \div 100
  <1>1. PICK d \in Nat \ {0} :
          One = 10000 * d /\ One \div 10000 = d /\ One \div 100 = 100 * d
    BY Units
  <1> DEFINE c == 100 * d
             u == Precision(cur)
  <1>2. c \in Nat \ {0} /\ TransactionColumn(a) = Rounded(a, c) /\ JournalColumn(a) = Rounded(a, d)
    BY <1>1 DEF TransactionColumn, JournalColumn
  <1>3. u = 100 * d \/ u = 10000 * d
    BY <1>1 DEF Precision
  <1>4. PICK k \in Int : /\ Rounded(a, c) = k * c
                        /\ 2 * (k * c) <= 2 * a + c
                        /\ 2 * a - c <= 2 * (k * c)
    <2> HIDE DEF c
    <2> QED
      BY <1>2, RoundedIs
  <1>5. ASSUME a % u = 0
        PROVE  Rounded(a, c) = a /\ Rounded(a, d) = a
    <2>1. u \in Nat \ {0}
      BY <1>1, <1>3
    <2> HIDE DEF u
    <2>2. PICK m \in Int : a = m * u
      BY <1>5, <2>1, WholeMultiple
    <2>3. PICK p \in {1, 100} : u = p * c /\ u = (100 * p) * d
      BY <1>1, <1>3
    <2>4. /\ m * p \in Int /\ m * u = (m * p) * c
          /\ m * (100 * p) \in Int /\ m * u = (m * (100 * p)) * d
      <3>1. CASE p = 1
        BY <1>1, <2>2, <2>3, <3>1
      <3>2. CASE p = 100
        BY <1>1, <2>2, <2>3, <3>2
      <3> QED
        BY <2>3, <3>1, <3>2
    <2> DEFINE j == m * p
               l == m * (100 * p)
    <2>5. j \in Int /\ l \in Int /\ a = j * c /\ a = l * d
      BY <2>2, <2>4
    <2> HIDE DEF c, j, l
    <2>6. Rounded(j * c, c) = j * c
      BY <1>2, <2>5, MultiplesAreKept
    <2>7. Rounded(l * d, d) = l * d
      BY <1>1, <2>5, MultiplesAreKept
    <2> QED
      BY <2>5, <2>6, <2>7
  <1>6. k * c \in Int
    BY <1>2
  <1>7. 2 * (Rounded(a, c) - a) <= c /\ 2 * (a - Rounded(a, c)) <= c
    <2> HIDE DEF c
    <2> QED
      BY <1>2, <1>4, <1>6
  <1> QED
    BY <1>1, <1>2, <1>5, <1>7

(* The columns are what was recorded, and what was shown is of a row. *)
RowsAreRounded ==
  \A n \in DOMAIN transactions :
    /\ transactions[n].column = TransactionColumn(transactions[n].amount)
    /\ transactions[n].line = JournalColumn(transactions[n].amount)

ShownIsOfRows ==
  \A s \in reader.shown :
    s.transaction \in DOMAIN transactions /\ s.amount \in Shown(s.transaction)

RInv == NInv /\ RowsAreRounded /\ ShownIsOfRows

LEMMA RInvInit == StatementInit => RInv
  BY NInvInit DEF StatementInit, RInv, RowsAreRounded, ShownIsOfRows, IdleReader

LEMMA RInvNext == RInv /\ [StatementNext]_statementVars => RInv'
  <1> SUFFICES ASSUME RInv, [StatementNext]_statementVars PROVE RInv'
    OBVIOUS
  <1>0. StatementTypeOK /\ NInv'
    BY NInvNext DEF RInv, NInv
  <1>1. transactions \in Seq(Transaction) /\ DOMAIN transactions = 1..Len(transactions)
    BY <1>0 DEF StatementTypeOK
  <1>2. ASSUME NEW a \in Amounts, Record(a) PROVE RInv'
    <2> DEFINE t == [amount |-> a, column |-> TransactionColumn(a), line |-> JournalColumn(a),
                     status |-> "processing", updated_at |-> Now]
    <2>1. transactions' = Append(transactions, t) /\ reader' = reader
      BY <1>2 DEF Record
    <2>2. t.column = TransactionColumn(t.amount) /\ t.line = JournalColumn(t.amount)
      OBVIOUS
    <2> HIDE DEF t
    <2>3. /\ DOMAIN transactions' = 1..(Len(transactions) + 1)
          /\ transactions'[Len(transactions) + 1] = t
          /\ \A n \in DOMAIN transactions : transactions'[n] = transactions[n]
      BY <1>1, <2>1
    <2>4. RowsAreRounded'
      BY <1>1, <2>2, <2>3 DEF RInv, RowsAreRounded
    <2>5. ShownIsOfRows'
      BY <1>1, <2>1, <2>3 DEF RInv, ShownIsOfRows, Shown
    <2> QED
      BY <1>0, <2>4, <2>5 DEF RInv
  <1>3. ASSUME NEW n \in DOMAIN transactions, Complete(n) PROVE RInv'
    <2>1. /\ DOMAIN transactions' = DOMAIN transactions /\ reader' = reader
          /\ \A m \in DOMAIN transactions :
               /\ transactions'[m].amount = transactions[m].amount
               /\ transactions'[m].column = transactions[m].column
               /\ transactions'[m].line = transactions[m].line
      BY <1>1, <1>3 DEF Complete, Transaction
    <2> QED
      BY <1>0, <2>1 DEF RInv, RowsAreRounded, ShownIsOfRows, Shown
  <1>4. CASE ReadPage
    <2> DEFINE page == Page(reader.offset, Limit)
    <2>1. PICK amounts \in [page -> UNION {Shown(n) : n \in page}] :
            /\ \A n \in page : amounts[n] \in Shown(n)
            /\ reader'.shown = reader.shown
                                 \cup {[transaction |-> n, amount |-> amounts[n]] : n \in page}
      BY <1>4 DEF ReadPage
    <2>2. page \subseteq DOMAIN transactions
      BY DEF Page
    <2>3. transactions' = transactions
      BY <1>4 DEF ReadPage
    <2> HIDE DEF page
    <2>4. \A s \in reader'.shown :
            s.transaction \in DOMAIN transactions /\ s.amount \in Shown(s.transaction)
      BY <2>1, <2>2 DEF RInv, ShownIsOfRows
    <2> QED
      BY <1>0, <2>3, <2>4 DEF RInv, RowsAreRounded, ShownIsOfRows, Shown
  <1>5. CASE ReadAgain
    BY <1>0, <1>5 DEF ReadAgain, IdleReader, RInv, RowsAreRounded, ShownIsOfRows
  <1>6. CASE UNCHANGED statementVars
    BY <1>0, <1>6 DEF statementVars, RInv, RowsAreRounded, ShownIsOfRows, Shown
  <1> QED
    BY <1>2, <1>3, <1>4, <1>5, <1>6 DEF StatementNext

LEMMA RInvAmounts == RInv => AmountsAgree
  <1> SUFFICES ASSUME RInv, NEW n \in DOMAIN transactions
               PROVE  LET t     == transactions[n]
                          unit  == Precision(AccountCurrency)
                          shown == {s.amount : s \in {r \in reader.shown : r.transaction = n}}
                          off(x) == IF x >= t.amount THEN x - t.amount ELSE t.amount - x
                      IN  /\ t.amount % unit = 0 =>
                               t.column = t.amount /\ t.line = t.amount /\ shown \subseteq {t.amount}
                          /\ 2 * off(t.column) <= One \div 100
                          /\ \A s \in shown : off(s) < unit
    BY DEF AmountsAgree
  <1> DEFINE t     == transactions[n]
             unit  == Precision(AccountCurrency)
             shown == {s.amount : s \in {r \in reader.shown : r.transaction = n}}
  <1>1. t.amount \in Int /\ t.column = TransactionColumn(t.amount)
                        /\ t.line = JournalColumn(t.amount)
    <2>1. transactions[n] \in Transaction
      BY DEF RInv, NInv, StatementTypeOK
    <2>2. /\ transactions[n].column = TransactionColumn(transactions[n].amount)
          /\ transactions[n].line = JournalColumn(transactions[n].amount)
      BY DEF RInv, RowsAreRounded
    <2> QED
      BY <2>1, <2>2 DEF Transaction
  <1>2. AccountCurrency \in Currency
    BY StatementAssumption
  <1>3. /\ t.amount % unit = 0 => t.column = t.amount /\ t.line = t.amount
        /\ t.column \in Int
        /\ 2 * (t.column - t.amount) <= One \div 100
        /\ 2 * (t.amount - t.column) <= One \div 100
    BY <1>1, <1>2, ColumnsAgree, ColumnTypes
  <1>4. \A s \in shown : s \in {Rounded(t.column, unit), CutOff(t.column, unit)}
    BY DEF RInv, ShownIsOfRows, Shown
  <1>5. \A s \in shown : /\ s \in Int /\ s - t.amount < unit /\ t.amount - s < unit
                         /\ t.amount % unit = 0 => s = t.amount
    BY <1>1, <1>2, <1>4, AmountAgrees
  <1> HIDE DEF t, unit, shown
  <1> QED
    BY <1>1, <1>3, <1>5 DEF t, unit, shown

(* create_transaction_with_journal and the columns it writes: ledger,      *)
(* journal, row and list agree on whole amounts, and are as near to each   *)
(* other as the scales allow on all, for any scale One and any amounts.    *)
THEOREM AmountsAgreeAlways == StatementSpec => []AmountsAgree
  BY RInvInit, RInvNext, RInvAmounts, PTL DEF StatementSpec
=============================================================================
