--------------------------- MODULE PaymentPromise ---------------------------
(***************************************************************************)
(* What Payments promises of its transactions, with no queue, lock, job or *)
(* view in sight: a transaction is recorded first, then its money moves on *)
(* the ledger, then it is completed; none of it is ever taken back; and    *)
(* each step of the system is at most one such event of one transaction.   *)
(*                                                                         *)
(* The hold of a withdrawal comes after its record and that is all: it may *)
(* come after the settlement, or never.                                    *)
(***************************************************************************)
CONSTANT TxId

VARIABLES recorded, held, settled, completed

vars == <<recorded, held, settled, completed>>

Init == recorded = {} /\ held = {} /\ settled = {} /\ completed = {}

Record(t) ==
  /\ t \notin recorded
  /\ recorded' = recorded \cup {t}
  /\ UNCHANGED <<held, settled, completed>>

Hold(t) ==
  /\ t \in recorded \ held
  /\ held' = held \cup {t}
  /\ UNCHANGED <<recorded, settled, completed>>

Settle(t) ==
  /\ t \in recorded \ (settled \cup completed)
  /\ settled' = settled \cup {t}
  /\ UNCHANGED <<recorded, held, completed>>

Complete(t) ==
  /\ t \in settled \ completed
  /\ completed' = completed \cup {t}
  /\ UNCHANGED <<recorded, held, settled>>

Next == \E t \in TxId : Record(t) \/ Hold(t) \/ Settle(t) \/ Complete(t)

Spec == Init /\ [][Next]_vars
=============================================================================
