----------------------------- MODULE PaymentsMC -----------------------------
(* Small instances of Payments. *)
EXTENDS Payments

CONSTANTS acct, other, waiting, r1, r2, usd, twd

OneAccount == [l \in {acct} |-> [status |-> "Approved", currency |-> usd]]

(* Two accounts of different currencies, and one that waits for approval. *)
ThreeAccounts ==
  [l \in {acct, other, waiting} |->
     [status   |-> IF l = waiting THEN "Pending" ELSE "Approved",
      currency |-> IF l = other THEN twd ELSE usd]]

TwoRuns == Permutations(Runs)

(* service.rs checks no sign: a negative amount is as good as any. *)
SignedAmounts == {-1, 1}
=============================================================================
