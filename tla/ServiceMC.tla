----------------------------- MODULE ServiceMC -----------------------------
(* Small instances of Service. *)
EXTENDS Service, TLC

(* A whole amount, and one with decimals, of either sign. *)
DepositAmounts == {100000, 50500, -50500}

Runs == Permutations(Issuers) \cup Permutations(Secrets)
=============================================================================
