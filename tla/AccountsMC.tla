----------------------------- MODULE AccountsMC -----------------------------
(* Small instances of Accounts. *)
EXTENDS Accounts

(* Uuids are interchangeable. *)
AccountUuids == Permutations(AccountIds) \cup Permutations(LedgerIds)
=============================================================================
