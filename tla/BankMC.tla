------------------------------- MODULE BankMC -------------------------------
(* Small instances of Bank. *)
EXTENDS Bank

CONSTANTS usd, twd, alice, bob, house_usd, house_twd

HolderCurrency == [h \in Holders |-> IF h = alice THEN usd ELSE twd]

HouseKindFor == [c \in Currencies |-> IF c = usd THEN house_usd ELSE house_twd]

(* Uuids are interchangeable. *)
BankUuids == Permutations(AccountIds) \cup Permutations(LedgerIds) \cup Permutations(HouseIds)
=============================================================================
