------------------------------ MODULE MCAccounts ------------------------------
(* Small instances of Accounts for TLC. *)
EXTENDS Accounts, TLC

Adjusting == {"award", "adjust"}
Moderating == {"ban", "unban", "edit"}

(* One that floors at zero, one that crosses two tiers. *)
Adjustments == {-200, 250}

RequestSymmetry == Permutations(Requests)
=============================================================================
