----------------------------- MODULE MCAccounts -----------------------------
(***************************************************************************)
(* Small instances of Accounts: seconds instead of a day.                  *)
(***************************************************************************)
EXTENDS Accounts, TLC

Symmetry ==
    Permutations(Thread) \cup Permutations(User) \cup Permutations(Name) \cup Permutations(Password)
=============================================================================
