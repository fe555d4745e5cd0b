----------------------------- MODULE MCFriends -----------------------------
(***************************************************************************)
(* Small instances of Friends.                                             *)
(***************************************************************************)
EXTENDS Friends, TLC

Symmetry == Permutations(User) \cup Permutations(Thread)
=============================================================================
