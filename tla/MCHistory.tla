----------------------------- MODULE MCHistory -----------------------------
(***************************************************************************)
(* Small instances of History and of the BatchPersist in it: a threshold   *)
(* of two messages and seconds instead of hours.                           *)
(***************************************************************************)
EXTENDS History, TLC
=============================================================================
