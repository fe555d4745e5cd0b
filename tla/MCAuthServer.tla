---------------------------- MODULE MCAuthServer ----------------------------
(***************************************************************************)
(* Small instances of AuthServer: seconds instead of a day.                *)
(***************************************************************************)
EXTENDS AuthServer, TLC

Symmetry == Permutations(Thread)
=============================================================================
