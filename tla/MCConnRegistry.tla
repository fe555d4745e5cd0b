--------------------------- MODULE MCConnRegistry ---------------------------
(***************************************************************************)
(* Model values for ConnRegistry.  Users are interchangeable, and so are   *)
(* the addresses at which ws_session threads keep their stream.            *)
(***************************************************************************)
EXTENDS ConnRegistry, TLC

Symmetry == Permutations(User) \cup Permutations(Session)
=============================================================================
