----------------------------- MODULE MCDelivery -----------------------------
(***************************************************************************)
(* Small instances of Delivery: messages between two users, told apart by  *)
(* their id.                                                               *)
(***************************************************************************)
EXTENDS Delivery, TLC

CONSTANTS u1, u2

TwoUsers == {u1, u2}

\* One message, and one each way.
One == {[id |-> 1, from |-> u1, to |-> u2]}

BothWays == {[id |-> 1, from |-> u1, to |-> u2], [id |-> 2, from |-> u2, to |-> u1]}

Symmetry == Permutations(Session)
=============================================================================
