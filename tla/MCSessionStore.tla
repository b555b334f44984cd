---------------------------- MODULE MCSessionStore ----------------------------
(***************************************************************************)
(* Instances of SessionStore for TLC: every thread calls everything, in    *)
(* any order.                                                              *)
(***************************************************************************)
EXTENDS SessionStore, TLC

CONSTANTS t1, t2, t3

MixedOps == [t \in Threads |-> Operations]

Symmetry ==
  Permutations(Threads) \cup Permutations(Users) \cup Permutations(Ids)
=============================================================================
