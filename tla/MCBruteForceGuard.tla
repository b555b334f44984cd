--------------------------- MODULE MCBruteForceGuard ---------------------------
(***************************************************************************)
(* BruteForceGuard for TLC: two threads; i1 is t1's alone, both are about  *)
(* i2.                                                                     *)
(***************************************************************************)
EXTENDS BruteForceGuard, TLC

CONSTANTS t1, t2, i1, i2

OneShared == (t1 :> {i1, i2}) @@ (t2 :> {i2})
=============================================================================
