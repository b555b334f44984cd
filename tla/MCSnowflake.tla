------------------------------ MODULE MCSnowflake ------------------------------
(***************************************************************************)
(* Instances of Snowflake for TLC: three nodes with worker ids below and   *)
(* above 31.  Worker 33 of data centre 2 and worker 1 of data centre 3     *)
(* have their node bits in common; worker 49 of data centre 2 has not.     *)
(***************************************************************************)
EXTENDS Snowflake, TLC

CONSTANTS g1, g2, g3

SomeWorkers     == (g1 :> 33) @@ (g2 :> 1) @@ (g3 :> 49)
SomeDatacenters == (g1 :> 2) @@ (g2 :> 3) @@ (g3 :> 2)

TwoWorkers      == (g1 :> 33) @@ (g2 :> 1)
TwoDatacenters  == (g1 :> 2) @@ (g2 :> 3)
=============================================================================
