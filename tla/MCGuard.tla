------------------------------- MODULE MCGuard -------------------------------
(* The guard for TLC: three paths, of which the cheapest qualifying one is, by  *)
(* the statistics at hand, path 1, path 2 or none.                              *)
EXTENDS Guard, TLC

Measured(ok, usd) == [qualifies |-> ok, cost |-> usd]
MCNets == {-1, 1}
MCStats ==
  {1 :> Measured(FALSE, 1) @@ 2 :> Measured(TRUE, 2) @@ 3 :> Measured(TRUE, 2),
   1 :> Measured(TRUE, 1) @@ 3 :> Measured(TRUE, 2),
   3 :> Measured(FALSE, 1)}
=============================================================================
