------------------------------ MODULE MCGateway ------------------------------
(* Models: m1 is cheap, m2 costly and sometimes free, m3 has no adapter.  The   *)
(* clients work on one run, or on two runs of one workflow.                     *)
EXTENDS Gateway, TLC

CONSTANTS c1, c2, r1, r2, w1, m1, m2, m3, k1, k2

OneRun == c1 :> r1 @@ c2 :> r1
TwoRuns == c1 :> r1 @@ c2 :> r2
OneWorkflow == [r \in Run |-> w1]
MCKeyOf == c1 :> k1 @@ c2 :> k2
MCNear == k1 :> {k1, k2} @@ k2 :> {k1, k2}
MCEstimate == m1 :> 1 @@ m2 :> 2 @@ m3 :> 1
MCCosts == m1 :> {1} @@ m2 :> {0, 2} @@ m3 :> {1}
OnePlan == {<<m2, m3, m1>>}
=============================================================================
