-------------------------- MODULE MCCircuitBreaker --------------------------
(***************************************************************************)
(* The breaker with concurrent requests, for TLC.  Time is in ticks: the   *)
(* shipped threshold of 5 failures in 60 s and cool-down of 30 s become 3  *)
(* failures in 2 ticks and 2 ticks.                                        *)
(***************************************************************************)
EXTENDS CircuitBreaker, TLC
=============================================================================
