---------------------------- MODULE MCIdempotency ----------------------------
(* Calls with one key, for TLC.                                                 *)
EXTENDS Idempotency, TLC
=============================================================================
