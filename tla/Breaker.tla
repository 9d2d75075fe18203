------------------------------- MODULE Breaker -------------------------------
(***************************************************************************)
(* One CircuitBreaker object of the gateway (gateway/breaker.py) as a data *)
(* type: a record for its fields and one operator for each method.  Every  *)
(* method holds the object's lock from beginning to end, so an operator is *)
(* one atomic update of the record.                                        *)
(*                                                                         *)
(* The code stores times of the monotonic clock and only compares their    *)
(* distance from now with two constants.  The record stores the distances: *)
(* failures[i] is the age of the i-th recorded failure and openedFor the   *)
(* time since _opened_at.  Ages stop growing one tick past the largest     *)
(* value the code can tell apart (Stale and HalfOpenAfter).                *)
(***************************************************************************)
EXTENDS Naturals, Sequences, FiniteSetsExt

CONSTANTS
  FailureThreshold,  \* failures inside the window that open the circuit
  Window,            \* window_s, in ticks
  HalfOpenAfter      \* half_open_after_s, in ticks

ASSUME BreakerAssumption ==
  /\ FailureThreshold \in Nat \ {0}
  /\ Window \in Nat
  /\ HalfOpenAfter \in Nat \ {0}  \* a breaker with no cool-down is never open

BreakerState == {"closed", "open", "half_open"}

\* The age from which a failure is outside the window.
Stale == Window + 1

BreakerRecord ==
  [state : BreakerState,
   failures : Seq(0 .. Stale),
   openedFor : 0 .. HalfOpenAfter,
   trial : BOOLEAN]

NewBreaker ==
  [state |-> "closed", failures |-> <<>>, openedFor |-> HalfOpenAfter, trial |-> FALSE]

\* _open: the cool-down starts and everything counted so far is forgotten.
Opened ==
  [state |-> "open", failures |-> <<>>, openedFor |-> 0, trial |-> FALSE]

\* Mutant: half-opens without waiting for the cool-down.
RefreshEarly(b) ==
  IF b.state = "open" THEN [b EXCEPT !.state = "half_open", !.trial = FALSE] ELSE b

\* _refresh: an open circuit whose cool-down has passed half-opens, with no trial
\* in flight.  allow() and the state property call it, record_failure() does not.
Refresh(b) ==
  IF b.state = "open" /\ b.openedFor >= HalfOpenAfter
  THEN [b EXCEPT !.state = "half_open", !.trial = FALSE]
  ELSE b

\* The result of allow().
Admits(b) ==
  LET now == Refresh(b)
  IN  now.state = "closed" \/ (now.state = "half_open" /\ ~now.trial)

\* The breaker after allow(): a half-open breaker has its trial in flight,
\* whether this call took it or was refused because another one had.
AfterAllow(b) ==
  LET now == Refresh(b)
  IN  IF now.state = "half_open" THEN [now EXCEPT !.trial = TRUE] ELSE now

\* record_success closes the circuit whatever its state was.
AfterSuccess(b) ==
  [b EXCEPT !.state = "closed", !.failures = <<>>, !.trial = FALSE]

\* Mutant: nothing ever leaves the window.
PrunedNever(ages) == ages

\* The deque after popping expired failures from its left end.
Pruned(ages) ==
  LET firstFresh == Min({i \in DOMAIN ages : ages[i] <= Window})
  IN  SubSeq(ages, firstFresh, Len(ages))

\* Mutants: opens one failure late; adds new failures at the deque's left end; a
\* failed trial does not reopen.
AfterFailureLate(b) ==
  LET counted == Pruned(Append(b.failures, 0))
  IN  IF b.state = "half_open" \/ Len(counted) > FailureThreshold
      THEN Opened ELSE [b EXCEPT !.failures = counted]

AfterFailureLeft(b) ==
  LET counted == Pruned(<<0>> \o b.failures)
  IN  IF b.state = "half_open" \/ Len(counted) >= FailureThreshold
      THEN Opened ELSE [b EXCEPT !.failures = counted]

AfterFailureNoReopen(b) ==
  LET counted == Pruned(Append(b.failures, 0))
  IN  IF Len(counted) >= FailureThreshold
      THEN Opened ELSE [b EXCEPT !.failures = counted]

\* record_failure: a failed trial reopens the circuit, and so does the failure that
\* makes the window reach the threshold.
AfterFailure(b) ==
  LET counted == Pruned(Append(b.failures, 0))
  IN  IF b.state = "half_open" \/ Len(counted) >= FailureThreshold
      THEN Opened
      ELSE [b EXCEPT !.failures = counted]

Older(age, limit) == IF age < limit THEN age + 1 ELSE limit

\* One tick of the clock, seen from the breaker.
AfterTick(b) ==
  [b EXCEPT !.openedFor = Older(b.openedFor, HalfOpenAfter),
            !.failures = [i \in 1 .. Len(b.failures) |-> Older(b.failures[i], Stale)]]
=============================================================================
