---------------------------- MODULE BreakerPromise ----------------------------
(***************************************************************************)
(* What the circuit breaker promises the gateway, without its deque, its   *)
(* trial flag and its lazily refreshed state: the circuit is closed or     *)
(* tripped; it trips when the failures of the last Window ticks, since it  *)
(* was last closed or tripped, reach the threshold; once tripped it starts *)
(* no call before the cool-down is over and then one trial at a time.      *)
(*                                                                         *)
(* Two freedoms are in the promise because the code takes them: any        *)
(* success closes the circuit, that of a call admitted before it tripped   *)
(* included; and a failure reported after the cool-down either starts a    *)
(* new one or is only counted, according to whether somebody has looked at *)
(* the breaker since the cool-down ended.                                  *)
(***************************************************************************)
EXTENDS Naturals, Functions

CONSTANTS Caller, FailureThreshold, Window, HalfOpenAfter

VARIABLES
  gate,      \* "closed" or "tripped"
  tally,     \* number of counted failures of each age in the window
  cooledFor, \* time since the circuit last tripped, up to the cool-down
  pending    \* what each request has in flight

vars == <<gate, tally, cooledFor, pending>>

NoFailures == [age \in 0 .. Window |-> 0]

Init ==
  /\ gate = "closed"
  /\ tally = NoFailures
  /\ cooledFor = HalfOpenAfter
  /\ pending = [c \in Caller |-> "none"]

Cooled == cooledFor = HalfOpenAfter

\* c's call is over; when the circuit changed, every other call outlives it.
Finish(c, changed) ==
  pending' = [d \in Caller |->
                IF d = c THEN "none"
                ELSE IF changed /\ pending[d] # "none" THEN "late" ELSE pending[d]]

Start(c) ==
  /\ pending[c] = "none"
  /\ \/ gate = "closed" /\ pending' = [pending EXCEPT ![c] = "normal"]
     \/ /\ gate = "tripped" /\ Cooled
        /\ \A d \in Caller : pending[d] # "trial"
        /\ pending' = [pending EXCEPT ![c] = "trial"]
  /\ UNCHANGED <<gate, tally, cooledFor>>

Success(c) ==
  /\ pending[c] # "none"
  /\ gate' = "closed"
  /\ tally' = NoFailures
  /\ Finish(c, gate = "tripped")
  /\ UNCHANGED cooledFor

Trip(c) ==
  /\ gate' = "tripped"
  /\ tally' = NoFailures
  /\ cooledFor' = 0
  /\ Finish(c, TRUE)

Count(c) ==
  /\ tally' = [tally EXCEPT ![0] = @ + 1]
  /\ Finish(c, FALSE)
  /\ UNCHANGED <<gate, cooledFor>>

Failure(c) ==
  /\ pending[c] # "none"
  /\ IF SumFunction(tally) + 1 >= FailureThreshold
     THEN Trip(c)
     ELSE Count(c) \/ (gate = "tripped" /\ Cooled /\ Trip(c))

Unreported(c) ==
  /\ pending[c] # "none"
  /\ Finish(c, FALSE)
  /\ UNCHANGED <<gate, tally, cooledFor>>

Tick ==
  /\ cooledFor' = IF Cooled THEN cooledFor ELSE cooledFor + 1
  /\ tally' = [age \in 0 .. Window |-> IF age = 0 THEN 0 ELSE tally[age - 1]]
  /\ UNCHANGED <<gate, pending>>

Next ==
  \/ \E c \in Caller : Start(c) \/ Success(c) \/ Failure(c) \/ Unreported(c)
  \/ Tick

Spec == Init /\ [][Next]_vars
=============================================================================
