---------------------------- MODULE CircuitBreaker ----------------------------
(***************************************************************************)
(* One breaker and the gateway requests that call its model concurrently   *)
(* (gateway/service.py, _call_model).  Between allow() and the recording   *)
(* of the outcome a request awaits its provider, so calls admitted under   *)
(* one breaker state report their outcome under another.                   *)
(***************************************************************************)
EXTENDS Breaker, FiniteSets

CONSTANTS
  Caller,       \* requests that may have a call to this model in flight
  CallTimeout   \* the longest a provider call takes to return, in ticks

ASSUME CallTimeoutAssumption == CallTimeout \in Nat

VARIABLES
  breaker,    \* the breaker of the model
  call,       \* each request's provider call
  abandoned   \* history: the trial of this half-open phase ended unreported

vars == <<breaker, call, abandoned>>

(***************************************************************************)
(* A call in flight is "normal" or "trial" according to the state that     *)
(* admitted it, and "late" once the breaker has left that state.  The kind *)
(* is history only: the code does not know it, and no guard reads it.      *)
(***************************************************************************)
CallRecord == [kind : {"none", "normal", "trial", "late"}, age : 0 .. CallTimeout]
NoCall == [kind |-> "none", age |-> 0]
InFlight(c) == call[c].kind # "none"

TypeOK ==
  /\ breaker \in BreakerRecord
  /\ Len(breaker.failures) < FailureThreshold
  /\ call \in [Caller -> CallRecord]
  /\ abandoned \in BOOLEAN

Init ==
  /\ breaker = NewBreaker
  /\ call = [c \in Caller |-> NoCall]
  /\ abandoned = FALSE

-----------------------------------------------------------------------------

\* What is in flight after the outcome of c's call moved the breaker to b.
AfterReturn(c, b) ==
  [d \in Caller |->
     IF d = c THEN NoCall
     ELSE IF InFlight(d) /\ b.state # breaker.state THEN [call[d] EXCEPT !.kind = "late"]
     ELSE call[d]]

\* A request asks allow() and, when admitted, starts its provider call.
Allow(c) ==
  /\ ~InFlight(c)
  /\ breaker' = AfterAllow(breaker)
  /\ call' = IF Admits(breaker)
             THEN [call EXCEPT ![c] =
                     [kind |-> IF breaker'.state = "closed" THEN "normal" ELSE "trial",
                      age |-> 0]]
             ELSE call
  /\ UNCHANGED abandoned

\* The provider answered.
Succeed(c) ==
  /\ InFlight(c)
  /\ breaker' = AfterSuccess(breaker)
  /\ call' = AfterReturn(c, breaker')
  /\ abandoned' = (abandoned /\ breaker'.state = breaker.state)

\* TimeoutError or ProviderError: the failure is recorded, and the state is read
\* for the gauge right after.
Fail(c) ==
  /\ InFlight(c)
  /\ breaker' = Refresh(AfterFailure(breaker))
  /\ call' = AfterReturn(c, breaker')
  /\ abandoned' = (abandoned /\ breaker'.state = breaker.state)

\* Any other exception of the adapter leaves _call_model with nothing recorded: a
\* malformed 200 body (choices or message null, a null token count) raises a
\* TypeError or an AttributeError the adapter does not translate.
Escape(c) ==
  /\ InFlight(c)
  /\ call' = [call EXCEPT ![c] = NoCall]
  /\ abandoned' = (abandoned \/ call[c].kind = "trial")
  /\ UNCHANGED breaker

\* The state property, read by the health endpoint and the metrics gauge.
ReadState ==
  /\ breaker' = Refresh(breaker)
  /\ UNCHANGED <<call, abandoned>>

\* The clock advances; wait_for has ended every call by CallTimeout.
Tick ==
  /\ \A c \in Caller : InFlight(c) => call[c].age < CallTimeout
  /\ breaker' = AfterTick(breaker)
  /\ call' = [c \in Caller |-> IF InFlight(c) THEN [call[c] EXCEPT !.age = @ + 1] ELSE call[c]]
  /\ UNCHANGED abandoned

Return(c) == Succeed(c) \/ Fail(c) \/ Escape(c)

Next ==
  \/ \E c \in Caller : Allow(c) \/ Return(c)
  \/ ReadState
  \/ Tick

\* Time passes and every call returns.  Nothing makes a request arrive.
Fairness == WF_vars(Tick) /\ \A c \in Caller : WF_vars(Return(c))

Spec == Init /\ [][Next]_vars /\ Fairness

-----------------------------------------------------------------------------

(***************************************************************************)
(* The deque is oldest first, so that popping expired entries from the     *)
(* left, which stops at the first fresh one, drops all of them.            *)
(***************************************************************************)
DequeOldestFirst ==
  \A i, j \in DOMAIN breaker.failures : i < j => breaker.failures[i] >= breaker.failures[j]

(***************************************************************************)
(* _trial_in_flight says what it means: it is set exactly when a request   *)
(* of this half-open phase holds the trial or abandoned it, only in the    *)
(* half-open state, and no two requests hold it.                           *)
(***************************************************************************)
TrialFlagMeansTrial ==
  /\ breaker.trial => breaker.state = "half_open"
  /\ breaker.trial <=> abandoned \/ \E c \in Caller : call[c].kind = "trial"
  /\ \A c, d \in Caller :
        call[c].kind = "trial" /\ (call[d].kind = "trial" \/ abandoned) => c = d /\ ~abandoned

(***************************************************************************)
(* A call of an earlier state that is still in flight once the breaker     *)
(* half-opens has been running for at least a whole cool-down.             *)
(***************************************************************************)
LateCallsOutlastCoolDown ==
  breaker.state = "half_open" =>
    \A c \in Caller : call[c].kind = "late" => call[c].age >= HalfOpenAfter

(***************************************************************************)
(* "lets one trial call through" (breaker.py, class docstring): while the  *)
(* breaker is half-open nothing but its trial is in flight, so the trial   *)
(* alone decides whether it closes or reopens.  It follows from the above  *)
(* when calls are over before a cool-down is: CallTimeout < HalfOpenAfter. *)
(***************************************************************************)
HalfOpenTrialAlone ==
  breaker.state = "half_open" => \A c \in Caller : InFlight(c) => call[c].kind = "trial"

(***************************************************************************)
(* The breaker implements its promise: the deque is the windowed count,    *)
(* the flag is the one trial, and "open" and "half_open" are one tripped   *)
(* circuit whose cool-down is running or over.                             *)
(***************************************************************************)
Promise == INSTANCE BreakerPromise WITH
  gate <- IF breaker.state = "closed" THEN "closed" ELSE "tripped",
  tally <- [age \in 0 .. Window |->
              Cardinality({i \in DOMAIN breaker.failures : breaker.failures[i] = age})],
  cooledFor <- breaker.openedFor,
  pending <- [c \in Caller |-> call[c].kind]

KeepsPromise == Promise!Spec

(***************************************************************************)
(* "Open: calls are refused until half_open_after_s has elapsed": after    *)
(* the breaker opened, no provider call starts before the cool-down ends.  *)
(***************************************************************************)
CoolDownHonoured ==
  [][\A c \in Caller : ~InFlight(c) /\ InFlight(c)' => breaker.openedFor >= HalfOpenAfter]_vars

(***************************************************************************)
(* The breaker does not refuse for ever: from a state in which allow()     *)
(* returns False, it comes to return True with no call in between, unless  *)
(* the trial was abandoned by an exception nobody records.                 *)
(***************************************************************************)
RefusalEnds == ~Admits(breaker) ~> (Admits(breaker) \/ abandoned)

\* The same without the exception: the docstring's "a trial success closes it;
\* a trial failure reopens it" leaves no third outcome.
RefusalAlwaysEnds == ~Admits(breaker) ~> Admits(breaker)
=============================================================================
