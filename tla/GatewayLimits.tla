----------------------------- MODULE GatewayLimits -----------------------------
(***************************************************************************)
(* The gateway's rate limiter (WorkflowRateLimiter, gateway/ratelimit.py)  *)
(* over the token buckets of gateway/store.py.  An acquire takes one token *)
(* of the request bucket, then its estimate from the token bucket, and     *)
(* polls until both are taken or max_wait_s is over.                       *)
(*                                                                         *)
(* The memory store reads one monotonic clock.  The Redis script takes the *)
(* clock of the replica that calls it, so two calls may see the time go    *)
(* back.  Time counts polls; one workflow's two buckets are modelled.      *)
(***************************************************************************)
EXTENDS Integers, FiniteSetsExt

CONSTANTS
  Caller,           \* calls in flight, of any replica
  ReplicaSkews,     \* how far a replica's clock may be from the true time
  Capacity, Refill, \* of the two buckets, and per poll
  Estimates,        \* estimated_tokens
  MaxWait,          \* max_wait_s in polls
  TtlSlack,         \* the 60 s a key outlives the time the bucket needs to fill
  MaxTime, MaxAcquires  \* bounds of the model

Bucket == {"requests", "tokens"}

ASSUME LimitsAssumption ==
  /\ IsFiniteSet(Caller)
  /\ ReplicaSkews \subseteq Int /\ 0 \in ReplicaSkews
  /\ \E lo, hi \in ReplicaSkews : \A skew \in ReplicaSkews : lo <= skew /\ skew <= hi
  /\ Capacity \in [Bucket -> Nat \ {0}] /\ Refill \in [Bucket -> Nat \ {0}]
  /\ Estimates \subseteq Nat /\ MaxWait \in Nat
  /\ TtlSlack \in Nat
  /\ TtlSlack >= Max(ReplicaSkews) - Min(ReplicaSkews)  \* clocks agree within a minute
  /\ MaxTime \in Nat /\ MaxAcquires \in Nat

VARIABLES
  store,    \* "memory" or "redis"
  clock,
  buckets,  \* tokens, the caller's time of the last call, the true time of it
  callers,  \* what each acquire waits for
  acquires, \* acquires begun
  paid,     \* history: request tokens granted
  excess    \* history: the most a bucket granted over any stretch of time up to now,
            \* less what flowed in during it

limitVars == <<store, clock, buckets, callers, acquires, paid, excess>>

Full == [stored |-> FALSE, tokens |-> 0, last |-> 0, touched |-> 0]
Resting == [at |-> "idle", cost |-> 0, started |-> 0, next |-> 0]

LimitsTypeOK ==
  /\ store \in {"memory", "redis"} /\ clock \in 0 .. MaxTime /\ acquires \in 0 .. MaxAcquires /\ paid \in Nat
  /\ \A b \in Bucket : /\ buckets[b].tokens \in Int /\ buckets[b].tokens <= Capacity[b]
                       /\ buckets[b].touched \in 0 .. clock
                       /\ excess[b] \in Nat
  /\ \A c \in Caller : /\ callers[c].at \in {"idle", "request", "tokens"}
                       /\ callers[c].cost \in 0 .. Capacity["tokens"]

LimitsInit ==
  /\ store \in {"memory", "redis"} /\ clock = 0 /\ acquires = 0 /\ paid = 0
  /\ buckets = [b \in Bucket |-> Full] /\ callers = [c \in Caller |-> Resting]
  /\ excess = [b \in Bucket |-> 0]

-----------------------------------------------------------------------------
\* take_tokens

ReadClock == IF store = "memory" THEN {clock} ELSE {clock + s : s \in ReplicaSkews}

\* Mutant: a bucket that overflows.
Unbounded(b, at) ==
  IF buckets[b].stored THEN buckets[b].tokens + (at - buckets[b].last) * Refill[b] ELSE Capacity[b]

Refilled(b, at) ==
  IF buckets[b].stored
  THEN Min({Capacity[b], buckets[b].tokens + (at - buckets[b].last) * Refill[b]})
  ELSE Capacity[b]

\* The call of a bucket by a caller whose clock shows at.
TakeTokens(b, at, cost) ==
  LET allowed == Refilled(b, at) >= cost
  IN  /\ buckets' = [buckets EXCEPT ![b] =
           [stored |-> TRUE, last |-> at, touched |-> clock,
            tokens |-> Refilled(b, at) - (IF allowed THEN cost ELSE 0)]]
      /\ excess' = [excess EXCEPT ![b] = @ + (IF allowed THEN cost ELSE 0)]
      /\ paid' = paid + (IF allowed /\ b = "requests" THEN 1 ELSE 0)

\* SET ... EX ttl: a bucket nobody called for so long is full again.
Ttl(b) == (Capacity[b] + Refill[b] - 1) \div Refill[b] + TtlSlack

Expire(b) ==
  /\ store = "redis" /\ buckets[b].stored /\ clock - buckets[b].touched >= Ttl(b)
  /\ buckets' = [buckets EXCEPT ![b] = Full]
  /\ UNCHANGED <<store, clock, callers, acquires, paid, excess>>

-----------------------------------------------------------------------------
\* acquire

Acquire(c) ==
  /\ callers[c].at = "idle" /\ acquires < MaxAcquires /\ acquires' = acquires + 1
  /\ \E estimate \in Estimates :
       callers' = [callers EXCEPT ![c] =
         [at |-> "request", started |-> clock, next |-> clock,
          cost |-> Min({estimate, Capacity["tokens"]})]]
  /\ UNCHANGED <<store, clock, buckets, paid, excess>>

\* Not enough: RateLimitExceededError, which ends the acquire, or asyncio.sleep(POLL_S).
Poll(c, at) ==
  IF clock - callers[c].started >= MaxWait THEN Resting
  ELSE [callers[c] EXCEPT !.at = at, !.next = clock + 1]

\* The token of the request bucket, taken once.
TakeRequest(c) ==
  /\ callers[c].at = "request" /\ callers[c].next <= clock
  /\ \E at \in ReadClock :
       /\ TakeTokens("requests", at, 1)
       /\ callers' = [callers EXCEPT ![c] =
            IF Refilled("requests", at) >= 1 THEN [@ EXCEPT !.at = "tokens"] ELSE Poll(c, "request")]
  /\ UNCHANGED <<store, clock, acquires>>

\* Mutant: every poll takes a request token too.
TakeEstimateAndRequest(c) ==
  /\ callers[c].at = "tokens" /\ callers[c].next <= clock
  /\ \E at \in ReadClock :
       /\ TakeTokens("tokens", at, callers[c].cost)
       /\ callers' = [callers EXCEPT ![c] =
            IF Refilled("tokens", at) >= callers[c].cost THEN Resting ELSE Poll(c, "request")]
  /\ UNCHANGED <<store, clock, acquires>>

\* The estimate; the request token is not given back when it is not to be had.
TakeEstimate(c) ==
  /\ callers[c].at = "tokens" /\ callers[c].next <= clock
  /\ \E at \in ReadClock :
       /\ TakeTokens("tokens", at, callers[c].cost)
       /\ callers' = [callers EXCEPT ![c] =
            IF Refilled("tokens", at) >= callers[c].cost THEN Resting ELSE Poll(c, "tokens")]
  /\ UNCHANGED <<store, clock, acquires>>

\* POLL_S pass.
PollPassed ==
  /\ clock < MaxTime /\ clock' = clock + 1
  /\ excess' = [b \in Bucket |-> Max({excess[b] - Refill[b], 0})]
  /\ UNCHANGED <<store, buckets, callers, acquires, paid>>

LimitsNext ==
  \/ \E c \in Caller : Acquire(c) \/ TakeRequest(c) \/ TakeEstimate(c)
  \/ \E b \in Bucket : Expire(b)
  \/ PollPassed

LimitsSpec == LimitsInit /\ [][LimitsNext]_limitVars

-----------------------------------------------------------------------------
(***************************************************************************)
(* Whatever the replicas' clocks show, in whatever order their calls reach *)
(* the script and whether or not the keys expired in between, a bucket     *)
(* grants in no stretch of time more than it holds and what flows in       *)
(* during that time and the clocks' disagreement (store.py:19).  And       *)
(* however often an acquire polls for its tokens, it costs the workflow    *)
(* one request: requests are not used up by waiting (ratelimit.py:78).     *)
(***************************************************************************)
BucketKeepsRate ==
  /\ \A b \in Bucket : excess[b] <= Capacity[b] + Refill[b] * (Max(ReplicaSkews) - Min(ReplicaSkews))
  /\ paid + Cardinality({c \in Caller : callers[c].at = "request"}) <= acquires
================================================================================
