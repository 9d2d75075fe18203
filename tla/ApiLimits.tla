------------------------------- MODULE ApiLimits -------------------------------
(***************************************************************************)
(* The API's limit on run triggers (SlidingWindowRateLimiter and           *)
(* enforce_run_rate_limit, api/rate_limit.py).  Requests are handled by    *)
(* threads: a thread reads the clock, then waits for the lock, so hits may *)
(* be recorded out of order and judged by a time that is past.  The order  *)
(* of a client's hits is not kept: only Retry-After, which is not          *)
(* modelled, reads it.                                                     *)
(***************************************************************************)
EXTENDS Integers, FiniteSets, Functions

CONSTANTS
  Client, Thread,
  Limit, RateWindow,  \* run_rate_limit, run_rate_window_seconds
  MaxTrackedClients,  \* MAX_TRACKED_CLIENTS
  Lag,                \* how long a thread waits for the lock at most
  MaxClock, MaxRequests  \* bounds of the model

ASSUME ApiAssumption ==
  /\ Limit \in Nat \ {0} /\ RateWindow \in Nat \ {0} /\ MaxTrackedClients \in Nat
  /\ Lag \in 0 .. RateWindow - 1 /\ MaxClock \in Nat /\ MaxRequests \in Nat

VARIABLES
  monotonic,  \* time.monotonic()
  hits,       \* _hits_dict: for each tracked client, how many hits it has at every time
  threads,    \* the request each thread handles and the time it read
  requests,   \* requests received
  admitted,   \* history: requests let through in the last window, by client and time
  cleared     \* history: the times in it at which the full table was cleared

apiVars == <<monotonic, hits, threads, requests, admitted, cleared>>

Time == 0 .. MaxClock
Free == [at |-> "free"]

ApiTypeOK ==
  /\ monotonic \in 0 .. MaxClock /\ requests \in 0 .. MaxRequests /\ DOMAIN hits \subseteq Client
  /\ Cardinality(DOMAIN hits) <= MaxTrackedClients + 1
  /\ \A c \in DOMAIN hits : hits[c] \in [Time -> Nat] /\ SumFunction(hits[c]) <= Limit
  /\ \A t \in Thread : threads[t] \in {Free} \cup [at : {"lock"}, client : Client, now : 0 .. monotonic]
  /\ admitted \in [Client -> [Time -> Nat]] /\ cleared \in [Time -> Nat]

NoHits == [m \in Time |-> 0]

ApiInit ==
  /\ monotonic = 0 /\ requests = 0 /\ hits = << >> /\ threads = [t \in Thread |-> Free]
  /\ admitted = [c \in Client |-> NoHits] /\ cleared = NoHits

RequestArrives(t) ==
  /\ threads[t] = Free /\ requests < MaxRequests /\ requests' = requests + 1
  /\ \E c \in Client : threads' = [threads EXCEPT ![t] = [at |-> "lock", client |-> c, now |-> monotonic]]
  /\ UNCHANGED <<monotonic, hits, admitted, cleared>>

Restricted(set) == [c \in set |-> hits[c]]

\* Mutant: a client goes when any of its hits expired.
LiveWithoutOld(cutoff) == {c \in DOMAIN hits : \A m \in Time : hits[c][m] > 0 => m > cutoff}

LiveClients(cutoff) == {c \in DOMAIN hits : \E m \in Time : hits[c][m] > 0 /\ m > cutoff}

TableFull(cutoff) == Cardinality(LiveClients(cutoff)) > MaxTrackedClients

\* _prune
PrunedTable(cutoff) == IF TableFull(cutoff) THEN << >> ELSE Restricted(LiveClients(cutoff))

Recent(counts, cutoff) == [m \in Time |-> IF m > cutoff THEN counts[m] ELSE 0]

\* check, with the lock held; a request over the limit gets a 429.
CheckRequest(t) ==
  LET client == threads[t].client
      cutoff == threads[t].now - RateWindow
      table  == PrunedTable(cutoff)
      recent == IF client \in DOMAIN table THEN Recent(table[client], cutoff) ELSE NoHits
      allowed == SumFunction(recent) < Limit
  IN  /\ threads[t] # Free
      /\ hits' = [c \in DOMAIN table \cup {client} |->
                    IF c # client THEN table[c]
                    ELSE IF allowed THEN [recent EXCEPT ![threads[t].now] = @ + 1] ELSE recent]
      /\ admitted' = IF allowed THEN [admitted EXCEPT ![client][monotonic] = @ + 1] ELSE admitted
      /\ cleared' = IF TableFull(cutoff) THEN [cleared EXCEPT ![monotonic] = @ + 1] ELSE cleared
      /\ threads' = [threads EXCEPT ![t] = Free] /\ UNCHANGED <<monotonic, requests>>

Remembered(count) == [m \in Time |-> IF monotonic' - m < RateWindow - Lag THEN count[m] ELSE 0]

\* No thread waits for the lock longer than Lag.
MonotonicTick ==
  /\ monotonic < MaxClock /\ monotonic' = monotonic + 1
  /\ \A t \in Thread : threads[t] # Free => monotonic' - threads[t].now <= Lag
  /\ admitted' = [c \in Client |-> Remembered(admitted[c])] /\ cleared' = Remembered(cleared)
  /\ UNCHANGED <<hits, threads, requests>>

ApiNext == MonotonicTick \/ \E t \in Thread : RequestArrives(t) \/ CheckRequest(t)

ApiSpec == ApiInit /\ [][ApiNext]_apiVars

-----------------------------------------------------------------------------
Since(count, from) == SumFunctionOnSet(count, from .. monotonic)

(***************************************************************************)
(* A client starts no more runs within a window, less the time a thread    *)
(* may wait for the lock, than the limit, and once more for every time the *)
(* table of clients overflowed in between (rate_limit.py:58, :74).         *)
(***************************************************************************)
ClientsWithinLimit ==
  \A c \in Client, from \in 0 .. monotonic :
    Since(admitted[c], from) <= Limit * (1 + Since(cleared, from))
================================================================================
