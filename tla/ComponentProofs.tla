--------------------------- MODULE ComponentProofs ---------------------------
(***************************************************************************)
(* The rate a bucket keeps, for any number of callers and replicas, any    *)
(* capacities and rates, and clocks that differ by any amount a key        *)
(* outlives.  What the property lacks is what the bucket may still grant:  *)
(* a bucket that granted anything has that much less room, however the     *)
(* clocks of its callers jump, and has room again for what flowed in.      *)
(* And the runs that the API's limiter lets a client start, for any number *)
(* of threads that wait for its lock; what a crash costs a checkpointed    *)
(* evaluation, for any tasks, variants and repeats; the figures of runs,   *)
(* which agree for any runs; the routes of the gateway, for any            *)
(* measurements; and the types of evaluations, limits, figures and routes. *)
(***************************************************************************)
EXTENDS GatewayLimits, ApiLimits, Evaluation, Roi, Routing, GatewayLemmas, FiniteSetTheorems, TLAPS

Early == Min(ReplicaSkews)
Late == Max(ReplicaSkews)

\* How far two replicas' clocks are apart at most.
Apart == Late - Early

\* What flows into a bucket in a stretch of time.
Flow(b, stretch) == stretch * Refill[b]

\* What a stored bucket holds for the replica whose clock is fastest.
Room(b) == buckets[b].tokens + Flow(b, clock + Late - buckets[b].last)

\* The property's bound.
Most(b) == Capacity[b] + Flow(b, Apart)

Place == {"idle", "request", "tokens"}

LimitsTyped ==
  /\ store \in {"memory", "redis"} /\ clock \in Int /\ acquires \in Nat /\ paid \in Nat
  /\ buckets \in [Bucket -> [stored : BOOLEAN, tokens : Int, last : Int, touched : Int]]
  /\ excess \in [Bucket -> Nat]
  /\ callers \in [Caller -> [at : Place, cost : Nat, started : Int, next : Int]]

\* A bucket keeps its rate; one nobody called for a while has made up for its excess.
RoomIsLeft ==
  \A b \in Bucket :
    IF buckets[b].stored
    THEN /\ Room(b) >= 0
         /\ excess[b] > 0 => /\ excess[b] + Room(b) <= Most(b)
                             /\ excess[b] + Flow(b, clock - buckets[b].touched) <= Most(b)
    ELSE excess[b] = 0

\* Acquires that have not got their request token.
Asking == {c \in Caller : callers[c].at = "request"}
PaidOnce == paid + Cardinality(Asking) <= acquires

RateInv == LimitsTyped /\ RoomIsLeft /\ PaidOnce

-----------------------------------------------------------------------------
\* Arithmetic

LEMMA Extremes ==
  /\ Early \in ReplicaSkews /\ Late \in ReplicaSkews /\ Early \in Int /\ Late \in Int
  /\ \A skew \in ReplicaSkews : Early <= skew /\ skew <= Late
  /\ Early <= 0 /\ 0 <= Late /\ Apart \in Nat
<1>1. PICK lo \in ReplicaSkews, hi \in ReplicaSkews :
        \A skew \in ReplicaSkews : lo <= skew /\ skew <= hi
  BY LimitsAssumption
<1>2. ReplicaSkews \subseteq Int /\ 0 \in ReplicaSkews
  BY LimitsAssumption
<1>3. Early \in ReplicaSkews /\ \A skew \in ReplicaSkews : Early <= skew
  BY <1>1 DEF Early, Min
<1>4. Late \in ReplicaSkews /\ \A skew \in ReplicaSkews : skew <= Late
  <2>1. \A skew \in ReplicaSkews : hi >= skew
    BY <1>1, <1>2
  <2>2. Late \in ReplicaSkews /\ \A skew \in ReplicaSkews : Late >= skew
    BY <2>1 DEF Late, Max
  <2> QED BY <1>2, <2>2
<1> QED BY <1>2, <1>3, <1>4 DEF Apart

LEMMA Least == ASSUME NEW x \in Int, NEW y \in Int PROVE Min({x, y}) = IF x <= y THEN x ELSE y
<1>1. CASE x <= y
  <2>1. \E z \in {x, y} : \A w \in {x, y} : z <= w
    BY <1>1
  <2>2. Min({x, y}) \in {x, y} /\ \A w \in {x, y} : Min({x, y}) <= w
    BY <2>1 DEF Min
  <2> QED BY <1>1, <2>2
<1>2. CASE ~(x <= y)
  <2>1. \E z \in {x, y} : \A w \in {x, y} : z <= w
    BY <1>2
  <2>2. Min({x, y}) \in {x, y} /\ \A w \in {x, y} : Min({x, y}) <= w
    BY <2>1 DEF Min
  <2> QED BY <1>2, <2>2
<1> QED BY <1>1, <1>2

LEMMA Greatest == ASSUME NEW x \in Int, NEW y \in Int PROVE Max({x, y}) = IF x >= y THEN x ELSE y
<1>1. CASE x >= y
  <2>1. \E z \in {x, y} : \A w \in {x, y} : z >= w
    BY <1>1
  <2>2. Max({x, y}) \in {x, y} /\ \A w \in {x, y} : Max({x, y}) >= w
    BY <2>1 DEF Max
  <2> QED BY <1>1, <2>2
<1>2. CASE ~(x >= y)
  <2>1. \E z \in {x, y} : \A w \in {x, y} : z >= w
    BY <1>2
  <2>2. Max({x, y}) \in {x, y} /\ \A w \in {x, y} : Max({x, y}) >= w
    BY <2>1 DEF Max
  <2> QED BY <1>2, <2>2
<1> QED BY <1>1, <1>2

LEMMA Rates == ASSUME NEW b \in Bucket PROVE Refill[b] \in Nat \ {0} /\ Capacity[b] \in Nat \ {0}
  BY LimitsAssumption

LEMMA FlowTyped == ASSUME NEW b \in Bucket, NEW x \in Int PROVE Flow(b, x) \in Int
  BY Rates DEF Flow

LEMMA FlowAdds ==
  ASSUME NEW b \in Bucket, NEW x \in Int, NEW y \in Int
  PROVE  Flow(b, x + y) = Flow(b, x) + Flow(b, y)
  BY Rates DEF Flow

LEMMA FlowOfPoll == ASSUME NEW b \in Bucket PROVE Flow(b, 1) = Refill[b] /\ Flow(b, 0) = 0
  BY Rates DEF Flow

LEMMA FlowGrows ==
  ASSUME NEW b \in Bucket, NEW x \in Int, NEW y \in Int, x <= y
  PROVE  Flow(b, x) <= Flow(b, y)
<1>1. \A r \in Nat, z \in Nat : z * r >= 0
  OBVIOUS
<1>2. y - x \in Nat /\ y = x + (y - x)
  OBVIOUS
<1>3. Flow(b, y - x) >= 0
  BY <1>1, <1>2, Rates DEF Flow
<1>4. Flow(b, y) = Flow(b, x) + Flow(b, y - x)
  BY <1>2, FlowAdds
<1> QED BY <1>2, <1>3, <1>4, FlowTyped

\* A bucket fills in the time its key lives, whichever clock measures it.
LEMMA TtlFills ==
  ASSUME NEW b \in Bucket
  PROVE  Ttl(b) \in Int /\ Flow(b, Ttl(b)) >= Most(b)
<1> DEFINE r == Refill[b]
           q == (Capacity[b] + r - 1) \div r
<1>1. r \in Nat \ {0} /\ Capacity[b] \in Nat \ {0}
  BY Rates
<1>2. \A x \in Nat, y \in Nat \ {0} : x \div y \in Nat /\ x < (x \div y) * y + y
  OBVIOUS
<1>3. q \in Nat /\ q * r >= Capacity[b]
  <2>1. Capacity[b] + r - 1 \in Nat
    BY <1>1
  <2>2. q \in Nat /\ Capacity[b] + r - 1 < q * r + r
    BY <1>1, <1>2, <2>1
  <2>3. q * r \in Nat
    BY <1>1, <2>2
  <2> HIDE DEF q, r
  <2> QED BY <1>1, <2>2, <2>3
<1>4. TtlSlack \in Nat /\ TtlSlack >= Apart
  BY LimitsAssumption DEF Apart, Late, Early
<1>5. Ttl(b) = q + TtlSlack
  BY DEF Ttl
<1>6. Flow(b, q) >= Capacity[b] /\ Flow(b, TtlSlack) >= Flow(b, Apart)
  <2>1. Flow(b, q) = q * r
    BY DEF Flow
  <2>2. Apart \in Int /\ TtlSlack \in Int /\ Apart <= TtlSlack
    BY <1>4, Extremes
  <2>3. Flow(b, Apart) <= Flow(b, TtlSlack)
    BY <2>2, FlowGrows
  <2>4. Flow(b, Apart) \in Int /\ Flow(b, TtlSlack) \in Int
    BY <2>2, FlowTyped
  <2> QED BY <1>3, <2>1, <2>3, <2>4
<1> HIDE DEF q
<1>7. Flow(b, q + TtlSlack) = Flow(b, q) + Flow(b, TtlSlack)
  BY <1>3, <1>4, FlowAdds
<1>8. Flow(b, q) \in Int /\ Flow(b, TtlSlack) \in Int /\ Flow(b, Apart) \in Int
  BY <1>3, <1>4, Extremes, FlowTyped
<1> QED BY <1>1, <1>3, <1>4, <1>5, <1>6, <1>7, <1>8 DEF Most

-----------------------------------------------------------------------------
\* A call of a bucket

\* The time a caller sees is between the slowest clock and the fastest.
LEMMA TimesSeen ==
  ASSUME clock \in Int, NEW at \in ReadClock
  PROVE  at \in Int /\ clock + Early <= at /\ at <= clock + Late
  BY Extremes, LimitsAssumption DEF ReadClock

LEMMA MostTyped ==
  ASSUME NEW b \in Bucket
  PROVE  Most(b) \in Int /\ Most(b) >= Capacity[b] /\ Flow(b, Apart) \in Int /\ Flow(b, Apart) >= 0
<1>1. Apart \in Int /\ 0 <= Apart /\ Flow(b, 0) = 0
  BY Extremes, FlowOfPoll
<1>2. Flow(b, Apart) \in Int /\ Flow(b, 0) <= Flow(b, Apart)
  BY <1>1, FlowTyped, FlowGrows
<1> QED BY <1>1, <1>2, Rates DEF Most

LEMMA TakeKeepsRoom ==
  ASSUME LimitsTyped, RoomIsLeft, NEW b \in Bucket, NEW at \in ReadClock, NEW cost \in Nat,
         TakeTokens(b, at, cost), UNCHANGED clock
  PROVE  /\ buckets' \in [Bucket -> [stored : BOOLEAN, tokens : Int, last : Int, touched : Int]]
         /\ excess' \in [Bucket -> Nat] /\ RoomIsLeft'
<1> DEFINE level == Refilled(b, at)
           granted == IF level >= cost THEN cost ELSE 0
           ahead == Flow(b, clock + Late - at)
           now == [stored |-> TRUE, last |-> at, touched |-> clock, tokens |-> level - granted]
<1>1. /\ clock \in Int /\ at \in Int /\ buckets[b].tokens \in Int /\ buckets[b].last \in Int
      /\ clock + Early <= at /\ at <= clock + Late /\ Early \in Int /\ Late \in Int
      /\ excess[b] \in Nat
  BY TimesSeen, Extremes DEF LimitsTyped
<1>2. ahead \in Int /\ 0 <= ahead /\ ahead <= Flow(b, Apart)
  <2>1. clock + Late - at \in Int /\ 0 <= clock + Late - at /\ clock + Late - at <= Apart /\ Apart \in Int
    BY <1>1 DEF Apart
  <2> QED BY <2>1, FlowTyped, FlowGrows, FlowOfPoll
<1>3. Capacity[b] \in Nat
  BY Rates
<1>4. Room(b) \in Int
  BY <1>1, FlowTyped DEF Room
\* What the bucket is refilled to leaves as much room as it had, or a full bucket's.
<1>5. /\ level \in Int /\ level <= Capacity[b]
      /\ buckets[b].stored => level + ahead <= Room(b) /\ (level + ahead = Room(b) \/ level = Capacity[b])
      /\ ~buckets[b].stored => level = Capacity[b]
  <2>1. CASE buckets[b].stored
    <3> DEFINE inflow == Flow(b, at - buckets[b].last)
    <3>1. inflow \in Int /\ inflow = (at - buckets[b].last) * Refill[b]
      BY <1>1, FlowTyped DEF Flow
    <3>2. inflow + ahead = Flow(b, clock + Late - buckets[b].last)
      <4>1. at - buckets[b].last \in Int /\ clock + Late - at \in Int
        BY <1>1
      <4>2. Flow(b, (at - buckets[b].last) + (clock + Late - at)) = inflow + ahead
        BY <4>1, FlowAdds
      <4>3. (at - buckets[b].last) + (clock + Late - at) = clock + Late - buckets[b].last
        BY <1>1
      <4> QED BY <4>2, <4>3
    <3>3. level = Min({Capacity[b], buckets[b].tokens + inflow})
      BY <2>1, <3>1 DEF Refilled
    <3> HIDE DEF inflow, ahead, level
    <3>4. level = IF Capacity[b] <= buckets[b].tokens + inflow THEN Capacity[b]
                  ELSE buckets[b].tokens + inflow
      BY <1>1, <1>3, <3>1, <3>3, Least
    <3>5. Room(b) = buckets[b].tokens + inflow + ahead
      BY <1>1, <1>2, <3>1, <3>2 DEF Room
    <3> QED BY <1>1, <1>2, <1>3, <2>1, <3>1, <3>4, <3>5
  <2>2. CASE ~buckets[b].stored
    BY <1>3, <2>2 DEF Refilled
  <2> QED BY <2>1, <2>2
<1>6. /\ buckets' = [buckets EXCEPT ![b] = now]
      /\ excess' = [excess EXCEPT ![b] = @ + granted]
  BY DEF TakeTokens
<1>7. granted \in Nat /\ (granted > 0 => granted <= level)
  BY <1>5
<1> HIDE DEF level, granted
<1>8. now \in [stored : BOOLEAN, tokens : Int, last : Int, touched : Int]
  BY <1>1, <1>5, <1>7
<1>9. /\ buckets' \in [Bucket -> [stored : BOOLEAN, tokens : Int, last : Int, touched : Int]]
      /\ excess' \in [Bucket -> Nat]
  BY <1>6, <1>7, <1>8 DEF LimitsTyped
<1>10. /\ buckets'[b] = now /\ excess'[b] = excess[b] + granted
       /\ \A a \in Bucket : a # b => buckets'[a] = buckets[a] /\ excess'[a] = excess[a]
  BY <1>6 DEF LimitsTyped
<1>11. /\ now.stored = TRUE /\ now.tokens = level - granted /\ now.last = at /\ now.touched = clock
  OBVIOUS
<1> HIDE DEF now
<1>12. Room(b)' = level - granted + ahead
  BY <1>10, <1>11 DEF Room, Late, Flow
<1> HIDE DEF ahead
<1>13. /\ IF buckets[b].stored
          THEN /\ Room(b) >= 0
               /\ excess[b] > 0 => excess[b] + Room(b) <= Most(b)
          ELSE excess[b] = 0
       /\ Most(b) \in Int /\ Most(b) = Capacity[b] + Flow(b, Apart)
       /\ Flow(b, Apart) \in Int /\ Flow(b, Apart) >= 0
  BY MostTyped DEF RoomIsLeft, Most
<1>14. Room(b)' >= 0
  <2>1. CASE granted > 0
    BY <1>2, <1>5, <1>7, <1>12, <2>1
  <2>2. CASE granted = 0
    BY <1>2, <1>3, <1>4, <1>5, <1>12, <1>13, <2>2
  <2> QED BY <1>7, <2>1, <2>2
<1>15. excess'[b] > 0 => excess'[b] + Room(b)' <= Most(b)
  <2>1. CASE excess[b] = 0
    BY <1>2, <1>3, <1>5, <1>7, <1>10, <1>12, <1>13, <2>1
  <2>2. CASE excess[b] > 0
    BY <1>1, <1>2, <1>3, <1>4, <1>5, <1>7, <1>10, <1>12, <1>13, <2>2
  <2> QED BY <1>1, <2>1, <2>2
<1>16. excess'[b] > 0 => excess'[b] + Flow(b, clock - now.touched) <= Most(b)
  <2>1. clock - now.touched = 0 /\ Flow(b, 0) = 0
    BY <1>1, <1>11, FlowOfPoll
  <2>2. excess'[b] \in Nat /\ Room(b)' \in Int
    BY <1>2, <1>5, <1>7, <1>9, <1>12
  <2>3. excess'[b] > 0 => excess'[b] <= Most(b)
    BY <1>13, <1>14, <1>15, <2>2
  <2> QED BY <2>1, <2>2, <2>3
<1>17. ASSUME NEW a \in Bucket
       PROVE  IF buckets'[a].stored
              THEN /\ Room(a)' >= 0
                   /\ excess'[a] > 0 => /\ excess'[a] + Room(a)' <= Most(a)
                                        /\ excess'[a] + Flow(a, clock' - buckets'[a].touched) <= Most(a)
              ELSE excess'[a] = 0
  <2>1. CASE a = b
    BY <1>10, <1>11, <1>14, <1>15, <1>16, <2>1
  <2>2. CASE a # b
    <3>1. buckets'[a] = buckets[a] /\ excess'[a] = excess[a] /\ Room(a)' = Room(a)
      BY <1>10, <2>2 DEF Room, Flow, Late
    <3> QED BY <3>1 DEF RoomIsLeft
  <2> QED BY <2>1, <2>2
<1>18. RoomIsLeft'
  BY <1>17 DEF RoomIsLeft, Most, Flow, Apart, Late, Early
<1> QED BY <1>9, <1>18

\* An acquire moves: only its own place counts.
LEMMA AskingMoves ==
  ASSUME LimitsTyped, NEW c \in Caller, NEW r, callers' = [callers EXCEPT ![c] = r]
  PROVE  /\ Cardinality(Asking) \in Nat /\ Cardinality(Asking)' \in Nat
         /\ r.at = "request" => Cardinality(Asking)' <= Cardinality(Asking) + 1
         /\ r.at = "request" /\ callers[c].at = "request" => Cardinality(Asking)' = Cardinality(Asking)
         /\ r.at # "request" => Cardinality(Asking)' <= Cardinality(Asking)
         /\ r.at # "request" /\ callers[c].at = "request" =>
              Cardinality(Asking)' = Cardinality(Asking) - 1
<1>1. \A d \in Caller : callers'[d] = IF d = c THEN r ELSE callers[d]
  BY DEF LimitsTyped
<1>2. IsFiniteSet(Asking) /\ Cardinality(Asking) \in Nat /\ Cardinality(Asking)' \in Nat
  <2>1. Asking \in SUBSET Caller /\ Asking' \in SUBSET Caller
    BY DEF Asking
  <2> QED BY <2>1, LimitsAssumption, FS_Subset, FS_CardinalityType
<1>3. c \in Asking <=> callers[c].at = "request"
  BY DEF Asking
<1>4. CASE r.at = "request"
  <2>1. Asking' = Asking \cup {c}
    BY <1>1, <1>4 DEF Asking
  <2>2. Cardinality(Asking \cup {c}) =
          IF c \in Asking THEN Cardinality(Asking) ELSE Cardinality(Asking) + 1
    BY <1>2, FS_AddElement
  <2> QED BY <1>2, <1>3, <1>4, <2>1, <2>2
<1>5. CASE r.at # "request"
  <2>1. Asking' = Asking \ {c}
    BY <1>1, <1>5 DEF Asking
  <2>2. Cardinality(Asking \ {c}) =
          IF c \in Asking THEN Cardinality(Asking) - 1 ELSE Cardinality(Asking)
    BY <1>2, FS_RemoveElement
  <2> QED BY <1>2, <1>3, <1>5, <2>1, <2>2
<1> QED BY <1>2, <1>4, <1>5

LEMMA PollTyped ==
  ASSUME LimitsTyped, NEW c \in Caller, NEW at \in {"request", "tokens"}
  PROVE  /\ Poll(c, at) \in [at : Place, cost : Nat, started : Int, next : Int]
         /\ Poll(c, at).at \in {"idle", at}
<1> DEFINE Acquiring == [at : Place, cost : Nat, started : Int, next : Int]
<1>1. callers[c] \in Acquiring /\ clock + 1 \in Int /\ at \in Place
  BY DEF LimitsTyped, Place
<1>2. Resting \in Acquiring /\ Resting.at = "idle"
  BY DEF Resting, Place
<1>3. /\ [callers[c] EXCEPT !.at = at, !.next = clock + 1] \in Acquiring
      /\ [callers[c] EXCEPT !.at = at, !.next = clock + 1].at = at
  BY <1>1
<1>4. Poll(c, at) \in {Resting, [callers[c] EXCEPT !.at = at, !.next = clock + 1]}
  BY DEF Poll
<1> HIDE DEF Acquiring
<1>5. CASE Poll(c, at) = Resting
  BY <1>2, <1>5 DEF Acquiring
<1>6. CASE Poll(c, at) = [callers[c] EXCEPT !.at = at, !.next = clock + 1]
  BY <1>3, <1>6 DEF Acquiring
<1> QED BY <1>4, <1>5, <1>6

LEMMA SameRoom ==
  ASSUME LimitsTyped, RoomIsLeft, UNCHANGED <<clock, buckets, excess>> PROVE RoomIsLeft'
  BY DEF RoomIsLeft, Room, Flow, Most, Apart, Late, Early

-----------------------------------------------------------------------------
\* The steps

LEMMA InitRateInv == LimitsInit => RateInv
<1> SUFFICES ASSUME LimitsInit PROVE RateInv
  OBVIOUS
<1>1. Full \in [stored : BOOLEAN, tokens : Int, last : Int, touched : Int] /\ ~Full.stored
  BY DEF Full
<1>2. Resting \in [at : Place, cost : Nat, started : Int, next : Int] /\ Resting.at = "idle"
  BY DEF Resting, Place
<1>3. LimitsTyped
  BY <1>1, <1>2 DEF LimitsInit, LimitsTyped
<1>4. RoomIsLeft
  BY <1>1 DEF LimitsInit, RoomIsLeft
<1>5. Asking = {}
  BY <1>2 DEF LimitsInit, Asking
<1>6. PaidOnce
  BY <1>5, FS_EmptySet DEF LimitsInit, PaidOnce
<1> QED BY <1>3, <1>4, <1>6 DEF RateInv

LEMMA AcquireKeeps == ASSUME RateInv, NEW c \in Caller, Acquire(c) PROVE RateInv'
<1>1. /\ callers[c].at = "idle" /\ acquires' = acquires + 1
      /\ UNCHANGED <<store, clock, buckets, paid, excess>>
  BY DEF Acquire
<1>2. PICK estimate \in Estimates :
        callers' = [callers EXCEPT ![c] =
          [at |-> "request", started |-> clock, next |-> clock,
           cost |-> Min({estimate, Capacity["tokens"]})]]
  BY DEF Acquire
<1> DEFINE r == [at |-> "request", started |-> clock, next |-> clock,
                 cost |-> Min({estimate, Capacity["tokens"]})]
<1>3. r \in [at : Place, cost : Nat, started : Int, next : Int] /\ r.at = "request"
  <2>1. estimate \in Nat /\ Capacity["tokens"] \in Nat
    BY LimitsAssumption DEF Bucket
  <2>2. Min({estimate, Capacity["tokens"]}) \in Nat
    BY <2>1, Least
  <2> QED BY <2>2 DEF RateInv, LimitsTyped, Place
<1>4. callers' = [callers EXCEPT ![c] = r]
  BY <1>2
<1> HIDE DEF r
<1>5. LimitsTyped'
  BY <1>1, <1>3, <1>4 DEF RateInv, LimitsTyped
<1>6. RoomIsLeft'
  BY <1>1, SameRoom DEF RateInv
<1>7. /\ Cardinality(Asking)' <= Cardinality(Asking) + 1
      /\ Cardinality(Asking) \in Nat /\ Cardinality(Asking)' \in Nat
  BY <1>3, <1>4, AskingMoves DEF RateInv
<1>8. PaidOnce'
  BY <1>1, <1>7 DEF RateInv, LimitsTyped, PaidOnce
<1> QED BY <1>5, <1>6, <1>8 DEF RateInv

LEMMA TakeRequestKeeps == ASSUME RateInv, NEW c \in Caller, TakeRequest(c) PROVE RateInv'
<1>1. PICK at \in ReadClock :
        /\ TakeTokens("requests", at, 1)
        /\ callers' = [callers EXCEPT ![c] =
             IF Refilled("requests", at) >= 1 THEN [@ EXCEPT !.at = "tokens"] ELSE Poll(c, "request")]
  BY DEF TakeRequest
<1>2. callers[c].at = "request" /\ UNCHANGED <<store, clock, acquires>>
  BY DEF TakeRequest
<1> DEFINE r == IF Refilled("requests", at) >= 1
                THEN [callers[c] EXCEPT !.at = "tokens"] ELSE Poll(c, "request")
<1>3. /\ r \in [at : Place, cost : Nat, started : Int, next : Int]
      /\ Refilled("requests", at) >= 1 => r.at = "tokens"
      /\ r.at \in Place
  BY PollTyped DEF RateInv, LimitsTyped, Place
<1>4. callers' = [callers EXCEPT ![c] = r]
  BY <1>1
<1> HIDE DEF r
<1>5. /\ buckets' \in [Bucket -> [stored : BOOLEAN, tokens : Int, last : Int, touched : Int]]
      /\ excess' \in [Bucket -> Nat] /\ RoomIsLeft'
  BY <1>1, <1>2, TakeKeepsRoom DEF RateInv, Bucket
<1>6. paid' = paid + (IF Refilled("requests", at) >= 1 THEN 1 ELSE 0) /\ paid' \in Nat
  BY <1>1 DEF TakeTokens, RateInv, LimitsTyped
<1>7. LimitsTyped'
  BY <1>2, <1>3, <1>4, <1>5, <1>6 DEF RateInv, LimitsTyped
<1>8. /\ Cardinality(Asking) \in Nat /\ Cardinality(Asking)' \in Nat
      /\ r.at = "request" => Cardinality(Asking)' = Cardinality(Asking)
      /\ r.at # "request" => Cardinality(Asking)' = Cardinality(Asking) - 1
  BY <1>2, <1>4, AskingMoves DEF RateInv
<1>9. PaidOnce'
  <2>1. acquires' = acquires /\ paid \in Nat /\ acquires \in Nat /\ paid + Cardinality(Asking) <= acquires
    BY <1>2 DEF RateInv, LimitsTyped, PaidOnce
  <2>2. paid' + Cardinality(Asking)' <= acquires'
    <3>1. CASE Refilled("requests", at) >= 1
      BY <1>3, <1>6, <1>8, <2>1, <3>1
    <3>2. CASE ~(Refilled("requests", at) >= 1)
      BY <1>6, <1>8, <2>1, <3>2
    <3> QED BY <3>1, <3>2
  <2> QED BY <2>2 DEF PaidOnce
<1> QED BY <1>5, <1>7, <1>9 DEF RateInv

LEMMA TakeEstimateKeeps == ASSUME RateInv, NEW c \in Caller, TakeEstimate(c) PROVE RateInv'
<1>1. PICK at \in ReadClock :
        /\ TakeTokens("tokens", at, callers[c].cost)
        /\ callers' = [callers EXCEPT ![c] =
             IF Refilled("tokens", at) >= callers[c].cost THEN Resting ELSE Poll(c, "tokens")]
  BY DEF TakeEstimate
<1>2. callers[c].at = "tokens" /\ UNCHANGED <<store, clock, acquires>> /\ callers[c].cost \in Nat
  BY DEF TakeEstimate, RateInv, LimitsTyped
<1> DEFINE r == IF Refilled("tokens", at) >= callers[c].cost THEN Resting ELSE Poll(c, "tokens")
<1>3. r \in [at : Place, cost : Nat, started : Int, next : Int] /\ r.at # "request"
  BY PollTyped DEF RateInv, LimitsTyped, Place, Resting
<1>4. callers' = [callers EXCEPT ![c] = r]
  BY <1>1
<1> HIDE DEF r
<1>5. /\ buckets' \in [Bucket -> [stored : BOOLEAN, tokens : Int, last : Int, touched : Int]]
      /\ excess' \in [Bucket -> Nat] /\ RoomIsLeft'
  BY <1>1, <1>2, TakeKeepsRoom DEF RateInv, Bucket
<1>6. paid' = paid
  BY <1>1 DEF TakeTokens, RateInv, LimitsTyped
<1>7. LimitsTyped'
  BY <1>2, <1>3, <1>4, <1>5, <1>6 DEF RateInv, LimitsTyped
<1>8. Asking' = Asking
  BY <1>2, <1>3, <1>4 DEF RateInv, LimitsTyped, Asking
<1>9. PaidOnce'
  BY <1>2, <1>6, <1>8 DEF RateInv, PaidOnce
<1> QED BY <1>5, <1>7, <1>9 DEF RateInv

\* Its time to live has refilled what a bucket granted in excess.
LEMMA ExpireKeeps == ASSUME RateInv, NEW b \in Bucket, Expire(b) PROVE RateInv'
<1>1. /\ buckets[b].stored /\ clock - buckets[b].touched >= Ttl(b)
      /\ buckets' = [buckets EXCEPT ![b] = Full]
      /\ UNCHANGED <<store, clock, callers, acquires, paid, excess>>
  BY DEF Expire
<1>2. Full \in [stored : BOOLEAN, tokens : Int, last : Int, touched : Int] /\ ~Full.stored
  BY DEF Full
<1>3. LimitsTyped'
  BY <1>1, <1>2 DEF RateInv, LimitsTyped
<1>4. excess[b] = 0
  <2>1. clock - buckets[b].touched \in Int /\ Ttl(b) \in Int /\ excess[b] \in Nat
    BY TtlFills DEF RateInv, LimitsTyped
  <2>2. Flow(b, clock - buckets[b].touched) >= Flow(b, Ttl(b)) /\ Flow(b, Ttl(b)) >= Most(b)
    BY <1>1, <2>1, FlowGrows, TtlFills
  <2>3. /\ Flow(b, clock - buckets[b].touched) \in Int /\ Flow(b, Ttl(b)) \in Int /\ Most(b) \in Int
    BY <2>1, FlowTyped, MostTyped
  <2>4. excess[b] > 0 => excess[b] + Flow(b, clock - buckets[b].touched) <= Most(b)
    BY <1>1 DEF RateInv, RoomIsLeft
  <2> QED BY <2>1, <2>2, <2>3, <2>4
<1>5. /\ buckets'[b] = Full
      /\ \A a \in Bucket : a # b => buckets'[a] = buckets[a]
  BY <1>1 DEF RateInv, LimitsTyped
<1>6. ASSUME NEW a \in Bucket
      PROVE  IF buckets'[a].stored
             THEN /\ Room(a)' >= 0
                  /\ excess'[a] > 0 => /\ excess'[a] + Room(a)' <= Most(a)
                                       /\ excess'[a] + Flow(a, clock' - buckets'[a].touched) <= Most(a)
             ELSE excess'[a] = 0
  <2>1. CASE a = b
    BY <1>1, <1>2, <1>4, <1>5, <2>1
  <2>2. CASE a # b
    <3>1. buckets'[a] = buckets[a] /\ excess'[a] = excess[a] /\ Room(a)' = Room(a)
      BY <1>1, <1>5, <2>2 DEF Room, Flow, Late
    <3> QED BY <1>1, <3>1 DEF RateInv, RoomIsLeft
  <2> QED BY <2>1, <2>2
<1>7. RoomIsLeft'
  BY <1>6 DEF RoomIsLeft, Most, Flow, Apart, Late, Early
<1>8. PaidOnce'
  BY <1>1 DEF RateInv, PaidOnce, Asking
<1> QED BY <1>3, <1>7, <1>8 DEF RateInv

LEMMA PollPassedKeeps == ASSUME RateInv, PollPassed PROVE RateInv'
<1>1. /\ clock' = clock + 1 /\ excess' = [b \in Bucket |-> Max({excess[b] - Refill[b], 0})]
      /\ UNCHANGED <<store, buckets, callers, acquires, paid>>
  BY DEF PollPassed
<1>2. ASSUME NEW b \in Bucket
      PROVE  /\ excess'[b] \in Nat
             /\ excess'[b] > 0 => excess[b] > 0 /\ excess'[b] = excess[b] - Refill[b]
             /\ excess[b] = 0 => excess'[b] = 0
  <2>1. excess[b] \in Nat /\ Refill[b] \in Nat \ {0}
    BY Rates DEF RateInv, LimitsTyped
  <2>2. excess'[b] = Max({excess[b] - Refill[b], 0})
    BY <1>1
  <2>3. excess[b] - Refill[b] \in Int
    BY <2>1
  <2>4. Max({excess[b] - Refill[b], 0}) = IF excess[b] - Refill[b] >= 0 THEN excess[b] - Refill[b] ELSE 0
    BY <2>3, Greatest
  <2> QED BY <2>1, <2>2, <2>4
<1>3. excess' \in [Bucket -> Nat]
  BY <1>1, <1>2
<1>4. LimitsTyped'
  BY <1>1, <1>3 DEF RateInv, LimitsTyped
<1>5. ASSUME NEW b \in Bucket
      PROVE  IF buckets'[b].stored
             THEN /\ Room(b)' >= 0
                  /\ excess'[b] > 0 => /\ excess'[b] + Room(b)' <= Most(b)
                                       /\ excess'[b] + Flow(b, clock' - buckets'[b].touched) <= Most(b)
             ELSE excess'[b] = 0
  <2> DEFINE last == buckets[b].last
             touched == buckets[b].touched
  <2>1. /\ clock \in Int /\ last \in Int /\ touched \in Int /\ buckets[b].tokens \in Int
        /\ Late \in Int /\ Refill[b] \in Nat \ {0} /\ excess[b] \in Nat
    BY Extremes, Rates DEF RateInv, LimitsTyped
  <2>2. /\ Flow(b, clock' + Late - last) = Flow(b, clock + Late - last) + Refill[b]
        /\ Flow(b, clock' - touched) = Flow(b, clock - touched) + Refill[b]
    <3>1. clock + Late - last \in Int /\ clock - touched \in Int /\ 1 \in Int
      BY <2>1
    <3>2. /\ Flow(b, (clock + Late - last) + 1) = Flow(b, clock + Late - last) + Flow(b, 1)
          /\ Flow(b, (clock - touched) + 1) = Flow(b, clock - touched) + Flow(b, 1)
      BY <3>1, FlowAdds
    <3>3. clock' + Late - last = (clock + Late - last) + 1 /\ clock' - touched = (clock - touched) + 1
      BY <1>1, <2>1
    <3> QED BY <3>2, <3>3, FlowOfPoll
  <2>3. Room(b)' = buckets[b].tokens + Flow(b, clock' + Late - last)
    BY <1>1 DEF Room, Flow, Late
  <2>4. /\ Flow(b, clock + Late - last) \in Int /\ Flow(b, clock - touched) \in Int
        /\ Room(b) = buckets[b].tokens + Flow(b, clock + Late - last)
        /\ Most(b) \in Int
    BY <2>1, FlowTyped, MostTyped DEF Room
  <2>5. Room(b) \in Int /\ Room(b)' = Room(b) + Refill[b]
    BY <2>1, <2>2, <2>3, <2>4
  <2>6. IF buckets[b].stored
        THEN /\ Room(b) >= 0
             /\ excess[b] > 0 => /\ excess[b] + Room(b) <= Most(b)
                                 /\ excess[b] + Flow(b, clock - touched) <= Most(b)
        ELSE excess[b] = 0
    BY DEF RateInv, RoomIsLeft
  <2>7. buckets'[b] = buckets[b]
    BY <1>1
  <2> HIDE DEF last, touched
  <2>8. CASE buckets[b].stored
    <3>1. Room(b)' >= 0
      BY <2>1, <2>5, <2>6, <2>8
    <3>2. ASSUME excess'[b] > 0
          PROVE  excess'[b] + Room(b)' <= Most(b) /\ excess'[b] + Flow(b, clock' - touched) <= Most(b)
      BY <1>2, <2>1, <2>2, <2>4, <2>5, <2>6, <2>8, <3>2
    <3> QED BY <2>7, <2>8, <3>1, <3>2 DEF touched
  <2>9. CASE ~buckets[b].stored
    BY <1>2, <2>6, <2>7, <2>9
  <2> QED BY <2>8, <2>9
<1>6. RoomIsLeft'
  BY <1>5 DEF RoomIsLeft, Most, Flow, Apart, Late, Early
<1>7. PaidOnce'
  BY <1>1 DEF RateInv, PaidOnce, Asking
<1> QED BY <1>4, <1>6, <1>7 DEF RateInv

LEMMA RateStep == RateInv /\ [LimitsNext]_limitVars => RateInv'
<1> SUFFICES ASSUME RateInv, [LimitsNext]_limitVars PROVE RateInv'
  OBVIOUS
<1>1. CASE UNCHANGED limitVars
  <2>1. UNCHANGED <<store, clock, buckets, callers, acquires, paid, excess>>
    BY <1>1 DEF limitVars
  <2>2. RoomIsLeft'
    BY <2>1, SameRoom DEF RateInv
  <2> QED BY <2>1, <2>2 DEF RateInv, LimitsTyped, PaidOnce, Asking
<1>2. ASSUME NEW c \in Caller, Acquire(c) \/ TakeRequest(c) \/ TakeEstimate(c) PROVE RateInv'
  BY <1>2, AcquireKeeps, TakeRequestKeeps, TakeEstimateKeeps
<1>3. ASSUME NEW b \in Bucket, Expire(b) PROVE RateInv'
  BY <1>3, ExpireKeeps
<1>4. CASE PollPassed
  BY <1>4, PollPassedKeeps
<1> QED BY <1>1, <1>2, <1>3, <1>4 DEF LimitsNext

(***************************************************************************)
(* The script of store.py keeps its rate: for any number of replicas, any  *)
(* clocks and any order of calls, a bucket grants in no stretch of time    *)
(* more than it holds and what flows in during it and the clocks'          *)
(* disagreement; and an acquire takes one request token however often it   *)
(* polls (WorkflowRateLimiter.acquire).                                    *)
(***************************************************************************)
THEOREM RateKept == LimitsSpec => []BucketKeepsRate
<1>1. RateInv => BucketKeepsRate
  <2> SUFFICES ASSUME RateInv PROVE BucketKeepsRate
    OBVIOUS
  <2>1. ASSUME NEW b \in Bucket
        PROVE  excess[b] <= Capacity[b] + Refill[b] * (Max(ReplicaSkews) - Min(ReplicaSkews))
    <3>1. Flow(b, Apart) = Refill[b] * (Max(ReplicaSkews) - Min(ReplicaSkews))
      BY Rates, Extremes DEF Flow, Apart, Late, Early
    <3>2. /\ Most(b) \in Int /\ Most(b) >= Capacity[b] /\ Capacity[b] \in Nat /\ excess[b] \in Nat
          /\ Most(b) = Capacity[b] + Flow(b, Apart)
      BY Rates, MostTyped DEF RateInv, LimitsTyped, Most
    <3>3. CASE excess[b] = 0
      BY <3>1, <3>2, <3>3
    <3>4. CASE excess[b] > 0
      <4>1. buckets[b].stored /\ Room(b) >= 0 /\ excess[b] + Room(b) <= Most(b)
        BY <3>4 DEF RateInv, RoomIsLeft
      <4>2. Room(b) \in Int
        <5>1. buckets[b].tokens \in Int /\ clock + Late - buckets[b].last \in Int
          BY Extremes DEF RateInv, LimitsTyped
        <5> QED BY <5>1, FlowTyped DEF Room
      <4> QED BY <3>1, <3>2, <4>1, <4>2
    <3> QED BY <3>2, <3>3, <3>4
  <2>2. paid + Cardinality({c \in Caller : callers[c].at = "request"}) <= acquires
    BY DEF RateInv, PaidOnce, Asking
  <2> QED BY <2>1, <2>2 DEF BucketKeepsRate
<1> QED BY InitRateInv, RateStep, <1>1, PTL DEF LimitsSpec

-----------------------------------------------------------------------------
\* What the types of the limiter's state bound: no bucket overflows, no estimate is more
\* than a bucket holds.
LimitsBounded ==
  /\ clock \in 0 .. MaxTime /\ acquires \in 0 .. MaxAcquires
  /\ \A b \in Bucket : buckets[b].tokens <= Capacity[b] /\ buckets[b].touched \in 0 .. clock
  /\ \A c \in Caller : callers[c].cost \in 0 .. Capacity["tokens"]

LEMMA LimitsInitBounded == LimitsInit => LimitsBounded
<1> SUFFICES ASSUME LimitsInit PROVE LimitsBounded
  OBVIOUS
<1>1. clock = 0 /\ acquires = 0 /\ 0 \in 0 .. MaxTime /\ 0 \in 0 .. MaxAcquires
  BY LimitsAssumption DEF LimitsInit
<1>2. \A b \in Bucket : buckets[b].tokens = 0 /\ buckets[b].touched = 0
  BY DEF LimitsInit, Full
<1>3. \A c \in Caller : callers[c].cost = 0
  BY DEF LimitsInit, Resting
<1>4. Capacity["tokens"] \in Nat
  BY Rates DEF Bucket
<1> QED BY <1>1, <1>2, <1>3, <1>4, Rates DEF LimitsBounded

LEMMA TakeTokensBounded ==
  ASSUME RateInv, LimitsBounded, NEW b \in Bucket, NEW at \in ReadClock, NEW cost \in Nat,
         TakeTokens(b, at, cost)
  PROVE  \A a \in Bucket : buckets'[a].tokens <= Capacity[a] /\ buckets'[a].touched \in 0 .. clock
<1> DEFINE level == Refilled(b, at)
           now == [stored |-> TRUE, last |-> at, touched |-> clock,
                   tokens |-> level - (IF level >= cost THEN cost ELSE 0)]
<1>1. /\ clock \in Nat /\ at \in Int /\ buckets[b].tokens \in Int /\ buckets[b].last \in Int
      /\ Capacity[b] \in Nat
  BY TimesSeen, Rates DEF RateInv, LimitsTyped, LimitsBounded
<1>2. level \in Int /\ level <= Capacity[b]
  <2>1. CASE buckets[b].stored
    <3> DEFINE more == buckets[b].tokens + Flow(b, at - buckets[b].last)
    <3>1. more \in Int
      BY <1>1, FlowTyped
    <3>2. level = Min({Capacity[b], more})
      BY <2>1 DEF Refilled, Flow
    <3> HIDE DEF more, level
    <3> QED BY <1>1, <3>1, <3>2, Least
  <2>2. CASE ~buckets[b].stored
    BY <1>1, <2>2 DEF Refilled
  <2> QED BY <2>1, <2>2
<1>3. buckets' = [buckets EXCEPT ![b] = now]
  BY DEF TakeTokens
<1>4. now.tokens <= Capacity[b] /\ now.touched = clock
  <2> HIDE DEF level
  <2> QED BY <1>1, <1>2
<1> HIDE DEF now
<1>5. \A a \in Bucket : buckets'[a] = IF a = b THEN now ELSE buckets[a]
  BY <1>3 DEF RateInv, LimitsTyped
<1> QED BY <1>1, <1>4, <1>5 DEF LimitsBounded

LEMMA PollBounded ==
  ASSUME RateInv, LimitsBounded, NEW c \in Caller, NEW at
  PROVE  Poll(c, at).cost \in 0 .. Capacity["tokens"]
<1>1. Capacity["tokens"] \in Nat /\ callers[c].cost \in 0 .. Capacity["tokens"]
  BY Rates DEF Bucket, LimitsBounded
<1>2. callers[c] \in [at : Place, cost : Nat, started : Int, next : Int]
  BY DEF RateInv, LimitsTyped
<1>3. [callers[c] EXCEPT !.at = at, !.next = clock + 1].cost = callers[c].cost
  BY <1>2
<1> QED BY <1>1, <1>3 DEF Poll, Resting

LEMMA LimitsBoundedStep ==
  ASSUME RateInv, LimitsBounded, [LimitsNext]_limitVars PROVE LimitsBounded'
<1>1. MaxTime \in Nat /\ MaxAcquires \in Nat /\ Capacity["tokens"] \in Nat
  BY LimitsAssumption, Rates DEF Bucket
<1>2. CASE UNCHANGED limitVars
  BY <1>2 DEF limitVars, LimitsBounded
<1>3. ASSUME NEW c \in Caller, Acquire(c) PROVE LimitsBounded'
  <2>1. PICK estimate \in Estimates :
          callers' = [callers EXCEPT ![c] =
            [at |-> "request", started |-> clock, next |-> clock,
             cost |-> Min({estimate, Capacity["tokens"]})]]
    BY <1>3 DEF Acquire
  <2>2. Min({estimate, Capacity["tokens"]}) \in 0 .. Capacity["tokens"]
    <3>1. estimate \in Nat
      BY LimitsAssumption
    <3> QED BY <1>1, <3>1, Least
  <2>3. \A d \in Caller : callers'[d].cost \in 0 .. Capacity["tokens"]
    BY <2>1, <2>2 DEF RateInv, LimitsTyped, LimitsBounded
  <2>4. acquires' \in 0 .. MaxAcquires /\ UNCHANGED <<clock, buckets>>
    BY <1>1, <1>3 DEF Acquire, RateInv, LimitsTyped
  <2> QED BY <2>3, <2>4 DEF LimitsBounded
<1>4. ASSUME NEW c \in Caller, TakeRequest(c) PROVE LimitsBounded'
  <2>1. PICK at \in ReadClock :
          /\ TakeTokens("requests", at, 1)
          /\ callers' = [callers EXCEPT ![c] =
               IF Refilled("requests", at) >= 1 THEN [@ EXCEPT !.at = "tokens"] ELSE Poll(c, "request")]
    BY <1>4 DEF TakeRequest
  <2> DEFINE r == IF Refilled("requests", at) >= 1
                  THEN [callers[c] EXCEPT !.at = "tokens"] ELSE Poll(c, "request")
  <2>2. r.cost \in 0 .. Capacity["tokens"]
    <3>1. [callers[c] EXCEPT !.at = "tokens"].cost = callers[c].cost
      BY DEF RateInv, LimitsTyped
    <3> QED BY <3>1, PollBounded DEF LimitsBounded
  <2>3. callers' = [callers EXCEPT ![c] = r]
    BY <2>1
  <2> HIDE DEF r
  <2>4. \A d \in Caller : callers'[d].cost \in 0 .. Capacity["tokens"]
    BY <2>2, <2>3 DEF RateInv, LimitsTyped, LimitsBounded
  <2>5. \A a \in Bucket : buckets'[a].tokens <= Capacity[a] /\ buckets'[a].touched \in 0 .. clock
    BY <2>1, TakeTokensBounded DEF Bucket
  <2> QED BY <1>4, <2>4, <2>5 DEF TakeRequest, LimitsBounded
<1>5. ASSUME NEW c \in Caller, TakeEstimate(c) PROVE LimitsBounded'
  <2>1. PICK at \in ReadClock :
          /\ TakeTokens("tokens", at, callers[c].cost)
          /\ callers' = [callers EXCEPT ![c] =
               IF Refilled("tokens", at) >= callers[c].cost THEN Resting ELSE Poll(c, "tokens")]
    BY <1>5 DEF TakeEstimate
  <2> DEFINE r == IF Refilled("tokens", at) >= callers[c].cost THEN Resting ELSE Poll(c, "tokens")
  <2>2. r.cost \in 0 .. Capacity["tokens"]
    BY <1>1, PollBounded DEF Resting
  <2>3. callers' = [callers EXCEPT ![c] = r]
    BY <2>1
  <2> HIDE DEF r
  <2>4. \A d \in Caller : callers'[d].cost \in 0 .. Capacity["tokens"]
    BY <2>2, <2>3 DEF RateInv, LimitsTyped, LimitsBounded
  <2>5. callers[c].cost \in Nat
    BY DEF RateInv, LimitsTyped
  <2>6. \A a \in Bucket : buckets'[a].tokens <= Capacity[a] /\ buckets'[a].touched \in 0 .. clock
    BY <2>1, <2>5, TakeTokensBounded DEF Bucket
  <2> QED BY <1>5, <2>4, <2>6 DEF TakeEstimate, LimitsBounded
<1>6. ASSUME NEW b \in Bucket, Expire(b) PROVE LimitsBounded'
  <2>1. \A a \in Bucket : buckets'[a] = IF a = b THEN Full ELSE buckets[a]
    BY <1>6 DEF Expire, RateInv, LimitsTyped
  <2>2. clock \in Nat /\ Full.tokens = 0 /\ Full.touched = 0 /\ Capacity[b] \in Nat
    BY <1>1, Rates DEF LimitsBounded, Full
  <2> QED BY <1>6, <2>1, <2>2 DEF Expire, LimitsBounded
<1>7. CASE PollPassed
  <2>1. clock' \in 0 .. MaxTime /\ 0 .. clock \subseteq 0 .. clock'
    BY <1>1, <1>7 DEF PollPassed, LimitsBounded
  <2> QED BY <1>7, <2>1 DEF PollPassed, LimitsBounded
<1> QED BY <1>2, <1>3, <1>4, <1>5, <1>6, <1>7 DEF LimitsNext

LEMMA LimitsTypes == LimitsSpec => []LimitsTypeOK
<1>1. RateInv /\ LimitsBounded => LimitsTypeOK
  BY DEF RateInv, LimitsTyped, LimitsBounded, LimitsTypeOK, Place
<1>2. RateInv /\ LimitsBounded /\ [LimitsNext]_limitVars => LimitsBounded'
  BY LimitsBoundedStep
<1> QED BY InitRateInv, RateStep, LimitsInitBounded, <1>1, <1>2, PTL DEF LimitsSpec

-----------------------------------------------------------------------------
(***************************************************************************)
(* The API's limit on run triggers.  What a client was let through since   *)
(* some time is bounded by what the limiter still holds of its hits since, *)
(* and a full table for every time the table was cleared: a thread may be  *)
(* late by Lag, so the hits of a time are recorded up to Lag before it,    *)
(* and no cutoff reaches them within a window less Lag.                    *)
(***************************************************************************)

\* What the limiter holds of a client, by time.
HitsOf(c) == IF c \in DOMAIN hits THEN hits[c] ELSE NoHits

FromOn(k) == {m \in Time : m >= k}
SumFrom(count, k) == SumFunctionOnSet(count, FromOn(k))

\* The times that the history remembers.
Recalls(m) == m <= monotonic /\ monotonic - m < RateWindow - Lag

ApiTypes ==
  /\ monotonic \in Time /\ requests \in 0 .. MaxRequests
  /\ DOMAIN hits \subseteq Client /\ IsFiniteSet(DOMAIN hits)
  /\ hits = [c \in DOMAIN hits |-> hits[c]]
  /\ Cardinality(DOMAIN hits) <= MaxTrackedClients + 1
  /\ \A c \in DOMAIN hits : hits[c] \in [Time -> Nat] /\ SumFunction(hits[c]) <= Limit
  /\ threads \in [Thread -> {Free} \cup [at : {"lock"}, client : Client, now : Time]]
  /\ admitted \in [Client -> [Time -> Nat]] /\ cleared \in [Time -> Nat]

\* No thread that waits read the clock more than Lag ago, none reads a time to come.
ReadLately ==
  \A t \in Thread : threads[t] # Free => threads[t].now \in monotonic - Lag .. monotonic

\* The history holds nothing of other times.
Forgotten ==
  \A m \in Time : ~Recalls(m) => cleared[m] = 0 /\ \A c \in Client : admitted[c][m] = 0

AdmittedAreHeld ==
  \A c \in Client, from \in Time :
    Recalls(from) =>
      SumFrom(admitted[c], from) <= Limit * SumFrom(cleared, from) + SumFrom(HitsOf(c), from - Lag)

ApiInv == ApiTypes /\ ReadLately /\ Forgotten /\ AdmittedAreHeld

LEMMA TimeFinite ==
  IsFiniteSet(Time) /\ Time \subseteq Nat /\ \A k : FromOn(k) \subseteq Time /\ IsFiniteSet(FromOn(k))
<1>1. IsFiniteSet(Time) /\ Time \subseteq Nat
  BY ApiAssumption, FS_Interval DEF Time, ApiAssumption
<1>2. \A k : FromOn(k) \subseteq Time
  BY DEF FromOn
<1>. QED BY <1>1, <1>2, FS_Subset

LEMMA SumFromNat ==
  ASSUME NEW count \in [Time -> Nat], NEW k
  PROVE  SumFrom(count, k) \in Nat
<1>1. \A m \in FromOn(k) : count[m] \in Nat
  BY TimeFinite
<1>. QED BY <1>1, TimeFinite, SumNat DEF SumFrom

LEMMA SumFromSame ==
  ASSUME NEW f \in [Time -> Nat], NEW g \in [Time -> Nat], NEW k,
         \A m \in FromOn(k) : g[m] = f[m]
  PROVE  SumFrom(g, k) = SumFrom(f, k)
<1>1. \A m \in FromOn(k) : f[m] \in Int /\ g[m] = f[m]
  BY DEF FromOn
<1>. QED BY <1>1, TimeFinite, SumOfEquals DEF SumFrom

LEMMA SumFromZeros ==
  ASSUME NEW f \in [Time -> Nat], NEW k, \A m \in FromOn(k) : f[m] = 0
  PROVE  SumFrom(f, k) = 0
BY TimeFinite, SumOfZeros DEF SumFrom

LEMMA SumFromOneMore ==
  ASSUME NEW f \in [Time -> Nat], NEW k, NEW x \in FromOn(k),
         NEW g \in [Time -> Nat], g[x] = f[x] + 1, \A m \in FromOn(k) \ {x} : g[m] = f[m]
  PROVE  SumFrom(g, k) = SumFrom(f, k) + 1
<1>1. \A m \in FromOn(k) : f[m] \in Int /\ g[m] \in Int
  BY DEF FromOn
<1>2. SumFrom(g, k) = SumFrom(f, k) - f[x] + g[x]
  BY <1>1, TimeFinite, SumChange DEF SumFrom
<1>3. SumFrom(f, k) \in Nat /\ f[x] \in Nat
  BY <1>1, SumFromNat, TimeFinite
<1>. QED BY <1>2, <1>3

\* SumFunction sums over all times.
LEMMA SumOfAll ==
  ASSUME NEW f \in [Time -> Nat]
  PROVE  SumFunction(f) \in Nat /\ SumFunction(f) = SumFunctionOnSet(f, Time)
<1>1. SumFunction(f) = SumFunctionOnSet(f, Time)
  BY DEF SumFunction
<1>2. \A m \in Time : f[m] \in Nat
  OBVIOUS
<1>. QED BY <1>1, <1>2, TimeFinite, SumNat

LEMMA SumFromLeast ==
  ASSUME NEW f \in [Time -> Nat], NEW k
  PROVE  SumFrom(f, k) <= SumFunction(f)
<1>1. FromOn(k) \in SUBSET Time /\ \A m \in Time : f[m] \in Nat
  BY DEF FromOn
<1>. QED BY <1>1, TimeFinite, SumOfAll, SumSubset DEF SumFrom

LEMMA SumOfOneMore ==
  ASSUME NEW f \in [Time -> Nat], NEW x \in Time
  PROVE  SumFunction([f EXCEPT ![x] = @ + 1]) = SumFunction(f) + 1
<1>. DEFINE g == [f EXCEPT ![x] = @ + 1]
<1>1. /\ g \in [Time -> Nat] /\ g[x] = f[x] + 1 /\ \A m \in Time \ {x} : g[m] = f[m]
      /\ \A m \in Time : f[m] \in Int /\ g[m] \in Int
  OBVIOUS
<1>2. SumFunctionOnSet(g, Time) = SumFunctionOnSet(f, Time) - f[x] + g[x]
  <2>. HIDE DEF g
  <2>1. IsFiniteSet(Time) /\ x \in Time
    BY TimeFinite
  <2>. QED BY ONLY <1>1, <2>1, SumChange
<1>3. SumFunction(g) = SumFunctionOnSet(g, Time) /\ SumFunction(f) = SumFunctionOnSet(f, Time)
      /\ SumFunction(f) \in Nat
  <2>. HIDE DEF g
  <2>. QED BY <1>1, SumOfAll
<1>4. f[x] \in Nat
  OBVIOUS
<1>. HIDE DEF g
<1>5. SumFunction(g) = SumFunction(f) + 1
  BY <1>1, <1>2, <1>3, <1>4
<1>. QED BY <1>5 DEF g

LEMMA NoHitsIs == NoHits \in [Time -> Nat] /\ SumFunction(NoHits) = 0
<1>1. NoHits \in [Time -> Nat] /\ \A m \in Time : NoHits[m] = 0
  BY DEF NoHits
<1>. QED BY <1>1, SumOfAll, TimeFinite, SumOfZeros

LEMMA HitsOfTyped ==
  ASSUME ApiTypes, NEW c
  PROVE  HitsOf(c) \in [Time -> Nat] /\ SumFunction(HitsOf(c)) <= Limit
BY NoHitsIs, ApiAssumption DEF HitsOf, ApiTypes, ApiAssumption

LEMMA ApiInitially == ApiInit => ApiInv
<1>. SUFFICES ASSUME ApiInit PROVE ApiInv
  OBVIOUS
<1>1. 0 \in Time /\ 0 \in 0 .. MaxRequests /\ MaxTrackedClients \in Nat
  BY ApiAssumption DEF Time, ApiAssumption
<1>2. DOMAIN hits = {} /\ hits = [c \in {} |-> hits[c]]
  BY DEF ApiInit
<1>3. ApiTypes
  BY <1>1, <1>2, NoHitsIs, FS_EmptySet DEF ApiInit, ApiTypes
<1>4. ReadLately
  BY DEF ApiInit, ReadLately
<1>5. cleared = NoHits /\ \A c \in Client : admitted[c] = NoHits
  BY DEF ApiInit
<1>6. Forgotten
  BY <1>5 DEF Forgotten, NoHits
<1>7. ASSUME NEW c \in Client, NEW from \in Time
      PROVE  SumFrom(admitted[c], from) <= Limit * SumFrom(cleared, from) + SumFrom(HitsOf(c), from - Lag)
  <2>1. SumFrom(NoHits, from) = 0
    BY NoHitsIs, SumFromZeros, TimeFinite DEF NoHits
  <2>2. SumFrom(HitsOf(c), from - Lag) \in Nat /\ Limit * 0 = 0
    BY <1>3, HitsOfTyped, SumFromNat, ApiAssumption DEF ApiAssumption
  <2>. QED BY <1>5, <2>1, <2>2
<1>. QED BY <1>3, <1>4, <1>6, <1>7 DEF ApiInv, AdmittedAreHeld

LEMMA ArrivalKeeps ==
  ASSUME ApiInv, NEW t \in Thread, RequestArrives(t)
  PROVE  ApiInv'
<1>. USE DEF ApiInv
<1>1. PICK c \in Client :
        threads' = [threads EXCEPT ![t] = [at |-> "lock", client |-> c, now |-> monotonic]]
  BY DEF RequestArrives
<1>2. UNCHANGED <<monotonic, hits, admitted, cleared>> /\ requests' \in 0 .. MaxRequests
  BY ApiAssumption DEF RequestArrives, ApiTypes, ApiAssumption
<1>3. ApiTypes'
  BY <1>1, <1>2 DEF ApiTypes
<1>4. ReadLately'
  <2>1. monotonic \in monotonic - Lag .. monotonic
    BY ApiAssumption, TimeFinite DEF ApiTypes, ApiAssumption
  <2>. QED BY <1>1, <1>2, <2>1 DEF ReadLately, ApiTypes
<1>5. Forgotten' /\ AdmittedAreHeld'
  <2>1. \A m : Recalls(m)' <=> Recalls(m)
    BY <1>2 DEF Recalls
  <2>2. \A c1 : HitsOf(c1)' = HitsOf(c1)
    BY <1>2 DEF HitsOf
  <2>3. Forgotten'
    BY <1>2, <2>1 DEF Forgotten
  <2>4. AdmittedAreHeld'
    BY <1>2, <2>1, <2>2 DEF AdmittedAreHeld
  <2>. QED BY <2>3, <2>4
<1>. QED BY <1>3, <1>4, <1>5

LEMMA TickKeeps ==
  ASSUME ApiInv, MonotonicTick
  PROVE  ApiInv'
<1>. USE DEF ApiInv
<1>1. /\ monotonic \in Nat /\ monotonic' = monotonic + 1 /\ monotonic' \in Time
      /\ RateWindow \in Nat /\ Lag \in Nat
  BY ApiAssumption, TimeFinite DEF MonotonicTick, ApiTypes, Time, ApiAssumption
<1>2. UNCHANGED <<hits, threads, requests>>
  BY DEF MonotonicTick
<1>3. \A m \in Time : Recalls(m)' =>  Recalls(m) \/ m = monotonic'
  BY <1>1, TimeFinite DEF Recalls
<1>4. ASSUME NEW m \in Time
      PROVE  /\ cleared'[m] = IF Recalls(m)' THEN cleared[m] ELSE 0
             /\ \A c \in Client : admitted'[c][m] = IF Recalls(m)' THEN admitted[c][m] ELSE 0
  <2>1. m > monotonic => cleared[m] = 0 /\ \A c \in Client : admitted[c][m] = 0
    BY TimeFinite, <1>1 DEF Forgotten, Recalls
  <2>2. m <= monotonic \/ m > monotonic
    BY TimeFinite, <1>1
  <2>3. m <= monotonic => (Recalls(m)' <=> monotonic' - m < RateWindow - Lag)
    BY TimeFinite, <1>1 DEF Recalls
  <2>4. /\ cleared'[m] = IF monotonic' - m < RateWindow - Lag THEN cleared[m] ELSE 0
        /\ \A c \in Client :
             admitted'[c][m] = IF monotonic' - m < RateWindow - Lag THEN admitted[c][m] ELSE 0
    BY DEF MonotonicTick, Remembered
  <2>. QED BY <2>1, <2>2, <2>3, <2>4
<1>5. ApiTypes'
  <2>1. cleared' \in [Time -> Nat]
    BY DEF MonotonicTick, Remembered, ApiTypes
  <2>2. admitted' \in [Client -> [Time -> Nat]]
    BY DEF MonotonicTick, Remembered, ApiTypes
  <2>. QED BY <1>1, <1>2, <2>1, <2>2 DEF ApiTypes
<1>6. ReadLately'
  <2>. SUFFICES ASSUME NEW t \in Thread, threads[t] # Free
                PROVE  threads[t].now \in monotonic' - Lag .. monotonic'
    BY <1>2 DEF ReadLately
  <2>1. monotonic' - threads[t].now <= Lag /\ threads[t].now \in monotonic - Lag .. monotonic
    BY DEF MonotonicTick, ReadLately
  <2>. QED BY <1>1, <2>1
<1>7. Forgotten'
  BY <1>4 DEF Forgotten
<1>8. ASSUME NEW c \in Client, NEW from \in Time, Recalls(from)'
      PROVE  SumFrom(admitted'[c], from)
               <= Limit * SumFrom(cleared', from) + SumFrom(HitsOf(c)', from - Lag)
  <2>1. /\ admitted'[c] \in [Time -> Nat] /\ cleared' \in [Time -> Nat]
        /\ admitted[c] \in [Time -> Nat] /\ cleared \in [Time -> Nat]
    BY <1>5 DEF ApiTypes
  <2>2. HitsOf(c)' = HitsOf(c)
    BY <1>2 DEF HitsOf
  <2>3. ASSUME NEW m \in FromOn(from)
        PROVE  admitted'[c][m] = admitted[c][m] /\ cleared'[m] = cleared[m]
    <3>1. m \in Time /\ m >= from
      BY DEF FromOn
    <3>2. CASE Recalls(m)'
      BY <1>4, <3>1, <3>2
    <3>3. CASE ~Recalls(m)'
      <4>1. m > monotonic'
        BY <1>1, <1>8, <3>1, <3>3, TimeFinite DEF Recalls
      <4>2. ~Recalls(m)
        BY <1>1, <3>1, <4>1, TimeFinite DEF Recalls
      <4>. QED BY <1>4, <3>1, <3>3, <4>2 DEF Forgotten
    <3>. QED BY <3>2, <3>3
  <2>4. /\ SumFrom(admitted'[c], from) = SumFrom(admitted[c], from)
        /\ SumFrom(cleared', from) = SumFrom(cleared, from)
    BY <2>1, <2>3, SumFromSame
  <2>5. CASE Recalls(from)
    BY <2>2, <2>4, <2>5 DEF AdmittedAreHeld
  <2>6. CASE from = monotonic'
    <3>1. \A m \in FromOn(from) : admitted[c][m] = 0
      BY <1>1, <2>6, TimeFinite DEF FromOn, Forgotten, Recalls
    <3>2. SumFrom(admitted[c], from) = 0
      BY <2>1, <3>1, SumFromZeros
    <3>3. SumFrom(cleared, from) \in Nat /\ SumFrom(HitsOf(c), from - Lag) \in Nat /\ Limit \in Nat
      BY <2>1, SumFromNat, HitsOfTyped, ApiAssumption DEF ApiAssumption
    <3>4. Limit * SumFrom(cleared, from) \in Nat
      BY <3>3
    <3>. QED BY <2>2, <2>4, <3>2, <3>3, <3>4
  <2>. QED BY <1>3, <1>8, <2>5, <2>6
<1>9. AdmittedAreHeld'
  BY <1>8 DEF AdmittedAreHeld, SumFrom, FromOn
<1>. QED BY <1>5, <1>6, <1>7, <1>9

\* What a request under the lock leaves: the hits of the other clients that a cutoff in the past
\* does not reach, the recent ones of its own, and its own hit if it is let through.
LEMMA CheckIs ==
  ASSUME ApiInv, NEW t \in Thread, CheckRequest(t)
  PROVE  \E client \in Client, now \in Time, cutoff \in Int, recent \in [Time -> Nat], left \in SUBSET DOMAIN hits :
           /\ now \in monotonic - Lag .. monotonic /\ cutoff = now - RateWindow
           /\ left = IF TableFull(cutoff) THEN {} ELSE LiveClients(cutoff)
           /\ recent = IF client \in left THEN Recent(hits[client], cutoff) ELSE NoHits
           /\ hits' = [c \in left \cup {client} |->
                         IF c # client THEN hits[c]
                         ELSE IF SumFunction(recent) < Limit THEN [recent EXCEPT ![now] = @ + 1] ELSE recent]
           /\ admitted' = IF SumFunction(recent) < Limit
                          THEN [admitted EXCEPT ![client][monotonic] = @ + 1] ELSE admitted
           /\ cleared' = IF TableFull(cutoff) THEN [cleared EXCEPT ![monotonic] = @ + 1] ELSE cleared
           /\ threads' = [threads EXCEPT ![t] = Free] /\ UNCHANGED <<monotonic, requests>>
<1>. DEFINE client == threads[t].client
            now == threads[t].now
            cutoff == now - RateWindow
            table == PrunedTable(cutoff)
            left == IF TableFull(cutoff) THEN {} ELSE LiveClients(cutoff)
            recent == IF client \in left THEN Recent(hits[client], cutoff) ELSE NoHits
<1>1. client \in Client /\ now \in Time /\ now \in monotonic - Lag .. monotonic
  <2>1. threads[t] # Free
    BY DEF CheckRequest
  <2>. QED BY <2>1 DEF ApiInv, ApiTypes, ReadLately
<1>2. cutoff \in Int
  BY <1>1, TimeFinite, ApiAssumption DEF ApiAssumption
<1>3. left \in SUBSET DOMAIN hits
  BY DEF LiveClients
<1>4. DOMAIN table = left /\ \A c \in left : table[c] = hits[c]
  <2>1. CASE TableFull(cutoff)
    <3>1. table = << >>
      BY <2>1 DEF PrunedTable
    <3>. QED BY <2>1, <3>1
  <2>2. CASE ~TableFull(cutoff)
    <3>1. table = [c \in LiveClients(cutoff) |-> hits[c]]
      BY <2>2 DEF PrunedTable, Restricted
    <3>. QED BY <2>2, <3>1
  <2>. QED BY <2>1, <2>2
<1>5. recent = IF client \in DOMAIN table THEN Recent(table[client], cutoff) ELSE NoHits
  BY <1>4
<1>6. recent \in [Time -> Nat]
  <2>1. client \in left => hits[client] \in [Time -> Nat]
    BY <1>3 DEF ApiInv, ApiTypes
  <2>. QED BY <2>1, NoHitsIs DEF Recent
<1>7. /\ hits' = [c \in DOMAIN table \cup {client} |->
                    IF c # client THEN table[c]
                    ELSE IF SumFunction(recent) < Limit THEN [recent EXCEPT ![now] = @ + 1] ELSE recent]
      /\ admitted' = IF SumFunction(recent) < Limit
                     THEN [admitted EXCEPT ![client][monotonic] = @ + 1] ELSE admitted
      /\ cleared' = IF TableFull(cutoff) THEN [cleared EXCEPT ![monotonic] = @ + 1] ELSE cleared
      /\ threads' = [threads EXCEPT ![t] = Free] /\ UNCHANGED <<monotonic, requests>>
  <2>. HIDE DEF recent
  <2>. QED BY Zenon, <1>5 DEF CheckRequest
<1>. HIDE DEF table, left, recent
<1>8. hits' = [c \in left \cup {client} |->
                 IF c # client THEN hits[c]
                 ELSE IF SumFunction(recent) < Limit THEN [recent EXCEPT ![now] = @ + 1] ELSE recent]
  BY <1>4, <1>7
<1>9. /\ left = IF TableFull(cutoff) THEN {} ELSE LiveClients(cutoff)
      /\ recent = IF client \in left THEN Recent(hits[client], cutoff) ELSE NoHits
  BY DEF left, recent
<1>10. cutoff = now - RateWindow
  OBVIOUS
<1>. HIDE DEF client, now, cutoff
<1>11. /\ now \in monotonic - Lag .. monotonic /\ cutoff = now - RateWindow
       /\ left = IF TableFull(cutoff) THEN {} ELSE LiveClients(cutoff)
       /\ recent = IF client \in left THEN Recent(hits[client], cutoff) ELSE NoHits
       /\ hits' = [c \in left \cup {client} |->
                     IF c # client THEN hits[c]
                     ELSE IF SumFunction(recent) < Limit THEN [recent EXCEPT ![now] = @ + 1] ELSE recent]
       /\ admitted' = IF SumFunction(recent) < Limit
                      THEN [admitted EXCEPT ![client][monotonic] = @ + 1] ELSE admitted
       /\ cleared' = IF TableFull(cutoff) THEN [cleared EXCEPT ![monotonic] = @ + 1] ELSE cleared
       /\ threads' = [threads EXCEPT ![t] = Free] /\ UNCHANGED <<monotonic, requests>>
  BY Zenon, <1>1, <1>7, <1>8, <1>9, <1>10
<1>. QED BY Zenon, <1>1, <1>2, <1>3, <1>6, <1>11

LEMMA CheckKeeps ==
  ASSUME ApiInv, NEW t \in Thread, CheckRequest(t)
  PROVE  ApiInv'
<1>1. PICK client \in Client, now \in Time, cutoff \in Int, recent \in [Time -> Nat],
           left \in SUBSET DOMAIN hits :
        /\ now \in monotonic - Lag .. monotonic /\ cutoff = now - RateWindow
        /\ left = IF TableFull(cutoff) THEN {} ELSE LiveClients(cutoff)
        /\ recent = IF client \in left THEN Recent(hits[client], cutoff) ELSE NoHits
        /\ hits' = [c \in left \cup {client} |->
                      IF c # client THEN hits[c]
                      ELSE IF SumFunction(recent) < Limit THEN [recent EXCEPT ![now] = @ + 1] ELSE recent]
        /\ admitted' = IF SumFunction(recent) < Limit
                       THEN [admitted EXCEPT ![client][monotonic] = @ + 1] ELSE admitted
        /\ cleared' = IF TableFull(cutoff) THEN [cleared EXCEPT ![monotonic] = @ + 1] ELSE cleared
        /\ threads' = [threads EXCEPT ![t] = Free] /\ UNCHANGED <<monotonic, requests>>
  BY CheckIs
<1>. DEFINE own == IF SumFunction(recent) < Limit THEN [recent EXCEPT ![now] = @ + 1] ELSE recent
<1>2. /\ ApiTypes /\ monotonic \in Nat /\ monotonic \in Time /\ Lag \in Nat /\ RateWindow \in Nat
      /\ Lag < RateWindow /\ Limit \in Nat /\ Limit > 0 /\ MaxTrackedClients \in Nat
      /\ now \in Nat /\ \A m \in Time : m \in Nat
  BY TimeFinite, ApiAssumption DEF ApiInv, ApiTypes, ApiAssumption
<1>3. \A c \in DOMAIN hits : hits[c] \in [Time -> Nat] /\ SumFunction(hits[c]) <= Limit
  BY <1>2 DEF ApiTypes
<1>4. SumFunction(recent) \in Nat /\ SumFunction(recent) <= Limit
  <2>1. CASE client \in left
    <3>1. /\ hits[client] \in [Time -> Nat] /\ SumFunction(hits[client]) <= Limit
          /\ recent = Recent(hits[client], cutoff)
      BY <1>1, <1>3, <2>1
    <3>2. \A m \in Time : hits[client][m] \in Int /\ recent[m] \in Int /\ recent[m] <= hits[client][m]
      BY <3>1 DEF Recent
    <3>3. SumFunctionOnSet(recent, Time) <= SumFunctionOnSet(hits[client], Time)
      BY ONLY <3>2, TimeFinite, SumMonotone
    <3>. QED BY <1>2, <3>1, <3>3, SumOfAll
  <2>2. CASE client \notin left
    BY <1>1, <1>2, <2>2, NoHitsIs
  <2>. QED BY <2>1, <2>2
<1>5. own \in [Time -> Nat] /\ SumFunction(own) <= Limit
  <2>1. CASE SumFunction(recent) < Limit
    <3>1. SumFunction([recent EXCEPT ![now] = @ + 1]) = SumFunction(recent) + 1
      BY SumOfOneMore
    <3>. QED BY <1>2, <1>4, <2>1, <3>1
  <2>2. CASE ~(SumFunction(recent) < Limit)
    BY <1>4, <2>2
  <2>. QED BY <2>1, <2>2
<1>6. /\ hits' = [c \in left \cup {client} |-> IF c # client THEN hits[c] ELSE own]
      /\ DOMAIN hits' = left \cup {client}
  BY <1>1
<1>. HIDE DEF own
<1>7. ASSUME NEW c
      PROVE  HitsOf(c)' = IF c = client THEN own ELSE IF c \in left THEN hits[c] ELSE NoHits
  <2>1. NoHits' = NoHits
    BY DEF NoHits, Time
  <2>. QED BY <1>6, <2>1 DEF HitsOf
<1>8. ApiTypes'
  <2>1. IsFiniteSet(left) /\ Cardinality(left) <= MaxTrackedClients /\ Cardinality(left) \in Nat
    <3>1. IsFiniteSet(left)
      BY <1>2, FS_Subset DEF ApiTypes
    <3>2. Cardinality(left) \in Nat
      BY <3>1, FS_CardinalityType
    <3>3. CASE TableFull(cutoff)
      BY <1>1, <1>2, <3>1, <3>2, <3>3, FS_EmptySet
    <3>4. CASE ~TableFull(cutoff)
      BY <1>1, <1>2, <3>1, <3>2, <3>4 DEF TableFull
    <3>. QED BY <3>1, <3>2, <3>3, <3>4
  <2>2. /\ IsFiniteSet(left \cup {client})
        /\ Cardinality(left \cup {client}) <= MaxTrackedClients + 1
    <3>1. Cardinality(left \cup {client}) =
            IF client \in left THEN Cardinality(left) ELSE Cardinality(left) + 1
      BY <2>1, FS_AddElement
    <3>2. IsFiniteSet(left \cup {client})
      BY <2>1, FS_AddElement
    <3>. QED BY <1>2, <2>1, <3>1, <3>2
  <2>3. \A c \in DOMAIN hits' : hits'[c] \in [Time -> Nat] /\ SumFunction(hits'[c]) <= Limit
    BY <1>3, <1>5, <1>6
  <2>4. /\ DOMAIN hits' \subseteq Client /\ hits' = [c \in DOMAIN hits' |-> hits'[c]]
        /\ IsFiniteSet(DOMAIN hits') /\ Cardinality(DOMAIN hits') <= MaxTrackedClients + 1
    BY <1>2, <1>6, <2>2 DEF ApiTypes
  <2>5. threads' \in [Thread -> {Free} \cup [at : {"lock"}, client : Client, now : Time]]
    BY <1>1, <1>2 DEF ApiTypes
  <2>6. cleared' \in [Time -> Nat] /\ admitted' \in [Client -> [Time -> Nat]]
    BY <1>1, <1>2 DEF ApiTypes
  <2>7. monotonic' \in Time /\ requests' \in 0 .. MaxRequests
    BY <1>1, <1>2 DEF ApiTypes
  <2>. QED BY <2>3, <2>4, <2>5, <2>6, <2>7 DEF ApiTypes
<1>9. ReadLately'
  BY <1>1, <1>2 DEF ApiInv, ApiTypes, ReadLately
<1>10. (\A m : Recalls(m)' <=> Recalls(m)) /\ Recalls(monotonic)
  BY <1>1, <1>2 DEF Recalls
<1>11. Forgotten'
  <2>. SUFFICES ASSUME NEW m \in Time, ~Recalls(m)
                PROVE  cleared'[m] = 0 /\ \A c \in Client : admitted'[c][m] = 0
    BY <1>10 DEF Forgotten
  <2>1. m # monotonic /\ cleared[m] = 0 /\ \A c \in Client : admitted[c][m] = 0
    BY <1>10 DEF ApiInv, Forgotten
  <2>. QED BY <1>1, <1>2, <2>1 DEF ApiTypes
<1>12. ASSUME NEW c \in Client, NEW from \in Time, Recalls(from)
       PROVE  SumFrom(admitted'[c], from)
                <= Limit * SumFrom(cleared', from) + SumFrom(HitsOf(c)', from - Lag)
  <2>. DEFINE back == FromOn(from - Lag)
              started == SumFrom(admitted[c], from)
              clears == SumFrom(cleared, from)
              held == SumFrom(HitsOf(c), from - Lag)
              heldNext == SumFrom(HitsOf(c)', from - Lag)
  <2>1. /\ from \in Nat /\ from <= monotonic /\ now >= from - Lag /\ cutoff < from - Lag
        /\ now \in back /\ monotonic \in FromOn(from)
    <3>1. from \in Nat /\ from <= monotonic /\ monotonic - from < RateWindow - Lag
      BY <1>2, <1>12 DEF Recalls
    <3>2. now >= from - Lag /\ cutoff < from - Lag
      BY <1>1, <1>2, <3>1
    <3>. QED BY <1>2, <3>1, <3>2 DEF FromOn
  <2>2. \A m \in back : m \in Time /\ m > cutoff
    <3>1. \A m \in back : m \in Time /\ m \in Nat /\ m >= from - Lag
      BY <1>2 DEF FromOn
    <3>. QED BY <1>2, <2>1, <3>1
  <2>3. /\ HitsOf(c) \in [Time -> Nat] /\ HitsOf(c)' \in [Time -> Nat]
        /\ SumFunction(HitsOf(c)) <= Limit
        /\ admitted[c] \in [Time -> Nat] /\ cleared \in [Time -> Nat]
    <3>1. HitsOf(c)' \in [Time -> Nat]
      BY <1>3, <1>5, <1>7, NoHitsIs
    <3>. QED BY <1>2, <3>1, HitsOfTyped DEF ApiTypes
  <2>4. /\ started \in Nat /\ clears \in Nat /\ held \in Nat /\ heldNext \in Nat /\ held <= Limit
        /\ started <= Limit * clears + held
    <3>1. held <= SumFunction(HitsOf(c)) /\ SumFunction(HitsOf(c)) \in Nat
      BY <2>3, SumFromLeast, SumOfAll
    <3>2. started \in Nat /\ clears \in Nat /\ held \in Nat /\ heldNext \in Nat
      BY <2>3, SumFromNat
    <3>3. started <= Limit * clears + held
      BY <1>12 DEF ApiInv, AdmittedAreHeld
    <3>4. held <= Limit
      BY <1>2, <2>3, <3>1, <3>2
    <3>. QED BY <3>2, <3>3, <3>4
  <2>5. SumFrom(admitted'[c], from)
          = started + (IF c = client /\ SumFunction(recent) < Limit THEN 1 ELSE 0)
    <3>1. CASE c = client /\ SumFunction(recent) < Limit
      <4>1. /\ admitted'[c] \in [Time -> Nat] /\ admitted'[c][monotonic] = admitted[c][monotonic] + 1
            /\ \A m \in FromOn(from) \ {monotonic} : admitted'[c][m] = admitted[c][m]
        BY <1>1, <1>2, <3>1 DEF ApiTypes, FromOn
      <4>. QED BY <2>1, <2>3, <3>1, <4>1, SumFromOneMore
    <3>2. CASE ~(c = client /\ SumFunction(recent) < Limit)
      <4>1. admitted'[c] = admitted[c]
        BY <1>1, <1>2, <3>2 DEF ApiTypes
      <4>. QED BY <2>4, <3>2, <4>1
    <3>. QED BY <3>1, <3>2
  <2>6. SumFrom(cleared', from) = clears + (IF TableFull(cutoff) THEN 1 ELSE 0)
    <3>1. CASE TableFull(cutoff)
      <4>1. /\ cleared' \in [Time -> Nat] /\ cleared'[monotonic] = cleared[monotonic] + 1
            /\ \A m \in FromOn(from) \ {monotonic} : cleared'[m] = cleared[m]
        BY <1>1, <1>2, <2>3, <3>1 DEF FromOn
      <4>. QED BY <2>1, <2>3, <3>1, <4>1, SumFromOneMore
    <3>2. CASE ~TableFull(cutoff)
      BY <1>1, <2>4, <3>2
    <3>. QED BY <3>1, <3>2
  \* The recent hits and the one of this request.
  <2>7. c = client => heldNext = SumFrom(recent, from - Lag)
                                   + (IF SumFunction(recent) < Limit THEN 1 ELSE 0)
    <3>1. CASE c = client /\ SumFunction(recent) < Limit
      <4>1. /\ HitsOf(c)' = [recent EXCEPT ![now] = @ + 1]
            /\ HitsOf(c)'[now] = recent[now] + 1
            /\ \A m \in back \ {now} : HitsOf(c)'[m] = recent[m]
        BY <1>7, <3>1, <2>2 DEF own
      <4>2. heldNext = SumFrom(recent, from - Lag) + 1
        <5>. DEFINE g == HitsOf(c)'
        <5>1. /\ g \in [Time -> Nat] /\ g[now] = recent[now] + 1 /\ now \in FromOn(from - Lag)
              /\ \A m \in FromOn(from - Lag) \ {now} : g[m] = recent[m]
          BY <2>1, <2>3, <4>1
        <5>. HIDE DEF g
        <5>2. SumFrom(g, from - Lag) = SumFrom(recent, from - Lag) + 1
          BY <5>1, SumFromOneMore
        <5>. QED BY <5>2 DEF g
      <4>. QED BY <3>1, <4>2
    <3>2. CASE c = client /\ ~(SumFunction(recent) < Limit)
      <4>1. HitsOf(c)' = recent /\ SumFrom(recent, from - Lag) \in Nat
        BY <1>7, <3>2, SumFromNat DEF own
      <4>. QED BY <3>2, <4>1
    <3>. QED BY <3>1, <3>2
  <2>8. CASE TableFull(cutoff)
    \* All that was held is in the table that was cleared.
    <3>1. Limit * (clears + 1) = Limit * clears + Limit /\ Limit * clears \in Nat
      BY <1>2, <2>4
    <3>2. c = client => SumFrom(recent, from - Lag) \in Nat
      BY SumFromNat
    <3>3. SumFrom(cleared', from) = clears + 1
      BY <2>6, <2>8
    <3>4. started + (IF c = client /\ SumFunction(recent) < Limit THEN 1 ELSE 0)
            <= Limit * (clears + 1) + heldNext
      <4>1. CASE c = client /\ SumFunction(recent) < Limit
        <5>1. heldNext >= 1
          BY <2>4, <2>7, <3>2, <4>1
        <5>2. started <= Limit * clears + Limit
          BY <1>2, <2>4, <3>1
        <5>. QED BY <2>4, <3>1, <4>1, <5>1, <5>2, <1>2
      <4>2. CASE ~(c = client /\ SumFunction(recent) < Limit)
        <5>2. started <= Limit * clears + Limit
          BY <1>2, <2>4, <3>1
        <5>. QED BY <2>4, <3>1, <4>2, <5>2, <1>2
      <4>. QED BY <4>1, <4>2
    <3>. QED BY <2>5, <3>3, <3>4
  <2>9. CASE ~TableFull(cutoff)
    \* No hit that late goes with a client that is dropped, or with the hits that are not recent.
    <3>1. left = LiveClients(cutoff) /\ SumFrom(cleared', from) = clears
      BY <1>1, <2>4, <2>6, <2>9
    <3>2. c \notin left => \A m \in back : HitsOf(c)[m] = 0
      <4>. SUFFICES ASSUME c \notin left, NEW m \in back PROVE HitsOf(c)[m] = 0
        OBVIOUS
      <4>1. CASE c \in DOMAIN hits
        <5>1. ~(hits[c][m] > 0) /\ hits[c][m] \in Nat
          BY <1>3, <2>2, <3>1, <4>1 DEF LiveClients
        <5>. QED BY <4>1, <5>1 DEF HitsOf
      <4>2. CASE c \notin DOMAIN hits
        BY <2>2, <4>2 DEF HitsOf, NoHits
      <4>. QED BY <4>1, <4>2
    <3>3. ASSUME c # client PROVE heldNext = held
      <4>1. \A m \in back : HitsOf(c)'[m] = HitsOf(c)[m]
        <5>1. CASE c \in left
          BY <1>7, <3>3, <5>1 DEF HitsOf
        <5>2. CASE c \notin left
          BY <1>7, <2>2, <3>2, <3>3, <5>2 DEF NoHits
        <5>. QED BY <5>1, <5>2
      <4>. QED BY <2>3, <4>1, SumFromSame
    <3>4. ASSUME c = client PROVE SumFrom(recent, from - Lag) = held
      <4>1. \A m \in back : recent[m] = HitsOf(c)[m]
        <5>1. CASE c \in left
          BY <1>1, <2>2, <3>4, <5>1 DEF HitsOf, Recent
        <5>2. CASE c \notin left
          BY <1>1, <2>2, <3>2, <3>4, <5>2 DEF NoHits
        <5>. QED BY <5>1, <5>2
      <4>. QED BY <2>3, <4>1, SumFromSame
    <3>5. Limit * clears \in Nat
      BY <1>2, <2>4
    <3>6. CASE c = client /\ SumFunction(recent) < Limit
      BY <2>4, <2>5, <2>7, <3>1, <3>4, <3>5, <3>6
    <3>7. CASE ~(c = client /\ SumFunction(recent) < Limit)
      <4>1. heldNext = held
        BY <2>4, <2>7, <3>3, <3>4, <3>7
      <4>. QED BY <2>4, <2>5, <3>1, <3>5, <3>7, <4>1
    <3>. QED BY <3>6, <3>7
  <2>. QED BY <2>8, <2>9
<1>13. AdmittedAreHeld'
  BY <1>10, <1>12 DEF AdmittedAreHeld, SumFrom, FromOn
<1>. QED BY <1>8, <1>9, <1>11, <1>13 DEF ApiInv

LEMMA ApiInvariant == ApiSpec => []ApiInv
<1>1. ASSUME ApiInv, [ApiNext]_apiVars PROVE ApiInv'
  <2>1. CASE MonotonicTick
    BY <1>1, <2>1, TickKeeps
  <2>2. ASSUME NEW t \in Thread, RequestArrives(t) PROVE ApiInv'
    BY <1>1, <2>2, ArrivalKeeps
  <2>3. ASSUME NEW t \in Thread, CheckRequest(t) PROVE ApiInv'
    BY <1>1, <2>3, CheckKeeps
  <2>4. CASE UNCHANGED apiVars
    <3>1. UNCHANGED <<monotonic, hits, threads, requests, admitted, cleared>>
      BY <2>4 DEF apiVars
    <3>2. ApiTypes' /\ ReadLately' /\ Forgotten'
      BY <1>1, <3>1 DEF ApiInv, ApiTypes, ReadLately, Forgotten, Recalls
    <3>3. AdmittedAreHeld'
      <4>1. \A c : HitsOf(c)' = HitsOf(c)
        BY <3>1 DEF HitsOf
      <4>. QED BY <1>1, <3>1, <4>1 DEF ApiInv, AdmittedAreHeld, Recalls
    <3>. QED BY <3>2, <3>3 DEF ApiInv
  <2>. QED BY <1>1, <2>1, <2>2, <2>3, <2>4 DEF ApiNext
<1>. QED BY <1>1, ApiInitially, PTL DEF ApiSpec

(***************************************************************************)
(* However many threads wait for the lock, at most Lag each, and whatever  *)
(* client the table is cleared for, a client starts at most the limit of   *)
(* runs in a window less Lag, and once more for every time that the table  *)
(* was cleared in it (SlidingWindowRateLimiter.check).                     *)
(***************************************************************************)
THEOREM RunsAreLimited == ApiSpec => []ClientsWithinLimit
<1>1. ASSUME ApiInv PROVE ClientsWithinLimit
  <2>. SUFFICES ASSUME NEW c \in Client, NEW from \in 0 .. monotonic
                PROVE  Since(admitted[c], from) <= Limit * (1 + Since(cleared, from))
    BY DEF ClientsWithinLimit
  <2>. DEFINE first == IF Recalls(from) THEN from ELSE monotonic - (RateWindow - Lag) + 1
  <2>1. /\ ApiTypes /\ monotonic \in Time /\ monotonic \in Nat /\ from \in Nat /\ from \in Time
        /\ Lag \in Nat /\ RateWindow \in Nat /\ Lag < RateWindow /\ Limit \in Nat
        /\ \A m \in Time : m \in Nat
    BY <1>1, TimeFinite, ApiAssumption DEF ApiInv, ApiTypes, ApiAssumption, Time
  <2>2. /\ first \in Time /\ Recalls(first)
        /\ \A m \in Time : m >= from /\ Recalls(m) <=> m >= first /\ Recalls(m)
    <3>1. CASE Recalls(from)
      BY <2>1, <3>1
    <3>2. CASE ~Recalls(from)
      <4>1. monotonic - from >= RateWindow - Lag
        BY <2>1, <3>2 DEF Recalls
      <4>2. first \in Nat /\ first <= monotonic /\ first > from
        BY <2>1, <3>2, <4>1
      <4>3. first \in Time
        BY <2>1, <4>2, ApiAssumption DEF Time, ApiAssumption
      <4>4. Recalls(first)
        BY <2>1, <3>2, <4>2 DEF Recalls
      <4>5. \A m \in Time : Recalls(m) => m >= first
        BY <2>1, <3>2 DEF Recalls
      <4>6. \A m \in Time : m >= first => m >= from
        BY <2>1, <4>2
      <4>. QED BY <4>3, <4>4, <4>5, <4>6
    <3>. QED BY <3>1, <3>2
  <2>. HIDE DEF first
  <2>3. ASSUME NEW count \in [Time -> Nat], \A m \in Time : ~Recalls(m) => count[m] = 0
        PROVE  Since(count, from) = SumFrom(count, first) /\ SumFrom(count, first) \in Nat
    <3>. DEFINE Live == {m \in Time : m >= from /\ Recalls(m)}
    <3>1. /\ Live \subseteq from .. monotonic /\ Live \subseteq FromOn(first)
          /\ from .. monotonic \subseteq Time
          /\ IsFiniteSet(Live) /\ IsFiniteSet(from .. monotonic) /\ IsFiniteSet(FromOn(first))
      <4>1. Live \subseteq from .. monotonic
        <5>. SUFFICES ASSUME NEW m \in Time, m >= from, Recalls(m)
                      PROVE  m \in from .. monotonic
          OBVIOUS
        <5>. QED BY <2>1 DEF Recalls
      <4>2. Live \subseteq FromOn(first)
        BY <2>2 DEF FromOn
      <4>3. from .. monotonic \subseteq Time
        BY <2>1, ApiAssumption DEF Time, ApiAssumption
      <4>. QED BY <4>1, <4>2, <4>3, TimeFinite, FS_Subset
    <3>2. ASSUME NEW S, Live \subseteq S, S \subseteq Time, \A m \in S \ Live : count[m] = 0
          PROVE  SumFunctionOnSet(count, S) = SumFunctionOnSet(count, Live)
      <4>1. /\ IsFiniteSet(S \ Live) /\ IsFiniteSet(Live) /\ Live \cap (S \ Live) = {}
            /\ S = Live \cup (S \ Live)
        <5>1. S \ Live \subseteq Time
          BY <3>2
        <5>. QED BY <3>1, <3>2, <5>1, TimeFinite, FS_Subset
      <4>2. \A m \in Live \cup (S \ Live) : count[m] \in Int
        BY <3>1, <3>2
      <4>3. /\ SumFunctionOnSet(count, S \ Live) = 0
            /\ SumFunctionOnSet(count, Live) \in Int
        <5>. HIDE DEF Live
        <5>. QED BY <3>2, <4>1, <4>2, SumOfZeros, SumInt
      <4>4. SumFunctionOnSet(count, S) =
              SumFunctionOnSet(count, Live) + SumFunctionOnSet(count, S \ Live)
        <5>. DEFINE R == S \ Live
        <5>1. /\ IsFiniteSet(R) /\ IsFiniteSet(Live) /\ Live \cap R = {} /\ S = Live \cup R
              /\ \A m \in Live \cup R : count[m] \in Int
          BY <4>1, <4>2
        <5>. HIDE DEF Live, R
        <5>2. SumFunctionOnSet(count, S) = SumFunctionOnSet(count, Live) + SumFunctionOnSet(count, R)
          BY <5>1, SumUnion
        <5>. QED BY <5>2 DEF R
      <4>. QED BY <4>3, <4>4
    <3>3. \A m \in (from .. monotonic) \ Live : count[m] = 0
      BY <2>1, <2>3, <3>1
    <3>4. \A m \in FromOn(first) \ Live : count[m] = 0
      BY <2>2, <2>3 DEF FromOn
    <3>5. /\ SumFunctionOnSet(count, from .. monotonic) = SumFunctionOnSet(count, Live)
          /\ SumFunctionOnSet(count, FromOn(first)) = SumFunctionOnSet(count, Live)
      <4>. HIDE DEF Live
      <4>. QED BY <3>1, <3>2, <3>3, <3>4, TimeFinite
    <3>. QED BY <2>3, <3>5, SumFromNat DEF Since, SumFrom
  <2>4. /\ Since(admitted[c], from) = SumFrom(admitted[c], first)
        /\ Since(cleared, from) = SumFrom(cleared, first)
        /\ SumFrom(admitted[c], first) \in Nat /\ SumFrom(cleared, first) \in Nat
    <3>1. admitted[c] \in [Time -> Nat] /\ cleared \in [Time -> Nat]
      BY <2>1 DEF ApiTypes
    <3>2. \A m \in Time : ~Recalls(m) => cleared[m] = 0 /\ admitted[c][m] = 0
      BY <1>1 DEF ApiInv, Forgotten
    <3>. QED BY <2>3, <3>1, <3>2
  <2>5. /\ SumFrom(HitsOf(c), first - Lag) <= Limit /\ SumFrom(HitsOf(c), first - Lag) \in Nat
        /\ SumFrom(admitted[c], first)
             <= Limit * SumFrom(cleared, first) + SumFrom(HitsOf(c), first - Lag)
    <3>1. HitsOf(c) \in [Time -> Nat] /\ SumFunction(HitsOf(c)) <= Limit
      BY <2>1, HitsOfTyped
    <3>2. /\ SumFrom(HitsOf(c), first - Lag) <= SumFunction(HitsOf(c))
          /\ SumFunction(HitsOf(c)) \in Nat /\ SumFrom(HitsOf(c), first - Lag) \in Nat
      BY <3>1, SumFromLeast, SumOfAll, SumFromNat
    <3>3. SumFrom(HitsOf(c), first - Lag) <= Limit
      BY <2>1, <3>1, <3>2
    <3>. QED BY <1>1, <2>2, <3>2, <3>3 DEF ApiInv, AdmittedAreHeld
  <2>6. ASSUME NEW k \in Nat PROVE Limit * (1 + k) = Limit + Limit * k /\ Limit * k \in Nat
    BY <2>1
  <2>. QED BY <2>1, <2>4, <2>5, <2>6
<1>. QED BY <1>1, ApiInvariant, PTL
-----------------------------------------------------------------------------
(***************************************************************************)
(* Checkpointed evaluations.  What a crash costs: an item that was         *)
(* measured, is in no readable line and is not being measured will be      *)
(* measured again, and so will the one or two items whose records an open  *)
(* line still spoils.  A crash adds at most two of them.                   *)
(***************************************************************************)

HasRecord(i) == \E n \in ReadLines : lines[n][1].item = i
Measuring(i) == loop.at = "measured" /\ i = NextOf(loop.left)

\* The measurements repeated and those that are due to be.
Due ==
  [i \in Item |-> Again[i] + (IF measured[i] > 0 /\ ~HasRecord(i) /\ ~Measuring(i) THEN 1 ELSE 0)]

\* The records that the next append spoils: its own, and a readable one on the open line.
Spoils == IF ~open THEN 0 ELSE IF Readable(lines[Len(lines)]) THEN 2 ELSE 1

EvalTypes ==
  /\ lines \in Seq(Seq(Record)) /\ open \in BOOLEAN /\ known \in SUBSET Record
  /\ loop \in [at : {"down", "next", "measured", "done"}, left : SUBSET Item]
  /\ measured \in [Item -> Nat] /\ crashes \in Nat

LinesSound ==
  /\ open => lines # <<>>
  /\ \A n \in DOMAIN lines :
       /\ lines[n] # <<>>
       /\ \A k \in DOMAIN lines[n] : lines[n][k].measured <= measured[lines[n][k].item]

KnownSound ==
  /\ \A r \in known : r.full /\ r.measured <= measured[r.item]
  /\ \A r, q \in known : r.item = q.item => r = q

\* What the loop has passed, and what the file holds, is known.
LoopSound ==
  /\ loop.at = "measured" => loop.left # {}
  /\ loop.at = "done" => loop.left = {}
  /\ loop.at # "down" => \A i \in Item : i \notin loop.left \/ HasRecord(i) => Done(i)

ResultsSound ==
  ResultsRead =>
    /\ DOMAIN PathStats = Variants
    /\ \A v \in Variants : /\ PathStats[v][1] <= PathStats[v][2]
                           /\ PathStats[v][2] = Cardinality(Tasks) * Repeats

CostsTwo == SumFunctionOnSet(Due, Item) + Spoils <= 2 * crashes

EvalInv == EvalTypes /\ LinesSound /\ KnownSound /\ LoopSound /\ ResultsSound /\ CostsTwo

-----------------------------------------------------------------------------
\* Work items

LEMMA ItemsAre ==
  /\ IsFiniteSet(Item)
  /\ \A i \in Item : i[1] \in Tasks /\ i[2] \in Variants /\ i[3] \in 1 .. Repeats
  /\ \A i \in Item : i[1] \in Nat /\ i[2] \in Nat /\ i[3] \in Nat
  /\ \A i, j \in Item : i[1] = j[1] /\ i[2] = j[2] /\ i[3] = j[3] => i = j
<1>1. /\ \A i \in Item : i[1] \in Tasks /\ i[2] \in Variants /\ i[3] \in 1 .. Repeats
      /\ \A i, j \in Item : i[1] = j[1] /\ i[2] = j[2] /\ i[3] = j[3] => i = j
  BY DEF Item
<1>2. IsFiniteSet(Item)
  <2>. DEFINE T == (Tasks \X Variants) \X (1 .. Repeats)
              f == [i \in Item |-> <<<<i[1], i[2]>>, i[3]>>]
  <2>1. IsFiniteSet(Tasks) /\ IsFiniteSet(Variants) /\ IsFiniteSet(1 .. Repeats)
    BY EvaluationAssumption, FS_Interval DEF EvaluationAssumption
  <2>2. IsFiniteSet(T)
    BY <2>1, FS_Product
  <2>3. f \in [Item -> T]
    BY <1>1
  <2>4. \A i, j \in Item : f[i] = f[j] => i = j
    BY <1>1
  <2>. HIDE DEF T, f
  <2>5. f \in Injection(Item, T)
    BY <2>3, <2>4 DEF Injection, IsInjective
  <2>. QED BY <2>2, <2>5, FS_Injection
<1>3. \A i \in Item : i[1] \in Nat /\ i[2] \in Nat /\ i[3] \in Nat
  <2>. SUFFICES ASSUME NEW i \in Item PROVE i[1] \in Nat /\ i[2] \in Nat /\ i[3] \in Nat
    OBVIOUS
  <2>1. i[1] \in Tasks /\ i[2] \in Variants /\ i[3] \in 1 .. Repeats
    BY <1>1
  <2>2. Tasks \subseteq Nat /\ Variants \subseteq Nat /\ Repeats \in Nat
    BY EvaluationAssumption DEF EvaluationAssumption
  <2>3. \A n \in 1 .. Repeats : n \in Nat
    BY <2>2
  <2>. QED BY ONLY <2>1, <2>2, <2>3
<1>. QED BY <1>1, <1>2, <1>3

\* There is a next item as long as any is left.
LEMMA NextOfIs ==
  ASSUME NEW items \in SUBSET Item, items # {}
  PROVE  NextOf(items) \in items
<1>. DEFINE R == {i[3] : i \in items}
<1>1. R \in SUBSET Nat /\ R # {}
  BY ItemsAre
<1>2. PICK a \in items : \A i \in items : a[3] <= i[3]
  <2>1. Min(R) \in R /\ \A n \in R : Min(R) <= n
    BY <1>1, MinOfNats
  <2>. QED BY <2>1
<1>. DEFINE T == {i[1] : i \in {j \in items : j[3] = a[3]}}
<1>3. T \in SUBSET Nat /\ T # {}
  BY <1>2, ItemsAre
<1>4. PICK b \in items : b[3] = a[3] /\ \A i \in items : i[3] = a[3] => b[1] <= i[1]
  <2>1. Min(T) \in T /\ \A n \in T : Min(T) <= n
    BY <1>3, MinOfNats
  <2>. QED BY <2>1
<1>. DEFINE V == {i[2] : i \in {j \in items : j[3] = a[3] /\ j[1] = b[1]}}
<1>5. V \in SUBSET Nat /\ V # {}
  BY <1>4, ItemsAre
<1>6. PICK c \in items : /\ c[3] = a[3] /\ c[1] = b[1]
                         /\ \A i \in items : i[3] = a[3] /\ i[1] = b[1] => c[2] <= i[2]
  <2>1. Min(V) \in V /\ \A n \in V : Min(V) <= n
    BY <1>5, MinOfNats
  <2>. QED BY <2>1
<1>. HIDE DEF R, T, V
<1>7. \A j \in items : ~Earlier(j, c)
  <2>. SUFFICES ASSUME NEW j \in items, Earlier(j, c) PROVE FALSE
    OBVIOUS
  <2>1. /\ a[3] <= j[3] /\ (j[3] = a[3] => b[1] <= j[1])
        /\ (j[3] = a[3] /\ j[1] = b[1] => c[2] <= j[2])
    BY <1>2, <1>4, <1>6
  <2>2. /\ j[1] \in Nat /\ j[2] \in Nat /\ j[3] \in Nat /\ c[1] \in Nat /\ c[2] \in Nat /\ c[3] \in Nat
    BY ItemsAre
  <2>. QED BY <1>6, <2>1, <2>2 DEF Earlier
<1>. QED BY <1>7 DEF NextOf

\* A variant has a work item for every task and repeat.
LEMMA ItemsOfVariant ==
  ASSUME NEW v \in Variants
  PROVE  LET mine == {i \in Item : i[2] = v}
         IN  IsFiniteSet(mine) /\ Cardinality(mine) = Cardinality(Tasks) * Repeats
<1>. DEFINE mine == {i \in Item : i[2] = v}
            T == Tasks \X (1 .. Repeats)
            f == [i \in mine |-> <<i[1], i[3]>>]
<1>1. Repeats \in Nat /\ IsFiniteSet(Tasks) /\ IsFiniteSet(1 .. Repeats) /\ Cardinality(1 .. Repeats) = Repeats
  BY EvaluationAssumption, FS_Interval DEF EvaluationAssumption
<1>2. IsFiniteSet(T) /\ Cardinality(T) = Cardinality(Tasks) * Repeats
  <2>1. Cardinality(T) = Cardinality(Tasks) * Cardinality(1 .. Repeats) /\ IsFiniteSet(T)
    BY <1>1, FS_Product
  <2>. QED BY <1>1, <2>1
<1>3. f \in [mine -> T] /\ \A i, j \in mine : f[i] = f[j] => i = j
  BY ItemsAre
<1>4. \A t \in T : \E i \in mine : f[i] = t
  <2>. SUFFICES ASSUME NEW t \in T PROVE \E i \in mine : f[i] = t
    OBVIOUS
  <2>1. t[1] \in Tasks /\ t[2] \in 1 .. Repeats /\ t = <<t[1], t[2]>>
    OBVIOUS
  <2>2. <<t[1], v, t[2]>> \in mine
    BY <2>1 DEF Item
  <2>. QED BY <2>1, <2>2
<1>. HIDE DEF mine, T, f
<1>5. f \in Injection(mine, T) /\ f \in Surjection(mine, T)
  BY <1>3, <1>4 DEF Injection, IsInjective, Surjection
<1>6. IsFiniteSet(mine) /\ Cardinality(mine) = Cardinality(T)
  BY <1>2, <1>5, FS_Injection
<1>. QED BY <1>2, <1>6 DEF mine

LEMMA MoreForOne ==
  ASSUME NEW f \in [Item -> Nat], NEW g \in [Item -> Nat], NEW x \in Item,
         \A i \in Item : g[i] <= f[i] + (IF i = x THEN 1 ELSE 0)
  PROVE  SumFunctionOnSet(g, Item) <= SumFunctionOnSet(f, Item) + 1
<1>. DEFINE h == [f EXCEPT ![x] = @ + 1]
<1>1. h \in [Item -> Nat] /\ h[x] = f[x] + 1 /\ \A i \in Item \ {x} : h[i] = f[i]
  OBVIOUS
<1>. HIDE DEF h
<1>2. IsFiniteSet(Item)
  BY ItemsAre
<1>3. \A i \in Item : f[i] \in Int /\ h[i] \in Int
  BY <1>1
<1>4. \A i \in Item : g[i] \in Int /\ h[i] \in Int /\ g[i] <= h[i]
  <2>. SUFFICES ASSUME NEW i \in Item PROVE g[i] <= h[i]
    BY <1>1
  <2>1. CASE i = x
    BY <1>1, <2>1
  <2>2. CASE i # x
    BY <1>1, <2>2
  <2>. QED BY <2>1, <2>2
<1>5. SumFunctionOnSet(h, Item) = SumFunctionOnSet(f, Item) - f[x] + h[x]
  BY <1>1, <1>2, <1>3, SumChange
<1>6. SumFunctionOnSet(g, Item) <= SumFunctionOnSet(h, Item)
  BY ONLY <1>2, <1>4, SumMonotone
<1>7. /\ SumFunctionOnSet(f, Item) \in Int /\ SumFunctionOnSet(g, Item) \in Int
      /\ SumFunctionOnSet(h, Item) \in Int /\ f[x] \in Int
  BY <1>2, <1>3, <1>4, SumInt
<1>. QED BY <1>1, <1>5, <1>6, <1>7

LEMMA MoreForTwo ==
  ASSUME NEW f \in [Item -> Nat], NEW g \in [Item -> Nat], NEW x \in Item, NEW y \in Item,
         \A i \in Item : g[i] <= f[i] + (IF i = x THEN 1 ELSE 0) + (IF i = y THEN 1 ELSE 0)
  PROVE  SumFunctionOnSet(g, Item) <= SumFunctionOnSet(f, Item) + 2
<1>. DEFINE h == [f EXCEPT ![x] = @ + 1]
<1>1. h \in [Item -> Nat] /\ \A i \in Item : h[i] = f[i] + (IF i = x THEN 1 ELSE 0)
  OBVIOUS
<1>. HIDE DEF h
<1>2. \A i \in Item : g[i] <= h[i] + (IF i = y THEN 1 ELSE 0)
  BY <1>1
<1>3. \A i \in Item : h[i] <= f[i] + (IF i = x THEN 1 ELSE 0)
  BY <1>1
<1>4. SumFunctionOnSet(g, Item) <= SumFunctionOnSet(h, Item) + 1
  BY <1>1, <1>2, MoreForOne
<1>5. SumFunctionOnSet(h, Item) <= SumFunctionOnSet(f, Item) + 1
  BY <1>1, <1>3, MoreForOne
<1>6. /\ SumFunctionOnSet(f, Item) \in Int /\ SumFunctionOnSet(g, Item) \in Int
      /\ SumFunctionOnSet(h, Item) \in Int
  <2>1. /\ \A i \in Item : f[i] \in Int
        /\ \A i \in Item : g[i] \in Int
        /\ \A i \in Item : h[i] \in Int
    BY <1>1
  <2>. QED BY <2>1, ItemsAre, SumInt
<1>. QED BY <1>4, <1>5, <1>6

LEMMA NoMore ==
  ASSUME NEW f \in [Item -> Nat], NEW g \in [Item -> Nat], \A i \in Item : g[i] <= f[i]
  PROVE  SumFunctionOnSet(g, Item) <= SumFunctionOnSet(f, Item)
<1>1. \A i \in Item : g[i] \in Int /\ f[i] \in Int /\ g[i] <= f[i]
  OBVIOUS
<1>. QED BY <1>1, ItemsAre, SumMonotone

-----------------------------------------------------------------------------
\* The file

LEMMA DueTyped ==
  ASSUME EvalTypes
  PROVE  /\ Due \in [Item -> Nat] /\ Again \in [Item -> Nat]
         /\ SumFunctionOnSet(Due, Item) \in Nat /\ Spoils \in 0 .. 2
<1>1. Again \in [Item -> Nat]
  BY DEF EvalTypes, Again
<1>2. Due \in [Item -> Nat]
  <2>1. \A i \in Item : Again[i] \in Nat
    BY <1>1
  <2>. QED BY <2>1 DEF Due
<1>3. SumFunctionOnSet(Due, Item) \in Nat
  <2>1. \A i \in Item : Due[i] \in Nat
    BY <1>2
  <2>. QED BY <2>1, ItemsAre, SumNat
<1>. QED BY <1>1, <1>2, <1>3 DEF Spoils

LEMMA LinesTyped ==
  ASSUME EvalTypes
  PROVE  /\ Len(lines) \in Nat /\ DOMAIN lines = 1 .. Len(lines)
         /\ \A n \in DOMAIN lines :
              /\ lines[n] \in Seq(Record) /\ Len(lines[n]) \in Nat
              /\ DOMAIN lines[n] = 1 .. Len(lines[n])
              /\ \A k \in DOMAIN lines[n] : lines[n][k] \in Record /\ lines[n][k].item \in Item
<1>1. lines \in Seq(Seq(Record))
  BY DEF EvalTypes
<1>2. Len(lines) \in Nat /\ DOMAIN lines = 1 .. Len(lines)
  BY <1>1
<1>3. ASSUME NEW n \in DOMAIN lines
      PROVE  /\ lines[n] \in Seq(Record) /\ Len(lines[n]) \in Nat
             /\ DOMAIN lines[n] = 1 .. Len(lines[n])
             /\ \A k \in DOMAIN lines[n] : lines[n][k] \in Record
  <2>1. lines[n] \in Seq(Record)
    BY <1>1, <1>2
  <2>. QED BY <2>1
<1>4. \A r \in Record : r.item \in Item
  BY DEF Record
<1>. QED BY <1>2, <1>3, <1>4

\* A record is appended to a line of its own, or to the open line, which is not readable then.
LEMMA AppendedIs ==
  ASSUME EvalInv, NEW record \in Record, record.measured <= measured[record.item],
         lines' = Appended(record), measured' = measured
  PROVE  /\ lines' \in Seq(Seq(Record)) /\ lines' # << >>
         /\ \A n \in DOMAIN lines' :
              /\ lines'[n] # <<>>
              /\ \A k \in DOMAIN lines'[n] : lines'[n][k].measured <= measured[lines'[n][k].item]
         /\ ~open => /\ \A i \in Item : HasRecord(i) => HasRecord(i)'
                     /\ lines'[Len(lines')] = <<record>>
                     /\ record.full => HasRecord(record.item)'
         /\ open => /\ ~Readable(lines'[Len(lines')])
                    /\ \/ Readable(lines[Len(lines)])
                       \/ \A i \in Item : HasRecord(i) => HasRecord(i)'
                    /\ lines[Len(lines)][1].item \in Item
                    /\ \A i \in Item \ {lines[Len(lines)][1].item} : HasRecord(i) => HasRecord(i)'
<1>. USE DEF EvalInv
<1>1. EvalTypes /\ LinesSound
  OBVIOUS
<1>2. CASE ~open
  <2>. DEFINE n == Len(lines)
  <2>1. /\ lines' = Append(lines, <<record>>) /\ <<record>> \in Seq(Record)
    BY <1>2 DEF Appended
  <2>2. /\ lines' \in Seq(Seq(Record)) /\ Len(lines') = n + 1 /\ lines'[n + 1] = <<record>>
        /\ \A k \in 1 .. n : lines'[k] = lines[k] /\ DOMAIN lines' = 1 .. n + 1
    BY <1>1, <2>1 DEF EvalTypes
  <2>3. n \in Nat /\ DOMAIN lines = 1 .. n /\ DOMAIN lines' = 1 .. n + 1
    BY <1>1, <2>2, LinesTyped
  <2>4. ASSUME NEW k \in DOMAIN lines'
        PROVE  /\ lines'[k] # <<>>
               /\ \A j \in DOMAIN lines'[k] : lines'[k][j].measured <= measured[lines'[k][j].item]
    <3>1. CASE k \in 1 .. n
      BY <1>1, <2>2, <2>3, <3>1 DEF LinesSound
    <3>2. CASE k = n + 1
      <4>1. lines'[k] = <<record>>
        BY <2>2, <3>2
      <4>2. <<record>> # << >> /\ \A j \in DOMAIN <<record>> : <<record>>[j] = record
        OBVIOUS
      <4>. QED BY <4>1, <4>2
    <3>. QED BY <2>3, <3>1, <3>2
  <2>5. ASSUME NEW i \in Item, HasRecord(i) PROVE HasRecord(i)'
    <3>1. PICK k \in 1 .. n : Readable(lines[k]) /\ lines[k][1].item = i
      BY <2>3, <2>5 DEF HasRecord, ReadLines
    <3>2. k \in DOMAIN lines' /\ lines'[k] = lines[k]
      BY <2>2, <2>3
    <3>. QED BY <3>1, <3>2 DEF HasRecord, ReadLines, Readable
  <2>6. ASSUME record.full PROVE HasRecord(record.item)'
    <3>1. n + 1 \in DOMAIN lines' /\ Readable(lines'[n + 1]) /\ lines'[n + 1][1] = record
      BY <2>2, <2>3, <2>6 DEF Readable
    <3>. QED BY <3>1 DEF HasRecord, ReadLines, Readable
  <2>7. lines' # << >> /\ lines'[Len(lines')] = <<record>>
    BY <2>2, <2>3
  <2>. QED BY <1>2, <2>2, <2>4, <2>5, <2>6, <2>7
<1>3. CASE open
  <2>1. PICK n \in Nat \ {0} : n = Len(lines) /\ n \in DOMAIN lines /\ DOMAIN lines = 1 .. n
    BY <1>1, <1>3, LinesTyped DEF LinesSound, EvalTypes
  <2>2. /\ lines[n] \in Seq(Record) /\ Len(lines[n]) \in Nat \ {0}
        /\ lines[n][1].item \in Item
    <3>1. lines[n] # << >>
      BY <1>1, <2>1 DEF LinesSound
    <3>2. lines[n] \in Seq(Record)
      BY <1>1, <2>1, LinesTyped
    <3>3. Len(lines[n]) \in Nat \ {0} /\ 1 \in DOMAIN lines[n]
      BY <3>1, <3>2
    <3>. QED BY <1>1, <2>1, <3>2, <3>3, LinesTyped
  <2>. DEFINE last == Append(lines[n], record)
  <2>3. /\ lines' = [lines EXCEPT ![n] = last]
    BY <1>3, <2>1 DEF Appended
  <2>4. /\ last \in Seq(Record) /\ Len(last) = Len(lines[n]) + 1 /\ DOMAIN last = 1 .. Len(lines[n]) + 1
        /\ last[Len(lines[n]) + 1] = record /\ \A k \in DOMAIN lines[n] : last[k] = lines[n][k]
        /\ DOMAIN lines[n] = 1 .. Len(lines[n]) /\ last # << >>
    BY <2>2
  <2>. HIDE DEF last
  <2>5. /\ lines' \in Seq(Seq(Record)) /\ Len(lines') = n /\ DOMAIN lines' = 1 .. n /\ lines'[n] = last
        /\ \A k \in 1 .. n : k # n => lines'[k] = lines[k]
    BY <1>1, <2>1, <2>3, <2>4 DEF EvalTypes
  <2>6. ~Readable(last)
    BY <2>2, <2>4 DEF Readable
  <2>7. ASSUME NEW k \in DOMAIN lines'
        PROVE  /\ lines'[k] # <<>>
               /\ \A j \in DOMAIN lines'[k] : lines'[k][j].measured <= measured[lines'[k][j].item]
    <3>1. CASE k # n
      BY <1>1, <2>1, <2>5, <3>1 DEF LinesSound
    <3>2. CASE k = n
      <4>1. \A j \in DOMAIN lines[n] : lines[n][j].measured <= measured[lines[n][j].item]
        BY <1>1, <2>1 DEF LinesSound
      <4>2. \A j \in DOMAIN last : j \in DOMAIN lines[n] \/ j = Len(lines[n]) + 1
        BY <2>2, <2>4
      <4>. QED BY <2>4, <2>5, <3>2, <4>1, <4>2
    <3>. QED BY <3>1, <3>2
  <2>8. ASSUME NEW i \in Item, HasRecord(i), Readable(lines[n]) => i # lines[n][1].item
        PROVE  HasRecord(i)'
    <3>1. PICK k \in 1 .. n : Readable(lines[k]) /\ lines[k][1].item = i
      BY <2>1, <2>8 DEF HasRecord, ReadLines
    <3>2. k # n /\ k \in DOMAIN lines' /\ lines'[k] = lines[k]
      BY <2>5, <2>8, <3>1
    <3>. QED BY <3>1, <3>2 DEF HasRecord, ReadLines, Readable
  <2>9. lines' # << >>
    BY <2>1, <2>5
  <2>. QED BY <1>3, <2>1, <2>2, <2>5, <2>6, <2>7, <2>8, <2>9
<1>. QED BY <1>2, <1>3

LEMMA AppendCosts ==
  ASSUME EvalInv, loop.at = "measured", NEW record \in Record,
         record.item = NextOf(loop.left), record.measured <= measured[record.item],
         lines' = Appended(record), measured' = measured, loop'.at # "measured",
         open' = TRUE \/ (open' = FALSE /\ record.full), EvalTypes'
  PROVE  SumFunctionOnSet(Due', Item) + Spoils'
           <= SumFunctionOnSet(Due, Item) + Spoils + (IF open' THEN 2 ELSE 0)
<1>. DEFINE new == record.item
            old == lines[Len(lines)][1].item
<1>1. EvalTypes /\ new \in Item
  BY DEF EvalInv, Record
<1>2. /\ Due \in [Item -> Nat] /\ Due' \in [Item -> Nat] /\ Spoils \in 0 .. 2 /\ Spoils' \in 0 .. 2
      /\ SumFunctionOnSet(Due, Item) \in Nat /\ SumFunctionOnSet(Due', Item) \in Nat
  <2>1. Due \in [Item -> Nat] /\ Spoils \in 0 .. 2
    BY <1>1, DueTyped
  <2>2. Due' \in [Item -> Nat] /\ Spoils' \in 0 .. 2
    <3>1. Again' \in [Item -> Nat]
      BY DEF EvalTypes, Again
    <3>2. \A i \in Item : Again'[i] \in Nat
      BY <3>1
    <3>. QED BY <3>2 DEF Due, Spoils
  <2>3. \A i \in Item : Due[i] \in Nat /\ Due'[i] \in Nat
    BY <1>1, <2>1, <2>2
  <2>4. SumFunctionOnSet(Due, Item) \in Nat /\ SumFunctionOnSet(Due', Item) \in Nat
    BY <2>3, ItemsAre, SumNat
  <2>. QED BY <1>1, <2>1, <2>2, <2>4
<1>3. ASSUME NEW i \in Item, HasRecord(i) => HasRecord(i)', i # new
      PROVE  Due'[i] <= Due[i]
  <2>1. Again' = Again /\ Again[i] \in Nat
    BY <1>1, DueTyped DEF Again
  <2>2. ~Measuring(i)
    BY <1>3 DEF Measuring
  <2>. QED BY <1>3, <2>1, <2>2 DEF Due
<1>4. ASSUME NEW i \in Item
      PROVE  Due'[i] <= Due[i] + 1
  <2>1. Again' = Again /\ Again[i] \in Nat
    BY <1>1, DueTyped DEF Again
  <2>. QED BY <2>1 DEF Due
<1>5. ASSUME HasRecord(new)' PROVE Due'[new] <= Due[new]
  <2>1. Again' = Again /\ Again[new] \in Nat
    BY <1>1, DueTyped DEF Again
  <2>. QED BY <1>1, <1>5, <2>1 DEF Due
<1>. HIDE DEF new, old
<1>6. CASE ~open
  <2>1. /\ \A i \in Item : HasRecord(i) => HasRecord(i)'
        /\ lines'[Len(lines')] = <<record>>
        /\ record.full => HasRecord(record.item)'
    BY <1>6, AppendedIs
  <2>2. Spoils = 0 /\ Spoils' = IF ~open' THEN 0 ELSE IF record.full THEN 2 ELSE 1
    BY <1>6, <2>1 DEF Spoils, Readable
  <2>3. CASE record.full
    <3>1. \A i \in Item : Due'[i] <= Due[i]
      BY <1>3, <1>5, <2>1, <2>3 DEF new
    <3>2. SumFunctionOnSet(Due', Item) <= SumFunctionOnSet(Due, Item)
      BY <1>2, <3>1, NoMore
    <3>. QED BY <1>2, <2>2, <2>3, <3>2
  <2>4. CASE ~record.full
    <3>1. \A i \in Item : Due'[i] <= Due[i] + (IF i = new THEN 1 ELSE 0)
      <4>1. \A i \in Item : Due'[i] \in Nat /\ Due[i] \in Nat
        BY <1>2
      <4>. QED BY <1>3, <1>4, <2>1, <4>1
    <3>2. SumFunctionOnSet(Due', Item) <= SumFunctionOnSet(Due, Item) + 1
      BY <1>1, <1>2, <3>1, MoreForOne
    <3>. QED BY <1>2, <2>2, <2>4, <3>2
  <2>. QED BY <2>3, <2>4
<1>7. CASE open
  <2>1. /\ ~Readable(lines'[Len(lines')])
        /\ Readable(lines[Len(lines)]) \/ \A i \in Item : HasRecord(i) => HasRecord(i)'
        /\ old \in Item
        /\ \A i \in Item \ {old} : HasRecord(i) => HasRecord(i)'
    BY <1>7, AppendedIs DEF old
  <2>2. /\ Spoils = IF Readable(lines[Len(lines)]) THEN 2 ELSE 1
        /\ Spoils' = IF open' THEN 1 ELSE 0
    <3>1. Readable(lines[Len(lines)])' <=> Readable(lines'[Len(lines')])
      BY DEF Readable
    <3>. QED BY <1>7, <2>1, <3>1 DEF Spoils
  <2>3. CASE Readable(lines[Len(lines)])
    <3>1. \A i \in Item : Due'[i] <= Due[i] + (IF i = new THEN 1 ELSE 0) + (IF i = old THEN 1 ELSE 0)
      <4>1. \A i \in Item : Due'[i] \in Nat /\ Due[i] \in Nat
        BY <1>2
      <4>. QED BY <1>3, <1>4, <2>1, <4>1
    <3>2. SumFunctionOnSet(Due', Item) <= SumFunctionOnSet(Due, Item) + 2
      BY <1>1, <1>2, <2>1, <3>1, MoreForTwo
    <3>. QED BY <1>2, <2>2, <2>3, <3>2
  <2>4. CASE ~Readable(lines[Len(lines)])
    <3>1. \A i \in Item : Due'[i] <= Due[i] + (IF i = new THEN 1 ELSE 0)
      <4>1. \A i \in Item : Due'[i] \in Nat /\ Due[i] \in Nat
        BY <1>2
      <4>. QED BY <1>3, <1>4, <2>1, <2>4, <4>1
    <3>2. SumFunctionOnSet(Due', Item) <= SumFunctionOnSet(Due, Item) + 1
      BY <1>1, <1>2, <3>1, MoreForOne
    <3>. QED BY <1>2, <2>2, <2>4, <3>2
  <2>. QED BY <2>3, <2>4
<1>. QED BY <1>6, <1>7

-----------------------------------------------------------------------------
\* The loop

\* Nothing that is read of the state changes but where the loop is.
LEMMA DueSame ==
  ASSUME EvalInv, EvalTypes', UNCHANGED <<lines, open>>, crashes' >= crashes,
         \A i \in Item : Due'[i] <= Due[i]
  PROVE  CostsTwo'
<1>1. /\ Due \in [Item -> Nat] /\ SumFunctionOnSet(Due, Item) \in Nat /\ Spoils \in 0 .. 2
      /\ crashes \in Nat /\ crashes' \in Nat
  BY DueTyped DEF EvalInv, EvalTypes
<1>2. Due' \in [Item -> Nat]
  <2>1. Again' \in [Item -> Nat]
    BY DEF EvalTypes, Again
  <2>2. \A i \in Item : Again'[i] \in Nat
    BY <2>1
  <2>. QED BY <2>2 DEF Due
<1>3. SumFunctionOnSet(Due', Item) <= SumFunctionOnSet(Due, Item)
  BY <1>1, <1>2, NoMore
<1>4. SumFunctionOnSet(Due', Item) \in Nat
  <2>1. \A i \in Item : Due'[i] \in Nat
    BY <1>2
  <2>. QED BY <2>1, ItemsAre, SumNat
<1>5. Spoils' = Spoils
  BY DEF Spoils, Readable
<1>6. SumFunctionOnSet(Due, Item) + Spoils <= 2 * crashes
  BY DEF EvalInv, CostsTwo
<1>7. SumFunctionOnSet(Due', Item) + Spoils' <= 2 * crashes'
  BY <1>1, <1>3, <1>4, <1>5, <1>6
<1>. QED BY <1>7 DEF CostsTwo

LEMMA EvalInitially == EvalInit => EvalInv
<1>. SUFFICES ASSUME EvalInit PROVE EvalInv
  OBVIOUS
<1>1. EvalTypes
  <2>1. lines \in Seq(Seq(Record)) /\ open \in BOOLEAN /\ known \in SUBSET Record /\ crashes \in Nat
    <3>1. lines = << >> /\ open = FALSE /\ known = {} /\ crashes = 0
      BY DEF EvalInit
    <3>2. << >> \in Seq(Seq(Record)) /\ {} \in SUBSET Record
      OBVIOUS
    <3>. QED BY <3>1, <3>2
  <2>2. /\ loop \in [at : {"down", "next", "measured", "done"}, left : SUBSET Item]
        /\ measured \in [Item -> Nat]
    BY DEF EvalInit
  <2>. QED BY <2>1, <2>2 DEF EvalTypes
<1>2. LinesSound /\ KnownSound /\ LoopSound
  BY DEF EvalInit, LinesSound, KnownSound, LoopSound
<1>3. ResultsSound
  BY DEF EvalInit, ResultsSound, ResultsRead, NoResults
<1>4. CostsTwo
  <2>1. \A i \in Item : Due[i] = 0
    BY DEF EvalInit, Due, Again
  <2>2. SumFunctionOnSet(Due, Item) = 0
    BY <2>1, ItemsAre, SumOfZeros
  <2>3. Spoils = 0 /\ crashes = 0
    BY DEF EvalInit, Spoils
  <2>. QED BY <2>2, <2>3 DEF CostsTwo
<1>. QED BY <1>1, <1>2, <1>3, <1>4 DEF EvalInv

\* What can be read of the file is a record of every item that is stored in it, its last one.
LEMMA LoadedIs ==
  ASSUME EvalInv
  PROVE  /\ LoadedRecords \in SUBSET Record
         /\ \A r \in LoadedRecords : r.full /\ r.measured <= measured[r.item]
         /\ \A r, q \in LoadedRecords : r.item = q.item => r = q
         /\ \A i \in Item : HasRecord(i) => \E r \in LoadedRecords : r.item = i
<1>1. EvalTypes /\ LinesSound /\ ReadLines \subseteq DOMAIN lines
  BY DEF EvalInv, ReadLines
<1>2. \A n \in ReadLines : /\ lines[n][1] \in Record /\ lines[n][1].full
                           /\ lines[n][1].measured <= measured[lines[n][1].item]
  <2>. SUFFICES ASSUME NEW n \in ReadLines
                PROVE  /\ lines[n][1] \in Record /\ lines[n][1].full
                       /\ lines[n][1].measured <= measured[lines[n][1].item]
    OBVIOUS
  <2>1. n \in DOMAIN lines /\ Len(lines[n]) = 1 /\ lines[n][1].full
    BY DEF ReadLines, Readable
  <2>2. 1 \in DOMAIN lines[n]
    BY <1>1, <2>1, LinesTyped
  <2>. QED BY <1>1, <2>1, <2>2, LinesTyped DEF LinesSound
<1>3. ASSUME NEW r \in LoadedRecords
      PROVE  \E n \in ReadLines :
               /\ r = lines[n][1]
               /\ \A k \in ReadLines : lines[k][1].item = lines[n][1].item => k <= n
  BY DEF LoadedRecords, ItemKey
<1>4. ASSUME NEW r \in LoadedRecords, NEW q \in LoadedRecords, r.item = q.item PROVE r = q
  <2>1. PICK n \in ReadLines :
          /\ r = lines[n][1]
          /\ \A k \in ReadLines : lines[k][1].item = lines[n][1].item => k <= n
    BY <1>3
  <2>2. PICK m \in ReadLines :
          /\ q = lines[m][1]
          /\ \A k \in ReadLines : lines[k][1].item = lines[m][1].item => k <= m
    BY <1>3
  <2>3. n <= m /\ m <= n /\ n \in Nat /\ m \in Nat
    BY <1>1, <1>4, <2>1, <2>2, LinesTyped
  <2>. QED BY <2>1, <2>2, <2>3
<1>5. ASSUME NEW i \in Item, HasRecord(i) PROVE \E r \in LoadedRecords : r.item = i
  <2>. DEFINE S == {n \in ReadLines : lines[n][1].item = i}
              T == {Len(lines) - n : n \in S}
  <2>1. S # {} /\ \A n \in S : n \in 1 .. Len(lines) /\ Len(lines) \in Nat
    BY <1>1, <1>5, LinesTyped DEF HasRecord
  <2>2. T \in SUBSET Nat /\ T # {}
    BY <2>1
  <2>3. PICK m \in S : \A n \in S : Len(lines) - m <= Len(lines) - n
    <3>1. Min(T) \in T /\ \A n \in T : Min(T) <= n
      BY <2>2, MinOfNats
    <3>. QED BY <3>1
  <2>4. \A k \in ReadLines : lines[k][1].item = lines[m][1].item => k <= m
    BY <2>1, <2>3
  <2>5. lines[m][1] \in LoadedRecords
    BY <2>4 DEF LoadedRecords, ItemKey
  <2>. QED BY <2>5
<1>6. LoadedRecords \in SUBSET Record /\ \A r \in LoadedRecords : r.full /\ r.measured <= measured[r.item]
  BY <1>2, <1>3
<1>. QED BY <1>4, <1>5, <1>6

LEMMA StartKeeps == ASSUME EvalInv, StartEvaluation PROVE EvalInv'
<1>1. /\ UNCHANGED <<lines, open, results, measured, crashes>> /\ known' = LoadedRecords
      /\ loop' = [at |-> "next", left |-> Item] /\ loop.at # "measured"
  BY DEF StartEvaluation
<1>2. EvalTypes'
  BY <1>1, LoadedIs DEF EvalInv, EvalTypes
<1>3. LinesSound'
  BY <1>1 DEF EvalInv, LinesSound
<1>4. KnownSound'
  BY <1>1, LoadedIs DEF KnownSound
<1>5. \A i : HasRecord(i)' <=> HasRecord(i)
  BY <1>1 DEF HasRecord, ReadLines, Readable
<1>6. LoopSound'
  <2>. SUFFICES ASSUME NEW i \in Item, i \notin loop'.left \/ HasRecord(i)' PROVE Done(i)'
    BY <1>1 DEF LoopSound
  <2>1. HasRecord(i)
    BY <1>1, <1>5
  <2>2. PICK r \in LoadedRecords : r.item = i
    BY <2>1, LoadedIs
  <2>. QED BY <1>1, <2>2 DEF Done, ItemKey
<1>7. ResultsSound'
  BY <1>1 DEF EvalInv, ResultsSound, ResultsRead, PathStats
<1>8. CostsTwo'
  <2>1. \A i \in Item : Due'[i] <= Due[i]
    <3>. SUFFICES ASSUME NEW i \in Item PROVE Due'[i] <= Due[i]
      OBVIOUS
    <3>1. Again' = Again /\ Again[i] \in Nat /\ ~Measuring(i)
      BY <1>1, DueTyped DEF EvalInv, Again, Measuring
    <3>. QED BY <1>1, <1>5, <3>1 DEF Due
  <2>2. crashes' >= crashes
    BY <1>1 DEF EvalInv, EvalTypes
  <2>. QED BY <1>1, <1>2, <2>1, <2>2, DueSame
<1>. QED BY <1>2, <1>3, <1>4, <1>6, <1>7, <1>8 DEF EvalInv

LEMMA ScratchKeeps == ASSUME EvalInv, StartFromScratch PROVE EvalInv'
<1>1. /\ lines' = <<>> /\ open' = FALSE /\ known' = {} /\ loop' = [at |-> "next", left |-> Item]
      /\ measured' = [i \in Item |-> 0] /\ crashes' = 0 /\ UNCHANGED results
  BY DEF StartFromScratch
<1>2. EvalTypes'
  <2>1. /\ lines' \in Seq(Seq(Record)) /\ open' \in BOOLEAN /\ known' \in SUBSET Record
        /\ crashes' \in Nat
    <3>1. lines' = << >> /\ open' = FALSE /\ known' = {} /\ crashes' = 0
      BY <1>1
    <3>2. << >> \in Seq(Seq(Record)) /\ {} \in SUBSET Record
      OBVIOUS
    <3>. QED BY <3>1, <3>2
  <2>2. /\ loop' \in [at : {"down", "next", "measured", "done"}, left : SUBSET Item]
        /\ measured' \in [Item -> Nat]
    BY <1>1
  <2>. QED BY <2>1, <2>2 DEF EvalTypes
<1>3. LinesSound' /\ KnownSound'
  BY <1>1 DEF LinesSound, KnownSound
<1>4. LoopSound'
  BY <1>1 DEF LoopSound, HasRecord, ReadLines
<1>5. ResultsSound'
  BY <1>1 DEF EvalInv, ResultsSound, ResultsRead, PathStats
<1>6. CostsTwo'
  <2>1. \A i \in Item : Due'[i] = 0
    BY <1>1 DEF Due, Again
  <2>2. SumFunctionOnSet(Due', Item) = 0
    BY <2>1, ItemsAre, SumOfZeros
  <2>3. Spoils' = 0
    BY <1>1 DEF Spoils
  <2>. QED BY <1>1, <2>2, <2>3 DEF CostsTwo
<1>. QED BY <1>2, <1>3, <1>4, <1>5, <1>6 DEF EvalInv

LEMMA NextItemKeeps == ASSUME EvalInv, NextItem PROVE EvalInv'
<1>. DEFINE next == NextOf(loop.left)
<1>1. /\ UNCHANGED <<lines, open, known, results, crashes>> /\ loop.at = "next" /\ loop.left # {}
      /\ EvalTypes
  BY DEF NextItem, EvalInv
<1>2. next \in loop.left /\ next \in Item
  <2>1. loop.left \in SUBSET Item
    BY <1>1 DEF EvalTypes
  <2>. QED BY <1>1, <2>1, NextOfIs
<1>3. \A i : (HasRecord(i)' <=> HasRecord(i)) /\ (Done(i)' <=> Done(i))
  BY <1>1 DEF HasRecord, ReadLines, Readable, Done, ItemKey
<1>4. ResultsSound'
  BY <1>1 DEF EvalInv, ResultsSound, ResultsRead, PathStats
<1>5. crashes' >= crashes
  BY <1>1 DEF EvalTypes
<1>6. CASE Done(next)
  <2>1. loop' = [loop EXCEPT !.left = loop.left \ {next}] /\ measured' = measured
    BY <1>6 DEF NextItem
  <2>2. loop'.at = "next" /\ loop'.left = loop.left \ {next}
    BY <1>1, <2>1 DEF EvalTypes
  <2>3. EvalTypes'
    <3>1. loop' \in [at : {"down", "next", "measured", "done"}, left : SUBSET Item]
      BY <1>1, <2>1 DEF EvalTypes
    <3>. QED BY <1>1, <2>1, <3>1 DEF EvalTypes
  <2>4. LinesSound' /\ KnownSound'
    BY <1>1, <2>1 DEF EvalInv, LinesSound, KnownSound
  <2>5. LoopSound'
    BY <1>1, <1>3, <1>6, <2>2 DEF EvalInv, LoopSound
  <2>6. \A i \in Item : Due'[i] <= Due[i]
    <3>. SUFFICES ASSUME NEW i \in Item PROVE Due'[i] <= Due[i]
      OBVIOUS
    <3>1. Again' = Again /\ Again[i] \in Nat /\ ~Measuring(i) /\ ~Measuring(i)'
      BY <1>1, <2>1, <2>2, DueTyped DEF Again, Measuring
    <3>. QED BY <1>3, <2>1, <3>1 DEF Due
  <2>. QED BY <1>1, <1>4, <1>5, <2>3, <2>4, <2>5, <2>6, DueSame DEF EvalInv
<1>7. CASE ~Done(next)
  <2>1. /\ loop' = [loop EXCEPT !.at = "measured"]
        /\ measured' = [measured EXCEPT ![next] = @ + 1]
    BY <1>7 DEF NextItem
  <2>2. loop'.at = "measured" /\ loop'.left = loop.left
    BY <1>1, <2>1 DEF EvalTypes
  <2>3. EvalTypes'
    <3>1. loop' \in [at : {"down", "next", "measured", "done"}, left : SUBSET Item]
      BY <1>1, <2>1 DEF EvalTypes
    <3>2. measured' \in [Item -> Nat]
      BY <1>1, <1>2, <2>1 DEF EvalTypes
    <3>. QED BY <1>1, <3>1, <3>2 DEF EvalTypes
  <2>4. \A i \in Item : /\ measured[i] \in Nat /\ measured'[i] \in Nat /\ measured[i] <= measured'[i]
                        /\ measured'[i] = IF i = next THEN measured[i] + 1 ELSE measured[i]
    BY <1>1, <2>1 DEF EvalTypes
  <2>5. LinesSound'
    <3>. SUFFICES ASSUME NEW n \in DOMAIN lines, NEW k \in DOMAIN lines[n]
                  PROVE  lines[n][k].measured <= measured'[lines[n][k].item]
      BY <1>1 DEF EvalInv, LinesSound
    <3>1. lines[n][k].measured <= measured[lines[n][k].item]
      BY DEF EvalInv, LinesSound
    <3>2. lines[n][k].measured \in Nat /\ lines[n][k].item \in Item
      BY <1>1, LinesTyped DEF Record
    <3>. QED BY <2>4, <3>1, <3>2
  <2>6. KnownSound'
    <3>. SUFFICES ASSUME NEW r \in known PROVE r.measured <= measured'[r.item]
      BY <1>1 DEF EvalInv, KnownSound
    <3>1. r.measured <= measured[r.item] /\ r.measured \in Nat /\ r.item \in Item
      BY <1>1 DEF EvalInv, KnownSound, EvalTypes, Record
    <3>. QED BY <2>4, <3>1
  <2>7. LoopSound'
    BY <1>1, <1>3, <2>2 DEF EvalInv, LoopSound
  <2>8. \A i \in Item : Due'[i] <= Due[i]
    <3>. SUFFICES ASSUME NEW i \in Item PROVE Due'[i] <= Due[i]
      OBVIOUS
    <3>1. Again[i] = IF measured[i] = 0 THEN 0 ELSE measured[i] - 1
      BY DEF Again
    <3>2. Again'[i] = IF measured'[i] = 0 THEN 0 ELSE measured'[i] - 1
      BY DEF Again
    <3>3. ~Measuring(i) /\ (Measuring(i)' <=> i = next)
      BY <1>1, <2>2 DEF Measuring
    <3>4. HasRecord(i)' <=> HasRecord(i)
      BY <1>3
    <3>5. ~HasRecord(next)
      BY <1>1, <1>2, <1>7 DEF EvalInv, LoopSound
    <3>6. CASE i = next
      BY <2>4, <3>1, <3>2, <3>3, <3>4, <3>5, <3>6 DEF Due
    <3>7. CASE i # next
      BY <2>4, <3>1, <3>2, <3>3, <3>4, <3>7 DEF Due
    <3>. QED BY <3>6, <3>7
  <2>. QED BY <1>1, <1>4, <1>5, <2>3, <2>5, <2>6, <2>7, <2>8, DueSame DEF EvalInv
<1>. QED BY <1>6, <1>7

LEMMA AddKeeps == ASSUME EvalInv, AddRecord PROVE EvalInv'
<1>0. PICK next : next = NextOf(loop.left)
  OBVIOUS
<1>1. /\ loop.at = "measured" /\ open' = FALSE /\ UNCHANGED <<results, measured, crashes>>
      /\ loop' = [at |-> "next", left |-> loop.left \ {next}] /\ EvalTypes
  BY <1>0 DEF AddRecord, EvalInv
<1>2. PICK record : /\ \E success \in BOOLEAN : record = Current(success, TRUE)
                    /\ lines' = Appended(record)
                    /\ known' = {r \in known : r.item # record.item} \cup {record}
  BY DEF AddRecord, ItemKey
<1>3. next \in loop.left /\ next \in Item
  <2>1. loop.left \in SUBSET Item /\ loop.left # {}
    BY <1>1 DEF EvalTypes, EvalInv, LoopSound
  <2>. QED BY <1>0, <2>1, NextOfIs
<1>4. /\ record \in Record /\ record.item = next /\ record.full /\ record.measured = measured[next]
      /\ measured[next] \in Nat
  BY <1>0, <1>1, <1>2, <1>3 DEF Current, Record, EvalTypes
<1>5. record.measured <= measured[record.item] /\ measured' = measured
  BY <1>1, <1>4
<1>6. /\ lines' \in Seq(Seq(Record)) /\ lines' # << >>
      /\ \A n \in DOMAIN lines' :
           /\ lines'[n] # <<>>
           /\ \A k \in DOMAIN lines'[n] : lines'[n][k].measured <= measured[lines'[n][k].item]
  BY <1>2, <1>4, <1>5, AppendedIs
<1>7. EvalTypes'
  <2>1. loop' \in [at : {"down", "next", "measured", "done"}, left : SUBSET Item]
    <3>1. loop.left \ {next} \in SUBSET Item
      BY <1>1 DEF EvalTypes
    <3>. QED BY <1>1, <3>1
  <2>2. known' \in SUBSET Record
    BY <1>1, <1>2, <1>4 DEF EvalTypes
  <2>. QED BY <1>1, <1>6, <2>1, <2>2 DEF EvalTypes
<1>8. LinesSound'
  BY <1>1, <1>6 DEF LinesSound
<1>9. KnownSound'
  <2>1. \A r \in known' : r.full /\ r.measured <= measured[r.item]
    BY <1>2, <1>4, <1>5 DEF EvalInv, KnownSound
  <2>2. \A r, q \in known' : r.item = q.item => r = q
    BY <1>2 DEF EvalInv, KnownSound
  <2>. QED BY <1>1, <2>1, <2>2 DEF KnownSound
<1>10. LoopSound'
  <2>1. \A i \in Item : Done(i) => Done(i)'
    BY <1>2 DEF Done, ItemKey
  <2>2. Done(next)'
    <3>1. record \in known' /\ record.item = next
      BY <1>2, <1>4
    <3>2. \E r \in known' : ItemKey(r.item) = ItemKey(next)
      BY <3>1
    <3>. QED BY <1>1, <3>2 DEF Done, ItemKey
  <2>3. \A i \in Item : HasRecord(i)' => HasRecord(i) \/ i = next
    <3>. SUFFICES ASSUME NEW i \in Item, HasRecord(i)', i # next PROVE HasRecord(i)
      OBVIOUS
    <3>1. PICK n \in DOMAIN lines' : Len(lines'[n]) = 1 /\ lines'[n][1].full /\ lines'[n][1].item = i
      BY DEF HasRecord, ReadLines, Readable
    <3>2. Len(lines) \in Nat /\ DOMAIN lines = 1 .. Len(lines) /\ lines \in Seq(Seq(Record))
      BY <1>1, LinesTyped DEF EvalTypes
    <3>3. CASE ~open
      <4>1. lines' = Append(lines, <<record>>)
        BY <1>2, <3>3 DEF Appended
      <4>2. n \in 1 .. Len(lines) + 1 /\ (n = Len(lines) + 1 => lines'[n] = <<record>>)
        BY <3>2, <4>1
      <4>3. n # Len(lines) + 1
        BY <1>4, <3>1, <4>2
      <4>4. n \in DOMAIN lines /\ lines'[n] = lines[n]
        BY <3>2, <4>1, <4>2, <4>3
      <4>. QED BY <3>1, <4>4 DEF HasRecord, ReadLines, Readable
    <3>4. CASE open
      <4>1. ~Readable(lines'[Len(lines')])
        BY <1>2, <1>4, <1>5, <3>4, AppendedIs
      <4>2. lines' = [lines EXCEPT ![Len(lines)] = Append(@, record)]
        BY <1>2, <3>4 DEF Appended
      <4>3. Len(lines') = Len(lines) /\ n \in DOMAIN lines
        BY <1>6, <3>1, <3>2, <4>2
      <4>4. n # Len(lines)
        BY <3>1, <4>1, <4>3 DEF Readable
      <4>5. lines'[n] = lines[n]
        BY <4>2, <4>3, <4>4
      <4>. QED BY <3>1, <4>3, <4>5 DEF HasRecord, ReadLines, Readable
    <3>. QED BY <3>3, <3>4
  <2>4. \A i \in Item : i \notin loop.left \/ HasRecord(i) => Done(i)
    BY <1>1 DEF EvalInv, LoopSound
  <2>5. loop'.at = "next" /\ loop'.left = loop.left \ {next}
    BY <1>1
  <2>6. ASSUME NEW i \in Item, i \notin loop'.left \/ HasRecord(i)' PROVE Done(i)'
    <3>1. CASE i = next
      BY <2>2, <3>1
    <3>2. CASE i # next
      BY <2>1, <2>3, <2>4, <2>5, <2>6, <3>2
    <3>. QED BY <3>1, <3>2
  <2>. QED BY <2>5, <2>6 DEF LoopSound
<1>11. ResultsSound'
  BY <1>1 DEF EvalInv, ResultsSound, ResultsRead, PathStats
<1>12. CostsTwo'
  <2>1. loop'.at # "measured" /\ record.item = NextOf(loop.left)
    BY <1>0, <1>1, <1>4
  <2>2. SumFunctionOnSet(Due', Item) + Spoils' <= SumFunctionOnSet(Due, Item) + Spoils + (IF open' THEN 2 ELSE 0)
    BY <1>1, <1>2, <1>4, <1>5, <1>7, <2>1, AppendCosts
  <2>3. /\ SumFunctionOnSet(Due, Item) + Spoils <= 2 * crashes /\ SumFunctionOnSet(Due, Item) \in Nat
        /\ Spoils \in 0 .. 2 /\ crashes \in Nat
    BY <1>1, DueTyped DEF EvalInv, CostsTwo, EvalTypes
  <2>4. SumFunctionOnSet(Due', Item) \in Int /\ Spoils' \in Int
    <3>1. Again' \in [Item -> Nat]
      BY <1>7 DEF EvalTypes, Again
    <3>2. \A i \in Item : Again'[i] \in Nat
      BY <3>1
    <3>3. \A i \in Item : Due'[i] \in Int
      BY <3>2 DEF Due
    <3>. QED BY <3>3, ItemsAre, SumInt DEF Spoils
  <2>5. SumFunctionOnSet(Due', Item) + Spoils' <= 2 * crashes'
    BY <1>1, <2>2, <2>3, <2>4
  <2>. QED BY <2>5 DEF CostsTwo
<1>. QED BY <1>7, <1>8, <1>9, <1>10, <1>11, <1>12 DEF EvalInv

LEMMA CrashKeeps == ASSUME EvalInv, Crash PROVE EvalInv'
<1>. DEFINE next == NextOf(loop.left)
<1>1. /\ loop.at \in {"next", "measured"} /\ crashes' = crashes + 1 /\ measured' = measured
      /\ loop' = [at |-> "down", left |-> {}] /\ known' = {} /\ EvalTypes /\ crashes \in Nat
  BY DEF Crash, EvalInv, EvalTypes
<1>2. KnownSound' /\ LoopSound' /\ loop'.at = "down"
  BY <1>1 DEF KnownSound, LoopSound
<1>3. /\ loop' \in [at : {"down", "next", "measured", "done"}, left : SUBSET Item]
      /\ known' \in SUBSET Record /\ measured' \in [Item -> Nat] /\ crashes' \in Nat
  BY <1>1 DEF EvalTypes
<1>4. /\ SumFunctionOnSet(Due, Item) + Spoils <= 2 * crashes /\ SumFunctionOnSet(Due, Item) \in Nat
      /\ Spoils \in 0 .. 2 /\ Due \in [Item -> Nat] /\ Again \in [Item -> Nat]
  BY <1>1, DueTyped DEF EvalInv, CostsTwo
<1>5. ASSUME EvalTypes'
      PROVE  Due' \in [Item -> Nat] /\ SumFunctionOnSet(Due', Item) \in Int /\ Spoils' \in Int
  <2>1. Again' \in [Item -> Nat]
    BY <1>5 DEF EvalTypes, Again
  <2>2. \A i \in Item : Again'[i] \in Nat
    BY <2>1
  <2>3. Due' \in [Item -> Nat]
    BY <2>2 DEF Due
  <2>4. \A i \in Item : Due'[i] \in Int
    BY <2>3
  <2>. QED BY <2>3, <2>4, ItemsAre, SumInt DEF Spoils
\* Nothing is written: at most the item that was being measured is due again.
<1>6. CASE UNCHANGED <<lines, open>>
  <2>1. EvalTypes' /\ LinesSound'
    BY <1>1, <1>3, <1>6 DEF EvalInv, EvalTypes, LinesSound
  <2>2. \A i : HasRecord(i)' <=> HasRecord(i)
    BY <1>6 DEF HasRecord, ReadLines, Readable
  <2>3. ResultsSound'
    <3>1. CASE UNCHANGED results
      BY <3>1 DEF EvalInv, ResultsSound, ResultsRead, PathStats
    <3>2. CASE results' = [file |-> "damaged", rates |-> <<>>]
      BY <3>2 DEF ResultsSound, ResultsRead
    <3>. QED BY <3>1, <3>2 DEF Crash
  <2>4. PICK x \in Item : \A i \in Item : Measuring(i) => i = x
    <3>1. \E x \in Item : TRUE
      <4>1. PICK t \in Tasks, v \in Variants : 1 \in 1 .. Repeats
        <5>1. Repeats \in Nat \ {0} /\ Tasks # {} /\ Variants # {}
          BY EvaluationAssumption DEF EvaluationAssumption
        <5>2. 1 \in 1 .. Repeats
          BY ONLY <5>1
        <5>. QED BY <5>1, <5>2
      <4>2. <<t, v, 1>> \in Item
        BY <4>1 DEF Item
      <4>. QED BY <4>2
    <3>2. CASE loop.at = "measured"
      <4>1. loop.left \in SUBSET Item /\ loop.left # {}
        BY <1>1, <3>2 DEF EvalTypes, EvalInv, LoopSound
      <4>2. next \in Item
        BY <4>1, NextOfIs
      <4>. QED BY <4>2 DEF Measuring
    <3>3. CASE loop.at # "measured"
      BY <3>1, <3>3 DEF Measuring
    <3>. QED BY <3>2, <3>3
  <2>5. \A i \in Item : Due'[i] <= Due[i] + (IF i = x THEN 1 ELSE 0)
    <3>. SUFFICES ASSUME NEW i \in Item PROVE Due'[i] <= Due[i] + (IF i = x THEN 1 ELSE 0)
      OBVIOUS
    <3>1. Again' = Again /\ Again[i] \in Nat
      BY <1>1, <1>4 DEF Again
    <3>2. i # x => ~Measuring(i)
      BY <2>4
    <3>. QED BY <1>1, <2>2, <3>1, <3>2 DEF Due
  <2>6. SumFunctionOnSet(Due', Item) <= SumFunctionOnSet(Due, Item) + 1
    BY <1>4, <1>5, <2>1, <2>5, MoreForOne
  <2>7. Spoils' = Spoils
    BY <1>6 DEF Spoils, Readable
  <2>8. SumFunctionOnSet(Due', Item) + Spoils' <= 2 * crashes'
    BY <1>1, <1>4, <1>5, <2>1, <2>6, <2>7
  <2>9. CostsTwo'
    BY <2>8 DEF CostsTwo
  <2>. QED BY <1>2, <2>1, <2>3, <2>9 DEF EvalInv
<1>7. CASE /\ loop.at = "measured" /\ open' = TRUE /\ UNCHANGED results
           /\ \E success, full \in BOOLEAN : lines' = Appended(Current(success, full))
  <2>1. PICK record : /\ \E success, full \in BOOLEAN : record = Current(success, full)
                      /\ lines' = Appended(record)
    BY <1>7
  <2>2. next \in Item
    <3>1. loop.left \in SUBSET Item /\ loop.left # {}
      BY <1>1, <1>7 DEF EvalTypes, EvalInv, LoopSound
    <3>. QED BY <3>1, NextOfIs
  <2>3. record \in Record /\ record.item = next /\ record.measured = measured[next] /\ measured[next] \in Nat
    BY <1>1, <2>1, <2>2 DEF Current, Record, EvalTypes
  <2>4. record.measured <= measured[record.item] /\ record.item = NextOf(loop.left)
    BY <2>3
  <2>5. /\ lines' \in Seq(Seq(Record)) /\ lines' # << >>
        /\ \A n \in DOMAIN lines' :
             /\ lines'[n] # <<>>
             /\ \A k \in DOMAIN lines'[n] : lines'[n][k].measured <= measured[lines'[n][k].item]
    BY <1>1, <2>1, <2>3, <2>4, AppendedIs
  <2>6. EvalTypes' /\ LinesSound'
    BY <1>1, <1>3, <1>7, <2>5 DEF EvalTypes, LinesSound
  <2>7. ResultsSound'
    BY <1>7 DEF EvalInv, ResultsSound, ResultsRead, PathStats
  <2>8. SumFunctionOnSet(Due', Item) + Spoils' <= SumFunctionOnSet(Due, Item) + Spoils + (IF open' THEN 2 ELSE 0)
    BY <1>1, <1>2, <1>7, <2>1, <2>3, <2>4, <2>6, AppendCosts
  <2>9. SumFunctionOnSet(Due', Item) + Spoils' <= 2 * crashes'
    BY <1>1, <1>4, <1>5, <1>7, <2>6, <2>8
  <2>10. CostsTwo'
    BY <2>9 DEF CostsTwo
  <2>. QED BY <1>2, <2>6, <2>7, <2>10 DEF EvalInv
<1>. QED BY <1>6, <1>7 DEF Crash

\* What a full set of records is summarized to.
LEMMA AggregateIs ==
  ASSUME EvalInv, loop.at = "next", loop.left = {}
  PROVE  /\ Aggregate(known) \in [Variants -> Outcomes]
         /\ \A v \in Variants :
              /\ Aggregate(known)[v].successes <= Aggregate(known)[v].trials
              /\ Aggregate(known)[v].trials = Cardinality(Tasks) * Repeats
<1>1. /\ known \in SUBSET Record /\ \A r \in Record : r.item \in Item
      /\ \A i \in Item : \E r \in known : r.item = i
      /\ \A r, q \in known : r.item = q.item => r = q
  <2>1. \A i \in Item : \E r \in known : r.item = i
    BY DEF EvalInv, LoopSound, Done, ItemKey
  <2>. QED BY <2>1 DEF EvalInv, EvalTypes, KnownSound, Record
<1>2. {r.item[2] : r \in known} = Variants
  <2>1. \A r \in known : r.item[2] \in Variants
    BY <1>1, ItemsAre
  <2>2. ASSUME NEW v \in Variants PROVE \E r \in known : r.item[2] = v
    <3>1. PICK t \in Tasks : 1 \in 1 .. Repeats
      <4>1. Repeats \in Nat \ {0} /\ Tasks # {}
        BY EvaluationAssumption DEF EvaluationAssumption
      <4>2. 1 \in 1 .. Repeats
        BY ONLY <4>1
      <4>. QED BY <4>1, <4>2
    <3>2. <<t, v, 1>> \in Item
      BY <3>1 DEF Item
    <3>3. PICK r \in known : r.item = <<t, v, 1>>
      BY <1>1, <3>2
    <3>. QED BY <3>3
  <2>. QED BY <2>1, <2>2
<1>3. ASSUME NEW v \in Variants
       PROVE  LET records == {r \in known : r.item[2] = v}
              IN  /\ Cardinality(records) = Cardinality(Tasks) * Repeats
                  /\ Cardinality({r \in records : r.success}) <= Cardinality(records)
                  /\ Cardinality({r \in records : r.success}) \in Nat /\ Cardinality(records) \in Nat
  <2>. DEFINE records == {r \in known : r.item[2] = v}
              good == {r \in records : r.success}
              mine == {i \in Item : i[2] = v}
              f == [r \in records |-> r.item]
  <2>1. f \in [records -> mine] /\ \A r, q \in records : f[r] = f[q] => r = q
    BY <1>1
  <2>2. \A i \in mine : \E r \in records : f[r] = i
    BY <1>1
  <2>3. good \subseteq records
    OBVIOUS
  <2>4. IsFiniteSet(mine) /\ Cardinality(mine) = Cardinality(Tasks) * Repeats
    BY ItemsOfVariant
  <2>. HIDE DEF records, good, mine, f
  <2>5. f \in Injection(records, mine) /\ f \in Surjection(records, mine)
    BY <2>1, <2>2 DEF Injection, IsInjective, Surjection
  <2>6. IsFiniteSet(records) /\ Cardinality(records) = Cardinality(mine)
    BY <2>4, <2>5, FS_Injection
  <2>7. /\ Cardinality(good) <= Cardinality(records)
        /\ Cardinality(good) \in Nat /\ Cardinality(records) \in Nat
    BY <2>3, <2>6, FS_Subset, FS_CardinalityType
  <2>. QED BY <2>4, <2>6, <2>7 DEF records, good
<1>4. Aggregate(known) = [v \in Variants |-> SummarizeGroup({r \in known : r.item[2] = v})]
  BY <1>2 DEF Aggregate
<1>5. ASSUME NEW v \in Variants
      PROVE  LET records == {r \in known : r.item[2] = v}
             IN  /\ SummarizeGroup(records) \in Outcomes
                 /\ SummarizeGroup(records).successes <= SummarizeGroup(records).trials
                 /\ SummarizeGroup(records).trials = Cardinality(Tasks) * Repeats
  BY <1>3 DEF SummarizeGroup, Outcomes
<1>. QED BY <1>4, <1>5

LEMMA SummarizeKeeps == ASSUME EvalInv, Summarize PROVE EvalInv'
<1>1. /\ loop.at = "next" /\ loop.left = {} /\ loop' = [loop EXCEPT !.at = "done"]
      /\ results' = [file |-> "written", rates |-> Aggregate(known)]
      /\ UNCHANGED <<lines, open, known, measured, crashes>> /\ EvalTypes
  BY DEF Summarize, WriteResults, EvalInv
<1>2. loop'.at = "done" /\ loop'.left = {}
  BY <1>1 DEF EvalTypes
<1>3. EvalTypes'
  <2>1. loop' \in [at : {"down", "next", "measured", "done"}, left : SUBSET Item]
    BY <1>1 DEF EvalTypes
  <2>. QED BY <1>1, <2>1 DEF EvalTypes
<1>4. LinesSound' /\ KnownSound'
  BY <1>1 DEF EvalInv, LinesSound, KnownSound
<1>5. \A i : (HasRecord(i)' <=> HasRecord(i)) /\ (Done(i)' <=> Done(i))
  BY <1>1 DEF HasRecord, ReadLines, Readable, Done, ItemKey
<1>6. LoopSound'
  BY <1>1, <1>2, <1>5 DEF EvalInv, LoopSound
<1>7. CostsTwo'
  <2>1. \A i \in Item : Due'[i] <= Due[i]
    <3>. SUFFICES ASSUME NEW i \in Item PROVE Due'[i] <= Due[i]
      OBVIOUS
    <3>1. Again' = Again /\ Again[i] \in Nat /\ ~Measuring(i) /\ ~Measuring(i)'
      BY <1>1, <1>2, DueTyped DEF Again, Measuring
    <3>. QED BY <1>1, <1>5, <3>1 DEF Due
  <2>2. crashes' >= crashes
    BY <1>1 DEF EvalTypes
  <2>. QED BY <1>1, <1>3, <2>1, <2>2, DueSame
<1>8. ResultsSound'
  <2>1. results'.rates = Aggregate(known)
    BY <1>1
  <2>2. /\ DOMAIN PathStats' = Variants
        /\ \A v \in Variants :
             /\ PathStats'[v][1] = Aggregate(known)[v].successes
             /\ PathStats'[v][2] = Aggregate(known)[v].trials
    BY <1>1, <2>1, AggregateIs DEF PathStats
  <2>. QED BY <1>1, <2>2, AggregateIs DEF ResultsSound
<1>. QED BY <1>3, <1>4, <1>6, <1>7, <1>8 DEF EvalInv

LEMMA EvalInvariant == EvalSpec => []EvalInv
<1>1. ASSUME EvalInv, [EvalNext]_evalVars PROVE EvalInv'
  <2>1. CASE UNCHANGED evalVars
    <3>1. UNCHANGED <<lines, open, known, loop, results, measured, crashes>>
      BY <2>1 DEF evalVars
    <3>2. EvalTypes' /\ LinesSound' /\ KnownSound'
      BY <1>1, <3>1 DEF EvalInv, EvalTypes, LinesSound, KnownSound
    <3>3. \A i : (HasRecord(i)' <=> HasRecord(i)) /\ (Done(i)' <=> Done(i))
      BY <3>1 DEF HasRecord, ReadLines, Readable, Done, ItemKey
    <3>4. LoopSound'
      BY <1>1, <3>1, <3>3 DEF EvalInv, LoopSound
    <3>5. ResultsSound'
      BY <1>1, <3>1 DEF EvalInv, ResultsSound, ResultsRead, PathStats
    <3>6. \A i \in Item : Due'[i] <= Due[i]
      <4>. SUFFICES ASSUME NEW i \in Item PROVE Due'[i] <= Due[i]
        OBVIOUS
      <4>1. Again' = Again /\ Again[i] \in Nat /\ (Measuring(i)' <=> Measuring(i))
        BY <1>1, <3>1, DueTyped DEF EvalInv, Again, Measuring
      <4>. QED BY <3>1, <3>3, <4>1 DEF Due
    <3>7. crashes' >= crashes
      BY <1>1, <3>1 DEF EvalInv, EvalTypes
    <3>8. CostsTwo'
      BY <1>1, <3>1, <3>2, <3>6, <3>7, DueSame
    <3>. QED BY <3>2, <3>4, <3>5, <3>8 DEF EvalInv
  <2>. QED BY <1>1, <2>1, StartKeeps, ScratchKeeps, NextItemKeeps, AddKeeps, CrashKeeps, SummarizeKeeps
           DEF EvalNext
<1>. QED BY <1>1, EvalInitially, PTL DEF EvalSpec

(***************************************************************************)
(* For any tasks, variants and repeats and any crashes: what is summarized *)
(* is one full record of every work item, the results file judges every    *)
(* variant by all of its items or is not read, and a crash costs at most   *)
(* two measurements (checkpoint.py, run_e1 and run_e2).                    *)
(***************************************************************************)
THEOREM CrashesCostTwo == EvalSpec => []ResultsComplete
<1>1. ASSUME EvalInv PROVE ResultsComplete
  <2>1. EvalTypes /\ KnownSound /\ LoopSound /\ ResultsSound
    BY <1>1 DEF EvalInv
  <2>2. ASSUME loop.at = "done" PROVE {r.item : r \in known} = Item
    <3>1. \A i \in Item : \E r \in known : r.item = i
      BY <2>1, <2>2 DEF LoopSound, Done, ItemKey
    <3>2. \A r \in known : r.item \in Item
      BY <2>1 DEF EvalTypes, Record
    <3>. QED BY <3>1, <3>2
  <2>3. SumFunction(Again) <= 2 * crashes
    <3>1. /\ Due \in [Item -> Nat] /\ Again \in [Item -> Nat] /\ Spoils \in 0 .. 2
          /\ SumFunctionOnSet(Due, Item) \in Nat /\ crashes \in Nat
      BY <2>1, DueTyped DEF EvalTypes
    <3>2. \A i \in Item : Again[i] <= Due[i]
      <4>. SUFFICES ASSUME NEW i \in Item PROVE Again[i] <= Due[i]
        OBVIOUS
      <4>1. Again[i] \in Nat
        BY <3>1
      <4>. QED BY <4>1 DEF Due
    <3>3. SumFunctionOnSet(Again, Item) <= SumFunctionOnSet(Due, Item)
      BY <3>1, <3>2, NoMore
    <3>4. SumFunction(Again) = SumFunctionOnSet(Again, Item)
      BY <3>1 DEF SumFunction
    <3>5. SumFunctionOnSet(Again, Item) \in Nat
      <4>1. \A i \in Item : Again[i] \in Nat
        BY <3>1
      <4>. QED BY <4>1, ItemsAre, SumNat
    <3>. QED BY <1>1, <3>1, <3>3, <3>4, <3>5 DEF EvalInv, CostsTwo
  <2>4. ASSUME loop.at = "done"
        PROVE  /\ \A r, q \in known : r.item = q.item => r = q
               /\ \A r \in known : r.full /\ r.measured <= measured[r.item]
    BY <2>1 DEF KnownSound
  <2>. QED BY <2>1, <2>2, <2>3, <2>4 DEF ResultsComplete, ResultsSound
<1>. QED BY <1>1, EvalInvariant, PTL
-----------------------------------------------------------------------------
(***************************************************************************)
(* The return on the runs.  A success is worth its minutes, a failure      *)
(* costs the minutes of a fix: both sums are linear in the number of       *)
(* successes, and so is the return.                                        *)
(***************************************************************************)

LEMMA Distributes ==
  ASSUME NEW a \in Int, NEW b \in Int, NEW c \in Int
  PROVE  a * (b + c) = a * b + a * c /\ (b + c) * a = b * a + c * a /\ a * b = b * a /\ a * b \in Int
OBVIOUS

LEMMA ProductNat ==
  ASSUME NEW a \in Nat, NEW b \in Nat
  PROVE  a * b \in Nat
OBVIOUS

LEMMA Negates ==
  ASSUME NEW a \in Int, NEW b \in Int
  PROVE  (-a) * b = -(a * b) /\ a * b \in Int
OBVIOUS

LEMMA Associates ==
  ASSUME NEW a \in Int, NEW b \in Int, NEW c \in Int
  PROVE  (a * b) * c = a * (b * c)
OBVIOUS

LEMMA Dominates ==
  ASSUME NEW a \in Int, NEW b \in Int, NEW n \in Nat, a <= b
  PROVE  a * n <= b * n
<1>1. (b - a) * n \in Nat
  BY ProductNat
<1>2. b * n = (b - a) * n + a * n /\ a * n \in Int /\ b * n \in Int
  BY Distributes
<1>. QED BY <1>1, <1>2

\* A positive factor of both sides does not matter.
LEMMA Cancels ==
  ASSUME NEW a \in Int, NEW b \in Int, NEW n \in Nat \ {0}
  PROVE  a * n >= b * n <=> a >= b
<1>1. CASE a >= b
  <2>1. b * n <= a * n
    BY <1>1, Dominates
  <2>. QED BY <1>1, <2>1, Distributes
<1>2. CASE b >= a + 1
  <2>1. (a + 1) * n <= b * n
    BY <1>2, Dominates
  <2>2. (a + 1) * n = a * n + n /\ a * n \in Int /\ b * n \in Int
    BY Distributes
  <2>. QED BY <1>2, <2>1, <2>2
<1>. QED BY <1>1, <1>2

LEMMA ValueTerm ==
  ASSUME NEW s \in {0, 1}, NEW minutes \in Nat, NEW rate \in Nat
  PROVE  s * minutes * rate = (minutes * rate) * s + 0
<1>1. CASE s = 0
  BY <1>1, ProductNat
<1>2. CASE s = 1
  BY <1>2, ProductNat
<1>. QED BY <1>1, <1>2

LEMMA HumanTerm ==
  ASSUME NEW s \in {0, 1}, NEW review \in Nat, NEW fix \in Nat, NEW rate \in Nat
  PROVE  (review + (1 - s) * fix) * rate = (-(fix * rate)) * s + (review * rate + fix * rate)
<1>1. fix * rate \in Nat /\ review * rate \in Nat
  BY ProductNat
<1>2. (review + fix) * rate = review * rate + fix * rate
  BY Distributes
<1>3. CASE s = 0
  <2>1. (1 - s) * fix = fix /\ (-(fix * rate)) * s = 0
    BY <1>1, <1>3
  <2>. QED BY <1>1, <1>2, <2>1
<1>4. CASE s = 1
  <2>1. (1 - s) * fix = 0 /\ (-(fix * rate)) * s = -(fix * rate)
    BY <1>1, <1>4
  <2>. QED BY <1>1, <2>1
<1>. QED BY <1>3, <1>4

\* The sum of a linear function of terms: by a smallest part for which it fails.
LinearTerms(f, s, S, a, b) == \A i \in S : s[i] \in Int /\ f[i] = a * s[i] + b
LinearSum(f, s, S, a, b) ==
  SumFunctionOnSet(f, S) = a * SumFunctionOnSet(s, S) + b * Cardinality(S)

LEMMA SumLinear ==
  ASSUME NEW f, NEW s, NEW S, IsFiniteSet(S), NEW a \in Int, NEW b \in Int,
         LinearTerms(f, s, S, a, b)
  PROVE  LinearSum(f, s, S, a, b)
<1>. USE DEF LinearTerms, LinearSum
<1>. DEFINE Linear(T) == SumFunctionOnSet(f, T) = a * SumFunctionOnSet(s, T) + b * Cardinality(T)
            Bad == {T \in SUBSET S : ~ Linear(T)}
<1>1. SUFFICES ASSUME Bad # {} PROVE FALSE
  OBVIOUS
<1>2. PICK T \in Bad : IsFiniteSet(T) /\ \A U \in Bad : U \subseteq T => U = T
  <2>1. Bad \in SUBSET SUBSET S
    OBVIOUS
  <2>. HIDE DEF Bad
  <2>. QED BY <1>1, <2>1, Smallest
<1>3. T # {}
  <2>1. Linear({})
    BY SumEmpty, FS_EmptySet
  <2>. QED BY <2>1
<1>4. PICK x \in T : TRUE
  BY <1>3
<1>. DEFINE U == T \ {x}
<1>5. Linear(U) /\ IsFiniteSet(U)
  <2>1. U \in SUBSET S /\ U \subseteq T /\ U # T
    BY <1>2, <1>4
  <2>2. IsFiniteSet(U)
    BY <1>2, FS_Subset
  <2>. HIDE DEF U, Linear
  <2>. QED BY <1>2, <2>1, <2>2
<1>6. \A i \in T : s[i] \in Int /\ f[i] \in Int /\ f[i] = a * s[i] + b
  BY <1>2, Distributes
<1>7. /\ SumFunctionOnSet(f, T) = f[x] + SumFunctionOnSet(f, U)
      /\ SumFunctionOnSet(s, T) = s[x] + SumFunctionOnSet(s, U)
  BY <1>2, <1>4, <1>6, SumRemove
<1>8. SumFunctionOnSet(s, U) \in Int /\ SumFunctionOnSet(f, U) \in Int
  BY <1>5, <1>6, SumInt
<1>9. Cardinality(T) = Cardinality(U) + 1 /\ Cardinality(U) \in Nat
  BY <1>2, <1>4, <1>5, FS_RemoveElement, FS_CardinalityType
<1>10. Linear(T)
  <2>. DEFINE y == SumFunctionOnSet(s, U)
              k == Cardinality(U)
  <2>1. SumFunctionOnSet(f, U) = a * y + b * k
    BY <1>5
  <2>2. f[x] = a * s[x] + b /\ s[x] \in Int /\ y \in Int /\ k \in Int /\ k + 1 \in Int
    BY <1>4, <1>6, <1>8, <1>9
  <2>3. a * (s[x] + y) = a * s[x] + a * y /\ b * (k + 1) = b * k + b
    <3>. HIDE DEF y, k
    <3>. QED BY <2>2, Distributes
  <2>4. a * s[x] \in Int /\ a * y \in Int /\ b * k \in Int
    <3>. HIDE DEF y, k
    <3>. QED BY <2>2, Distributes
  <2>. QED BY <1>7, <1>9, <2>1, <2>2, <2>3, <2>4
<1>. QED BY <1>2, <1>10

\* Assumptions of a workflow's file, and of every cell of the grid.
Assumed(e) ==
  /\ e.minutes \in Nat /\ e.rate \in Nat \ {0} /\ e.review \in Nat /\ e.fix \in Nat /\ e.tool \in Nat

LEMMA ScenariosAssumed ==
  ASSUME RoiTypeOK
  PROVE  \A e \in {economics} \cup Grid : Assumed(e)
<1>1. Assumed(economics) /\ economics \in Economics
  BY RoiAssumption DEF RoiTypeOK, Economics, Assumed, RoiAssumption
<1>2. ASSUME NEW multiplier \in Multipliers, NEW rate \in Rate
      PROVE  Assumed(Scenario(multiplier, rate))
  <2>1. multiplier * economics.minutes \in Nat /\ rate \in Nat \ {0}
    BY <1>1, ProductNat, RoiAssumption DEF Assumed, RoiAssumption
  <2>2. /\ Scenario(multiplier, rate).minutes = multiplier * economics.minutes
        /\ Scenario(multiplier, rate).rate = rate
        /\ Scenario(multiplier, rate).review = economics.review
        /\ Scenario(multiplier, rate).fix = economics.fix
        /\ Scenario(multiplier, rate).tool = economics.tool
    BY <1>1 DEF Scenario, Economics
  <2>. QED BY <1>1, <2>1, <2>2 DEF Assumed
<1>. QED BY <1>1, <1>2 DEF Grid

LEMMA SumsAre ==
  ASSUME RoiTypeOK, NEW e, Assumed(e)
  PROVE  LET value  == e.minutes * e.rate
             repair == e.fix * e.rate
             review == e.review * e.rate
         IN  /\ NSuccess \in 0 .. Len(runList) /\ RunsMachineCost(e) \in Nat
             /\ value \in Nat /\ repair \in Nat /\ review \in Nat
             /\ RunsValue(e) = value * NSuccess
             /\ RunsHumanCost(e) = (review + repair) * Len(runList) - repair * NSuccess
<1>. DEFINE value == e.minutes * e.rate
            repair == e.fix * e.rate
            review == e.review * e.rate
            D == DOMAIN runList
            s == [i \in D |-> runList[i].success]
            v == [i \in D |-> TaskValue(runList[i], e)]
            h == [i \in D |-> HumanCost(runList[i], e)]
            m == [i \in D |-> TaskMachineCost(runList[i], e)]
            failed == [i \in D |-> 1 - runList[i].success]
<1>1. D = 1 .. Len(runList) /\ Len(runList) \in Nat /\ \A i \in D : runList[i] \in CompletedRun
  BY DEF RoiTypeOK
<1>2. IsFiniteSet(D) /\ Cardinality(D) = Len(runList)
  BY <1>1, FS_Interval
<1>3. value \in Nat /\ repair \in Nat /\ review \in Nat
  BY ProductNat DEF Assumed
<1>4. /\ NSuccess = SumFunctionOnSet(s, D) /\ RunsValue(e) = SumFunctionOnSet(v, D)
      /\ RunsHumanCost(e) = SumFunctionOnSet(h, D) /\ RunsMachineCost(e) = SumFunctionOnSet(m, D)
  BY DEF NSuccess, RunsValue, RunsHumanCost, RunsMachineCost, SumFunction
<1>5. \A i \in D : s[i] \in {0, 1} /\ s[i] = runList[i].success
  BY <1>1 DEF CompletedRun
<1>6. ASSUME NEW i \in D PROVE v[i] = value * s[i] + 0
  <2>1. v[i] = s[i] * e.minutes * e.rate
    BY <1>5 DEF TaskValue
  <2>. HIDE DEF s
  <2>. QED BY <1>5, <2>1, ValueTerm DEF Assumed
<1>7. ASSUME NEW i \in D PROVE h[i] = (-repair) * s[i] + (review + repair)
  <2>1. h[i] = (e.review + (1 - s[i]) * e.fix) * e.rate
    BY <1>5 DEF HumanCost
  <2>. HIDE DEF s
  <2>. QED BY <1>5, <2>1, HumanTerm DEF Assumed
<1>8. ASSUME NEW i \in D PROVE m[i] \in Nat
  <2>1. /\ runList[i].llm \in Nat /\ e.tool \in Nat
        /\ runList[i].tool # UseConfigured => runList[i].tool \in Nat
    BY <1>1, RoiAssumption DEF CompletedRun, Assumed, RoiAssumption
  <2>2. m[i] = TaskMachineCost(runList[i], e)
    OBVIOUS
  <2>. HIDE DEF m
  <2>. QED BY <2>1, <2>2 DEF TaskMachineCost
<1>9. \A i \in D : failed[i] = (-1) * s[i] + 1 /\ failed[i] \in Nat
  BY <1>5
<1>10. review + repair \in Int /\ -repair \in Int /\ value \in Int
  BY <1>3
<1>. HIDE DEF value, repair, review, D, s, v, h, m, failed
<1>11. \A i \in D : s[i] \in Nat /\ s[i] \in Int
  BY <1>5
<1>12. SumFunctionOnSet(s, D) \in Nat /\ SumFunctionOnSet(m, D) \in Nat
       /\ SumFunctionOnSet(failed, D) \in Nat
  BY <1>2, <1>8, <1>9, <1>11, SumNat
<1>13. SumFunctionOnSet(v, D) = value * SumFunctionOnSet(s, D) + 0 * Cardinality(D)
  <2>1. LinearTerms(v, s, D, value, 0)
    BY <1>6, <1>11 DEF LinearTerms
  <2>2. value \in Int /\ 0 \in Int
    BY <1>10
  <2>. QED BY <1>2, <2>1, <2>2, SumLinear DEF LinearSum
<1>14. SumFunctionOnSet(h, D) = (-repair) * SumFunctionOnSet(s, D) + (review + repair) * Cardinality(D)
  <2>1. LinearTerms(h, s, D, (-repair), (review + repair))
    BY <1>7, <1>11 DEF LinearTerms
  <2>2. (-repair) \in Int /\ (review + repair) \in Int
    BY <1>10
  <2>. QED BY <1>2, <2>1, <2>2, SumLinear DEF LinearSum
<1>15. SumFunctionOnSet(failed, D) = (-1) * SumFunctionOnSet(s, D) + 1 * Cardinality(D)
  <2>1. LinearTerms(failed, s, D, (-1), 1)
    BY <1>9, <1>11 DEF LinearTerms
  <2>2. (-1) \in Int /\ 1 \in Int
    BY <1>10
  <2>. QED BY <1>2, <2>1, <2>2, SumLinear DEF LinearSum
<1>16. NSuccess \in Nat /\ NSuccess <= Len(runList)
  BY <1>1, <1>2, <1>4, <1>12, <1>15
<1>17. RunsValue(e) = value * NSuccess
  BY <1>2, <1>1, <1>3, <1>4, <1>13, <1>16
<1>18. RunsHumanCost(e) = (review + repair) * Len(runList) - repair * NSuccess
  <2>1. (-repair) * NSuccess = -(repair * NSuccess) /\ repair * NSuccess \in Int
    BY <1>3, <1>16, Negates
  <2>2. (review + repair) * Len(runList) \in Int
    BY <1>1, <1>10, Distributes
  <2>. QED BY <1>2, <1>4, <1>14, <2>1, <2>2
<1>. QED BY <1>1, <1>3, <1>4, <1>12, <1>16, <1>17, <1>18 DEF value, repair, review

\* With w the difference that a success makes and c the cost of n failures, the
\* return is w * successes - c, and the break-even rate is c / (n * w).
LEMMA ReturnIs ==
  ASSUME RoiTypeOK, runList # <<>>, NEW e, Assumed(e)
  PROVE  \E w \in Nat, c \in Nat, n \in Nat \ {0} :
           /\ n = Len(runList) /\ NSuccess \in 0 .. n
           /\ NetRoi(e) = w * NSuccess - c
           /\ BreakEvenRate(e) = {rate \in {<<c, n * w>>} : rate[2] > 0 /\ rate[1] <= rate[2]}
           /\ RunsValue(e) = e.minutes * e.rate * NSuccess
           /\ RunsCost(e) \in Int
<1>. DEFINE value == e.minutes * e.rate
            repair == e.fix * e.rate
            review == e.review * e.rate
            n == Len(runList)
            m == RunsMachineCost(e)
            w == value + repair
            c == m + n * (review + repair)
<1>1. /\ NSuccess \in 0 .. n /\ m \in Nat
      /\ value \in Nat /\ repair \in Nat /\ review \in Nat
      /\ RunsValue(e) = value * NSuccess
      /\ RunsHumanCost(e) = (review + repair) * n - repair * NSuccess
  BY SumsAre
<1>2. n \in Nat \ {0}
  BY DEF RoiTypeOK
<1>3. /\ e.minutes \in Int /\ e.rate \in Int /\ e.review \in Int /\ e.fix \in Int
  BY DEF Assumed
<1>4. (e.review + e.fix) * e.rate = review + repair /\ (e.minutes + e.fix) * e.rate = w
  BY <1>3, Distributes
<1>5. n * (e.review + e.fix) * e.rate = n * (review + repair)
  <2>1. e.review + e.fix \in Int /\ n \in Int
    BY <1>2, <1>3
  <2>2. (n * (e.review + e.fix)) * e.rate = n * ((e.review + e.fix) * e.rate)
    BY ONLY <1>3, <2>1, Associates
  <2>. QED BY <1>4, <2>2
<1>6. n * (e.minutes + e.fix) * e.rate = n * w
  <2>1. e.minutes + e.fix \in Int /\ n \in Int
    BY <1>2, <1>3
  <2>2. (n * (e.minutes + e.fix)) * e.rate = n * ((e.minutes + e.fix) * e.rate)
    BY ONLY <1>3, <2>1, Associates
  <2>. QED BY <1>4, <2>2
<1>7. BreakEvenRate(e) = {rate \in {<<c, n * w>>} : rate[2] > 0 /\ rate[1] <= rate[2]}
  BY <1>5, <1>6 DEF BreakEvenRate
<1>. HIDE DEF value, repair, review, n, m
<1>8. w \in Nat /\ n * (review + repair) \in Nat /\ c \in Nat
  <2>1. review + repair \in Nat /\ w \in Nat
    BY <1>1
  <2>2. n * (review + repair) \in Nat
    BY <1>2, <2>1, ProductNat
  <2>. QED BY <1>1, <2>1, <2>2
<1>9. /\ w * NSuccess = value * NSuccess + repair * NSuccess
      /\ value * NSuccess \in Int /\ repair * NSuccess \in Int
      /\ (review + repair) * n = n * (review + repair)
  <2>1. value \in Int /\ repair \in Int /\ NSuccess \in Int /\ review + repair \in Int /\ n \in Int
    BY <1>1, <1>2
  <2>. QED BY ONLY <2>1, Distributes
<1>10. RunsCost(e) = n * (review + repair) - repair * NSuccess + m /\ RunsCost(e) \in Int
  BY <1>1, <1>8, <1>9 DEF RunsCost, m
<1>11. NetRoi(e) = w * NSuccess - c
  BY <1>1, <1>8, <1>9, <1>10 DEF NetRoi
<1>12. RunsValue(e) = e.minutes * e.rate * NSuccess
  BY <1>1 DEF value
<1>. HIDE DEF w, c
<1>. QED BY <1>1, <1>2, <1>7, <1>8, <1>10, <1>11, <1>12 DEF n

LEMMA FiguresAgree ==
  ASSUME RoiTypeOK, runList # <<>>, NEW e, Assumed(e)
  PROVE  /\ AboveBreakEven(e) => NetRoi(e) >= 0
         /\ NetRoi(e) > 0 => AboveBreakEven(e)
         /\ \A m \in BreakEvenMinutes(e) : NetRoi(e) >= 0 <=> e.minutes * m[2] >= m[1]
<1>1. PICK w \in Nat, c \in Nat, n \in Nat \ {0} :
        /\ n = Len(runList) /\ NSuccess \in 0 .. n
        /\ NetRoi(e) = w * NSuccess - c
        /\ BreakEvenRate(e) = {rate \in {<<c, n * w>>} : rate[2] > 0 /\ rate[1] <= rate[2]}
        /\ RunsValue(e) = e.minutes * e.rate * NSuccess
        /\ RunsCost(e) \in Int
  BY ReturnIs
<1>. DEFINE gain == w * NSuccess
<1>2. gain \in Nat /\ NSuccess \in Nat /\ NSuccess \in Int /\ w \in Int /\ n \in Int
  <2>1. NSuccess \in Nat
    BY <1>1
  <2>. QED BY <2>1, ProductNat
<1>3. NSuccess * (n * w) = gain * n
  <2>1. NSuccess * (n * w) = (NSuccess * n) * w /\ (NSuccess * n) * w = w * (NSuccess * n)
    BY ONLY <1>2, Associates, Distributes
  <2>2. w * (NSuccess * n) = gain * n
    BY ONLY <1>2, Associates
  <2>. QED BY <2>1, <2>2
<1>4. gain * n >= c * n <=> gain >= c
  <2>. HIDE DEF gain
  <2>1. gain \in Int /\ c \in Int
    BY <1>2
  <2>. QED BY ONLY <2>1, n \in Nat \ {0}, Cancels
<1>5. AboveBreakEven(e) <=> n * w > 0 /\ c <= n * w /\ gain >= c
  <2>. DEFINE d == n * w
  <2>1. AboveBreakEven(e) <=> \E be \in {<<c, d>>} : (be[2] > 0 /\ be[1] <= be[2])
                                                 /\ NSuccess * be[2] >= be[1] * n
    <3>. HIDE DEF d
    <3>1. BreakEvenRate(e) = {rate \in {<<c, d>>} : rate[2] > 0 /\ rate[1] <= rate[2]}
      BY <1>1 DEF d
    <3>. QED BY ONLY <3>1, <1>1 DEF AboveBreakEven
  <2>2. AboveBreakEven(e) <=> (d > 0 /\ c <= d) /\ NSuccess * d >= c * n
    <3>. HIDE DEF d
    <3>. QED BY ONLY <2>1
  <2>. QED BY <1>3, <1>4, <2>2
<1>6. NetRoi(e) = gain - c /\ gain <= n * w /\ n * w \in Nat
  <2>1. NSuccess <= n
    BY <1>1
  <2>2. NSuccess * w <= n * w
    BY ONLY <1>2, <2>1, w \in Nat, Dominates
  <2>3. NSuccess * w = gain /\ n * w \in Nat
    <3>1. n \in Nat
      OBVIOUS
    <3>. QED BY <1>2, <3>1, Distributes, ProductNat
  <2>. QED BY <1>1, <2>2, <2>3
<1>7. AboveBreakEven(e) => NetRoi(e) >= 0
  <2>. HIDE DEF gain
  <2>. QED BY <1>2, <1>5, <1>6
<1>8. NetRoi(e) > 0 => AboveBreakEven(e)
  <2>. HIDE DEF gain
  <2>1. ASSUME NetRoi(e) > 0 PROVE n * w > 0 /\ c <= n * w /\ gain >= c
    BY <1>2, <1>6, <2>1
  <2>. QED BY <1>5, <2>1
<1>9. ASSUME NEW m \in BreakEvenMinutes(e)
      PROVE  NetRoi(e) >= 0 <=> e.minutes * m[2] >= m[1]
  <2>1. m[1] = RunsCost(e) /\ m[2] = NSuccess * e.rate
    BY DEF BreakEvenMinutes
  <2>2. e.minutes * m[2] = RunsValue(e) /\ RunsValue(e) \in Int
    <3>1. e.minutes \in Int /\ e.rate \in Int
      BY DEF Assumed
    <3>2. (e.minutes * e.rate) * NSuccess = e.minutes * (e.rate * NSuccess)
      BY ONLY <1>2, <3>1, Associates
    <3>3. e.rate * NSuccess = NSuccess * e.rate /\ e.minutes * e.rate \in Int
      BY ONLY <1>2, <3>1, Distributes
    <3>4. (e.minutes * e.rate) * NSuccess \in Int
      BY ONLY <1>2, <3>3, Distributes
    <3>. QED BY <1>1, <2>1, <3>2, <3>3, <3>4
  <2>3. NetRoi(e) = RunsValue(e) - RunsCost(e) /\ RunsCost(e) \in Int
    BY <1>1 DEF NetRoi
  <2>. QED BY <2>1, <2>2, <2>3
<1>. QED BY <1>7, <1>8, <1>9

\* The assumptions and the runs of a workflow keep their types.
LEMMA RoiTypes == RoiSpec => []RoiTypeOK
<1>1. RoiInit => RoiTypeOK
  BY DEF RoiInit, RoiTypeOK
<1>2. ASSUME RoiTypeOK, [RoiNext]_roiVars
      PROVE  RoiTypeOK'
  <2>1. CASE CompleteRun
    <3>1. PICK run \in CompletedRun : runList' = Append(runList, run)
      BY <2>1 DEF CompleteRun
    <3>2. economics' = economics
      BY <2>1 DEF CompleteRun
    <3>. QED BY <1>2, <3>1, <3>2 DEF RoiTypeOK
  <2>2. CASE UNCHANGED roiVars
    BY <1>2, <2>2 DEF roiVars, RoiTypeOK
  <2>. QED BY <1>2, <2>1, <2>2 DEF RoiNext
<1>. QED BY <1>1, <1>2, PTL DEF RoiSpec

(***************************************************************************)
(* The figures of roi/compute.py agree for any minutes, rates, costs and   *)
(* multipliers and after any number of runs: what is reported above        *)
(* break-even loses nothing, what gains is reported above it, and the      *)
(* break-even minutes are those at which the return is zero.               *)
(***************************************************************************)
THEOREM FiguresOfRunsAgree == RoiSpec => []BreakEvenMeansZero
<1>1. RoiTypeOK => BreakEvenMeansZero
  <2>. SUFFICES ASSUME RoiTypeOK, runList # <<>>, NEW e \in {economics} \cup Grid
                PROVE  /\ AboveBreakEven(e) => NetRoi(e) >= 0
                       /\ NetRoi(e) > 0 => AboveBreakEven(e)
                       /\ \A m \in BreakEvenMinutes(e) :
                            NetRoi(e) >= 0 <=> e.minutes * m[2] >= m[1]
    BY Zenon DEF BreakEvenMeansZero
  <2>1. Assumed(e)
    BY ScenariosAssumed
  <2>. QED BY <2>1, FiguresAgree
<1>. QED BY <1>1, RoiTypes, PTL

-----------------------------------------------------------------------------
(***************************************************************************)
(* Routing.  What a sort or a list comprehension of the code returns is an *)
(* arrangement of a finite set; that there is one follows from a smallest  *)
(* set without.                                                            *)
(***************************************************************************)

IsOrder(set, before) ==
  /\ \A x \in set : <<x, x>> \notin before
  /\ \A x, y \in set : x # y => <<x, y>> \in before \/ <<y, x>> \in before
  /\ \A x, y, z \in set : <<x, y>> \in before /\ <<y, z>> \in before => <<x, z>> \in before

IsArrangement(s, set, before) ==
  /\ s \in [1 .. Cardinality(set) -> set]
  /\ \A i, j \in DOMAIN s : i < j => <<s[i], s[j]>> \in before

LEMMA LeastExists ==
  ASSUME NEW S, NEW before, IsFiniteSet(S), IsOrder(S, before), S # {}
  PROVE  \E x \in S : \A y \in S \ {x} : <<x, y>> \in before
<1>. DEFINE Bad == {T \in SUBSET S : T # {} /\ ~ \E x \in T : \A y \in T \ {x} : <<x, y>> \in before}
<1>1. SUFFICES ASSUME Bad # {} PROVE FALSE
  <2>1. S \in SUBSET S
    OBVIOUS
  <2>2. S \notin Bad
    BY <1>1
  <2>. QED BY <2>1, <2>2
<1>2. PICK T \in Bad : \A U \in Bad : U \subseteq T => U = T
  <2>1. Bad \in SUBSET SUBSET S
    OBVIOUS
  <2>. HIDE DEF Bad
  <2>. QED BY <1>1, <2>1, Smallest
<1>3. PICK a \in T : TRUE
  OBVIOUS
<1>. DEFINE U == T \ {a}
<1>4. U \notin Bad /\ U \in SUBSET S
  BY <1>2, <1>3
<1>5. CASE U = {}
  <2>1. \A y \in T \ {a} : <<a, y>> \in before
    BY <1>5
  <2>. QED BY <1>3, <2>1
<1>6. CASE U # {}
  <2>1. PICK x \in U : \A y \in U \ {x} : <<x, y>> \in before
    BY <1>4, <1>6
  <2>2. x \in S /\ a \in S /\ x # a /\ x \in T
    BY <1>3, <2>1
  <2>3. CASE <<x, a>> \in before
    <3>1. \A y \in T \ {x} : <<x, y>> \in before
      BY <2>1, <2>3
    <3>. QED BY <2>2, <3>1
  <2>4. CASE <<a, x>> \in before
    <3>1. ASSUME NEW y \in T \ {a} PROVE <<a, y>> \in before
      <4>1. y = x \/ <<x, y>> \in before
        BY <2>1, <3>1
      <4>2. y \in S
        OBVIOUS
      <4>. QED BY <2>2, <2>4, <4>1, <4>2 DEF IsOrder
    <3>. QED BY <1>3, <3>1
  <2>. QED BY <2>2, <2>3, <2>4 DEF IsOrder
<1>. QED BY <1>5, <1>6

LEMMA ArrangementExists ==
  ASSUME NEW S, NEW before, IsFiniteSet(S), IsOrder(S, before)
  PROVE  \E s : IsArrangement(s, S, before)
<1>. DEFINE Bad == {T \in SUBSET S : ~ \E s : IsArrangement(s, T, before)}
<1>1. SUFFICES ASSUME Bad # {} PROVE FALSE
  <2>1. S \in SUBSET S /\ S \notin Bad
    BY <1>1
  <2>. QED BY <2>1
<1>2. PICK T \in Bad : IsFiniteSet(T) /\ \A U \in Bad : U \subseteq T => U = T
  <2>1. Bad \in SUBSET SUBSET S
    OBVIOUS
  <2>. HIDE DEF Bad
  <2>. QED BY <1>1, <2>1, Smallest
<1>3. T \in SUBSET S /\ ~ \E s : IsArrangement(s, T, before)
  OBVIOUS
<1>4. T # {}
  <2>1. SUFFICES ASSUME T = {} PROVE FALSE
    OBVIOUS
  <2>2. Cardinality(T) = 0
    BY <2>1, FS_EmptySet
  <2>. DEFINE none == [n \in 1 .. 0 |-> 0]
  <2>3. none \in [1 .. 0 -> {}] /\ \A i, j \in DOMAIN none : FALSE
    OBVIOUS
  <2>4. IsArrangement(none, T, before)
    BY <2>1, <2>2, <2>3 DEF IsArrangement
  <2>. QED BY <1>3, <2>4
<1>5. IsOrder(T, before)
  BY <1>3 DEF IsOrder
<1>6. PICK x \in T : \A y \in T \ {x} : <<x, y>> \in before
  BY <1>2, <1>4, <1>5, LeastExists
<1>. DEFINE U == T \ {x}
<1>7. U \in SUBSET S /\ U \notin Bad
  BY <1>2, <1>3, <1>6
<1>8. PICK s : IsArrangement(s, U, before)
  BY <1>7
<1>9. PICK n \in Nat : n = Cardinality(U) /\ Cardinality(T) = n + 1
  <2>1. Cardinality(T) \in Nat /\ Cardinality(U) \in Nat /\ IsFiniteSet(U)
    BY <1>2, FS_CardinalityType, FS_Subset
  <2>2. Cardinality(U) = Cardinality(T) - 1
    BY <1>2, <1>6, FS_RemoveElement
  <2>. QED BY <2>1, <2>2
<1>. DEFINE t == [k \in 1 .. n + 1 |-> IF k = 1 THEN x ELSE s[k - 1]]
<1>10. s \in [1 .. n -> U] /\ \A i, j \in 1 .. n : i < j => <<s[i], s[j]>> \in before
  BY <1>8, <1>9 DEF IsArrangement
<1>11. \A k \in 2 .. n + 1 : k - 1 \in 1 .. n /\ t[k] = s[k - 1] /\ t[k] \in U
  BY <1>10
<1>12. t \in [1 .. n + 1 -> T] /\ t[1] = x
  <2>1. ASSUME NEW k \in 1 .. n + 1 PROVE t[k] \in T
    <3>1. CASE k = 1
      BY <1>6, <3>1
    <3>2. CASE k # 1
      <4>1. k \in 2 .. n + 1
        BY <3>2
      <4>. QED BY <1>11, <4>1
    <3>. QED BY <3>1, <3>2
  <2>2. t[1] = x
    BY <1>9
  <2>. QED BY <2>1, <2>2
<1>. HIDE DEF t, U
<1>13. ASSUME NEW i \in 1 .. n + 1, NEW j \in 1 .. n + 1, i < j PROVE <<t[i], t[j]>> \in before
  <2>1. j \in 2 .. n + 1 /\ j - 1 \in 1 .. n /\ t[j] = s[j - 1] /\ t[j] \in U
    BY <1>11, <1>13
  <2>2. CASE i = 1
    <3>1. \A y \in U : <<x, y>> \in before
      BY <1>6 DEF U
    <3>. QED BY <1>12, <2>1, <2>2, <3>1
  <2>3. CASE i # 1
    <3>1. i - 1 \in 1 .. n /\ t[i] = s[i - 1] /\ i - 1 < j - 1
      BY <1>11, <1>13, <2>3
    <3>. QED BY <1>10, <2>1, <3>1
  <2>. QED BY <2>2, <2>3
<1>14. IsArrangement(t, T, before)
  <2>1. DOMAIN t = 1 .. n + 1 /\ t \in [1 .. Cardinality(T) -> T]
    BY <1>9, <1>12
  <2>. QED BY <1>13, <2>1 DEF IsArrangement
<1>. QED BY <1>3, <1>14

\* The arrangement that InOrder chooses has every member once.
LEMMA InOrderIs ==
  ASSUME NEW S, NEW before, IsFiniteSet(S), IsOrder(S, before)
  PROVE  LET s == InOrder(S, before)
         IN  /\ s \in [1 .. Cardinality(S) -> S] /\ DOMAIN s = 1 .. Cardinality(S)
             /\ Cardinality(S) \in Nat
             /\ \A i, j \in DOMAIN s : i < j => <<s[i], s[j]>> \in before
             /\ \A i, j \in DOMAIN s : s[i] = s[j] => i = j
             /\ \A x \in S : \E i \in DOMAIN s : s[i] = x
<1>. DEFINE s == InOrder(S, before)
            n == Cardinality(S)
<1>1. n \in Nat
  BY FS_CardinalityType
<1>2. s \in [1 .. n -> S] /\ \A i, j \in DOMAIN s : i < j => <<s[i], s[j]>> \in before
  <2>1. \E r : IsArrangement(r, S, before)
    BY ArrangementExists
  <2>2. \E r \in [1 .. n -> S] : \A i, j \in DOMAIN r : i < j => <<r[i], r[j]>> \in before
    BY <2>1 DEF IsArrangement
  <2>. QED BY <2>2 DEF InOrder
<1>. HIDE DEF s, n
<1>3. DOMAIN s = 1 .. n
  BY <1>2
<1>4. ASSUME NEW i \in 1 .. n, NEW j \in 1 .. n, s[i] = s[j] PROVE i = j
  <2>1. s[i] \in S /\ <<s[i], s[i]>> \notin before
    BY <1>2, <1>4 DEF IsOrder
  <2>2. ~(i < j) /\ ~(j < i)
    BY <1>2, <1>3, <1>4, <2>1
  <2>. QED BY <1>1, <2>2
<1>5. IsFiniteSet(1 .. n) /\ Cardinality(1 .. n) = n
  BY <1>1, FS_Interval
<1>6. s \in Injection(1 .. n, S)
  BY <1>2, <1>3, <1>4 DEF Injection, IsInjective
<1>7. s \in Surjection(1 .. n, S)
  BY <1>5, <1>6, FS_Injection DEF n
<1>8. \A x \in S : \E i \in 1 .. n : s[i] = x
  BY <1>7 DEF Surjection
<1>. QED BY <1>1, <1>2, <1>3, <1>4, <1>8 DEF s, n

\* A function on 1 .. n, as the sequences of the model are built.
IsList(seq) ==
  Len(seq) \in Nat /\ DOMAIN seq = 1 .. Len(seq) /\ seq = [i \in 1 .. Len(seq) |-> seq[i]]

LEMMA ListIs ==
  ASSUME NEW n \in Nat, NEW seq, DOMAIN seq = 1 .. n, seq = [i \in 1 .. n |-> seq[i]]
  PROVE  IsList(seq) /\ Len(seq) = n /\ (seq = << >> <=> n = 0)
<1>1. seq \in [1 .. n -> {seq[i] : i \in 1 .. n}]
  OBVIOUS
<1>2. seq \in Seq({seq[i] : i \in 1 .. n})
  BY <1>1
<1>3. Len(seq) \in Nat /\ DOMAIN seq = 1 .. Len(seq)
  BY <1>2
<1>4. Len(seq) = n
  BY <1>3
<1>5. seq = << >> <=> n = 0
  BY <1>2, <1>4
<1>. QED BY <1>3, <1>4, <1>5 DEF IsList

LEMMA MapIsList ==
  ASSUME NEW seq, IsList(seq)
  PROVE  IsList(ModelsOf(seq))
<1>. DEFINE n == Len(seq)
            models == ModelsOf(seq)
<1>1. n \in Nat /\ DOMAIN seq = 1 .. n
  BY DEF IsList
<1>2. DOMAIN models = 1 .. n /\ models = [i \in 1 .. n |-> models[i]]
  BY <1>1 DEF ModelsOf
<1>. HIDE DEF n, models
<1>. QED BY <1>1, <1>2, ListIs DEF models

\* A comprehension keeps the entries at its places, in the order of the list.
LEMMA KeptIs ==
  ASSUME NEW seq, IsList(seq), NEW places \in SUBSET DOMAIN seq
  PROVE  LET kept == Kept(seq, places)
         IN  /\ IsList(kept) /\ (kept = << >> <=> places = {})
             /\ \A i \in DOMAIN kept : \E p \in places : kept[i] = seq[p]
             /\ \A p \in places : \E i \in DOMAIN kept : kept[i] = seq[p]
             /\ \A i, j \in DOMAIN kept :
                  i < j => \E p, q \in places : p < q /\ kept[i] = seq[p] /\ kept[j] = seq[q]
<1>. DEFINE before == {pair \in places \X places : pair[1] < pair[2]}
            order == InOrder(places, before)
            kept == Kept(seq, places)
            n == Cardinality(places)
<1>1. IsFiniteSet(places) /\ \A p \in places : p \in Nat
  <2>1. IsFiniteSet(1 .. Len(seq))
    BY FS_Interval DEF IsList
  <2>. QED BY <2>1, FS_Subset DEF IsList
<1>2. \A p, q \in places : <<p, q>> \in before <=> p < q
  OBVIOUS
<1>3. IsOrder(places, before)
  <2>. HIDE DEF before
  <2>. QED BY <1>1, <1>2 DEF IsOrder
<1>4. kept = [i \in DOMAIN order |-> seq[order[i]]]
  BY DEF Kept
<1>. HIDE DEF before, kept, order, n
<1>5. /\ order \in [1 .. n -> places] /\ DOMAIN order = 1 .. n /\ n \in Nat
      /\ \A i, j \in DOMAIN order : i < j => <<order[i], order[j]>> \in before
      /\ \A x \in places : \E i \in DOMAIN order : order[i] = x
  BY <1>1, <1>3, InOrderIs DEF order, n
<1>6. DOMAIN kept = 1 .. n /\ \A i \in 1 .. n : kept[i] = seq[order[i]] /\ order[i] \in places
  BY <1>4, <1>5
<1>7. kept = [i \in 1 .. n |-> kept[i]]
  BY <1>4, <1>5
<1>8. IsList(kept) /\ (kept = << >> <=> n = 0)
  BY <1>5, <1>6, <1>7, ListIs
<1>9. n = 0 <=> places = {}
  BY <1>1, FS_EmptySet DEF n
<1>10. \A i, j \in 1 .. n : i < j => order[i] < order[j]
  BY <1>2, <1>5, <1>6
<1>11. \A p \in places : \E i \in 1 .. n : kept[i] = seq[p]
  BY <1>5, <1>6
<1>. QED BY <1>6, <1>8, <1>9, <1>10, <1>11 DEF kept

\* A key to sort by: of any two members one may be less, and what lies between decides.
IsRanking(set, less) ==
  /\ \A x, y \in set : <<x, y>> \in less => <<y, x>> \notin less
  /\ \A x, y, z \in set : <<x, z>> \in less => <<x, y>> \in less \/ <<y, z>> \in less

\* A sort has all the entries, and none after one that it is less than.
LEMMA SortedIs ==
  ASSUME NEW seq, IsList(seq), NEW less, IsRanking(Range(seq), less)
  PROVE  LET sorted == Sorted(seq, less)
         IN  /\ IsList(sorted) /\ (sorted = << >> <=> seq = << >>)
             /\ \A i \in DOMAIN sorted : \E p \in DOMAIN seq : sorted[i] = seq[p]
             /\ \A p \in DOMAIN seq : \E i \in DOMAIN sorted : sorted[i] = seq[p]
             /\ \A i, j \in DOMAIN sorted :
                  i < j => /\ \E p, q \in DOMAIN seq : p # q /\ sorted[i] = seq[p] /\ sorted[j] = seq[q]
                           /\ <<sorted[j], sorted[i]>> \notin less
<1>. DEFINE places == DOMAIN seq
            before == {pair \in (DOMAIN seq) \X (DOMAIN seq) :
                         \/ <<seq[pair[1]], seq[pair[2]]>> \in less
                         \/ pair[1] < pair[2] /\ <<seq[pair[2]], seq[pair[1]]>> \notin less}
            order == InOrder(places, before)
            sorted == Sorted(seq, less)
            n == Cardinality(places)
<1>1. IsFiniteSet(places) /\ (\A p \in places : p \in Nat) /\ n = Len(seq) /\ Len(seq) \in Nat
  <2>1. Len(seq) \in Nat /\ places = 1 .. Len(seq)
    BY DEF IsList
  <2>2. \A k \in Nat : IsFiniteSet(1 .. k) /\ Cardinality(1 .. k) = k
    BY FS_Interval
  <2>. QED BY <2>1, <2>2
<1>2. \A p, q \in places : <<p, q>> \in before <=>
        <<seq[p], seq[q]>> \in less \/ (p < q /\ <<seq[q], seq[p]>> \notin less)
  OBVIOUS
<1>3. \A p \in places : seq[p] \in Range(seq)
  BY DEF Range
<1>4. sorted = [i \in DOMAIN order |-> seq[order[i]]]
  BY DEF Sorted
<1>. HIDE DEF before, sorted, order, n, places
<1>5. IsOrder(places, before)
  <2>1. ASSUME NEW x \in places PROVE <<x, x>> \notin before
    <3>1. x \in Nat /\ <<seq[x], seq[x]>> \notin less
      BY <1>1, <1>3 DEF IsRanking
    <3>. QED BY <1>2, <3>1
  <2>2. ASSUME NEW x \in places, NEW y \in places, x # y PROVE <<x, y>> \in before \/ <<y, x>> \in before
    <3>1. x < y \/ y < x
      BY <1>1, <2>2
    <3>. QED BY <1>2, <3>1
  <2>3. ASSUME NEW x \in places, NEW y \in places, NEW z \in places,
               <<x, y>> \in before, <<y, z>> \in before
        PROVE  <<x, z>> \in before
    <3>1. seq[x] \in Range(seq) /\ seq[y] \in Range(seq) /\ seq[z] \in Range(seq)
      BY <1>3
    <3>2. <<seq[x], seq[y]>> \in less \/ (x < y /\ <<seq[y], seq[x]>> \notin less)
      BY <1>2, <2>3
    <3>3. <<seq[y], seq[z]>> \in less \/ (y < z /\ <<seq[z], seq[y]>> \notin less)
      BY <1>2, <2>3
    <3>4. <<seq[x], seq[z]>> \in less \/ (x < y /\ y < z /\ <<seq[z], seq[x]>> \notin less)
      BY <3>1, <3>2, <3>3 DEF IsRanking
    <3>5. x \in Nat /\ y \in Nat /\ z \in Nat
      BY <1>1
    <3>. QED BY <1>2, <3>4, <3>5
  <2>. QED BY <2>1, <2>2, <2>3 DEF IsOrder
<1>6. /\ order \in [1 .. n -> places] /\ DOMAIN order = 1 .. n /\ n \in Nat
      /\ \A i, j \in DOMAIN order : i < j => <<order[i], order[j]>> \in before
      /\ \A i, j \in DOMAIN order : order[i] = order[j] => i = j
      /\ \A x \in places : \E i \in DOMAIN order : order[i] = x
  BY <1>1, <1>5, InOrderIs DEF order, n
<1>7. DOMAIN sorted = 1 .. n /\ \A i \in 1 .. n : sorted[i] = seq[order[i]] /\ order[i] \in places
  BY <1>4, <1>6
<1>8. sorted = [i \in 1 .. n |-> sorted[i]]
  BY <1>4, <1>6
<1>9. IsList(sorted) /\ (sorted = << >> <=> n = 0)
  BY <1>6, <1>7, <1>8, ListIs
<1>10. n = 0 <=> seq = << >>
  BY <1>1, ListIs DEF IsList
<1>11. ASSUME NEW i \in 1 .. n, NEW j \in 1 .. n, i < j
       PROVE  /\ \E p, q \in places : p # q /\ sorted[i] = seq[p] /\ sorted[j] = seq[q]
              /\ <<sorted[j], sorted[i]>> \notin less
  <2>1. order[i] \in places /\ order[j] \in places /\ order[i] # order[j]
    BY <1>6, <1>7, <1>11
  <2>2. <<order[i], order[j]>> \in before
    BY <1>6, <1>11
  <2>3. <<seq[order[j]], seq[order[i]]>> \notin less
    BY <1>2, <1>3, <2>1, <2>2 DEF IsRanking
  <2>. QED BY <1>7, <2>1, <2>3
<1>12. \A p \in places : \E i \in 1 .. n : sorted[i] = seq[p]
  BY <1>6, <1>7
<1>. QED BY <1>7, <1>9, <1>10, <1>11, <1>12 DEF sorted, places

-----------------------------------------------------------------------------
\* Means and rates are compared by products.

LEMMA Exchanges ==
  ASSUME NEW a \in Int, NEW b \in Int, NEW c \in Int
  PROVE  (a * b) * c = (a * c) * b
<1>1. (a * b) * c = a * (b * c) /\ (a * c) * b = a * (c * b) /\ b * c = c * b
  BY Associates, Distributes
<1>. QED BY <1>1

LEMMA RatiosRank ==
  ASSUME NEW a \in Nat, NEW b \in Nat, NEW c \in Nat,
         NEW p \in Nat \ {0}, NEW q \in Nat \ {0}, NEW r \in Nat \ {0}, a * q < b * p
  PROVE  a * r < c * p \/ c * q < b * r
<1>1. /\ a * q \in Int /\ b * p \in Int /\ a * r \in Int /\ c * p \in Int /\ c * q \in Int /\ b * r \in Int
  BY Distributes
<1>2. SUFFICES ASSUME c * p <= a * r, b * r <= c * q PROVE FALSE
  BY <1>1
<1>3. (b * r) * p <= (c * q) * p
  BY <1>1, <1>2, Dominates
<1>4. (c * p) * q <= (a * r) * q
  BY <1>1, <1>2, Dominates
<1>5. (c * q) * p = (c * p) * q /\ (b * r) * p = (b * p) * r /\ (a * r) * q = (a * q) * r
  BY Exchanges
<1>6. /\ (b * p) * r \in Int /\ (c * p) * q \in Int /\ (a * q) * r \in Int
  BY <1>1, Distributes
<1>. HIDE <1>2
<1>7. (a * q) * r >= (b * p) * r
  BY ONLY <1>3, <1>4, <1>5, <1>6
<1>8. a * q >= b * p
  BY <1>1, <1>7, Cancels
<1>. QED BY <1>1, <1>8

LEMMA CheaperRanks ==
  /\ \A c, d \in Candidate : Cheaper(c, d) => ~Cheaper(d, c)
  /\ \A c, d, e \in Candidate : Cheaper(c, e) => Cheaper(c, d) \/ Cheaper(d, e)
<1>1. ASSUME NEW c \in Candidate, NEW d \in Candidate, Cheaper(c, d) PROVE ~Cheaper(d, c)
  <2>1. c.cost * d.trials \in Int /\ d.cost * c.trials \in Int
    BY Distributes DEF Candidate
  <2>. QED BY <1>1, <2>1 DEF Cheaper
<1>2. ASSUME NEW c \in Candidate, NEW d \in Candidate, NEW e \in Candidate, Cheaper(c, e)
      PROVE  Cheaper(c, d) \/ Cheaper(d, e)
  <2>1. /\ c.cost \in Nat /\ d.cost \in Nat /\ e.cost \in Nat
        /\ c.trials \in Nat \ {0} /\ d.trials \in Nat \ {0} /\ e.trials \in Nat \ {0}
    BY DEF Candidate
  <2>2. c.cost * e.trials < e.cost * c.trials
    BY <1>2 DEF Cheaper
  <2>3. c.cost * d.trials < d.cost * c.trials \/ d.cost * e.trials < e.cost * d.trials
    BY ONLY <2>1, <2>2, RatiosRank
  <2>. QED BY <2>3 DEF Cheaper
<1>. QED BY <1>1, <1>2

LEMMA SuccessRanks ==
  /\ \A c, d \in Candidate : MoreSuccessful(c, d) => ~MoreSuccessful(d, c)
  /\ \A c, d, e \in Candidate : MoreSuccessful(c, e) => MoreSuccessful(c, d) \/ MoreSuccessful(d, e)
<1>1. ASSUME NEW c \in Candidate, NEW d \in Candidate, MoreSuccessful(c, d) PROVE ~MoreSuccessful(d, c)
  <2>1. c.successes * d.trials \in Int /\ d.successes * c.trials \in Int
    BY Distributes DEF Candidate
  <2>. QED BY <1>1, <2>1 DEF MoreSuccessful
<1>2. ASSUME NEW c \in Candidate, NEW d \in Candidate, NEW e \in Candidate, MoreSuccessful(c, e)
      PROVE  MoreSuccessful(c, d) \/ MoreSuccessful(d, e)
  <2>1. /\ c.successes \in Nat /\ d.successes \in Nat /\ e.successes \in Nat
        /\ c.trials \in Nat \ {0} /\ d.trials \in Nat \ {0} /\ e.trials \in Nat \ {0}
    BY DEF Candidate
  <2>2. e.successes * c.trials < c.successes * e.trials
    <3>1. e.successes * c.trials \in Int /\ c.successes * e.trials \in Int
      BY <2>1, Distributes
    <3>. QED BY <1>2, <3>1 DEF MoreSuccessful
  <2>3. e.successes * d.trials < d.successes * e.trials \/ d.successes * c.trials < c.successes * d.trials
    BY ONLY <2>1, <2>2, RatiosRank
  <2>4. /\ e.successes * d.trials \in Int /\ d.successes * e.trials \in Int
        /\ d.successes * c.trials \in Int /\ c.successes * d.trials \in Int
    BY <2>1, Distributes
  <2>. QED BY <2>3, <2>4 DEF MoreSuccessful
<1>. QED BY <1>1, <1>2

LEMMA KeysRank ==
  ASSUME NEW seq, Range(seq) \in SUBSET Candidate
  PROVE  /\ IsRanking(Range(seq), {pair \in Range(seq) \X Range(seq) : ByMeanCost(pair[1], pair[2])})
         /\ IsRanking(Range(seq), {pair \in Range(seq) \X Range(seq) : BetterRanked(pair[1], pair[2])})
<1>. DEFINE R == Range(seq)
            cheap == {pair \in Range(seq) \X Range(seq) : ByMeanCost(pair[1], pair[2])}
            good == {pair \in Range(seq) \X Range(seq) : BetterRanked(pair[1], pair[2])}
<1>1. \A c, d \in R : <<c, d>> \in cheap <=> Cheaper(c, d)
  BY DEF ByMeanCost
<1>2. \A c, d \in R : <<c, d>> \in good <=> MoreSuccessful(c, d) \/ (~MoreSuccessful(d, c) /\ Cheaper(c, d))
  BY DEF BetterRanked
<1>3. R \in SUBSET Candidate
  OBVIOUS
<1>. HIDE DEF R, cheap, good
<1>4. IsRanking(R, cheap)
  BY <1>1, <1>3, CheaperRanks DEF IsRanking
<1>5. IsRanking(R, good)
  <2>1. \A c, d \in R : <<c, d>> \in good => <<d, c>> \notin good
    BY <1>2, <1>3, CheaperRanks, SuccessRanks
  <2>2. ASSUME NEW c \in R, NEW d \in R, NEW e \in R, <<c, e>> \in good
        PROVE  <<c, d>> \in good \/ <<d, e>> \in good
    <3>1. c \in Candidate /\ d \in Candidate /\ e \in Candidate
      BY <1>3
    <3>2. /\ Cheaper(c, e) => Cheaper(c, d) \/ Cheaper(d, e)
          /\ MoreSuccessful(c, e) => MoreSuccessful(c, d) \/ MoreSuccessful(d, e)
          /\ MoreSuccessful(d, c) => MoreSuccessful(d, e) \/ MoreSuccessful(e, c)
          /\ MoreSuccessful(e, d) => MoreSuccessful(e, c) \/ MoreSuccessful(c, d)
      BY <3>1, CheaperRanks, SuccessRanks
    <3>3. MoreSuccessful(c, e) \/ (~MoreSuccessful(e, c) /\ Cheaper(c, e))
      BY <1>2, <2>2
    <3>4. \/ MoreSuccessful(c, d) \/ (~MoreSuccessful(d, c) /\ Cheaper(c, d))
          \/ MoreSuccessful(d, e) \/ (~MoreSuccessful(e, d) /\ Cheaper(d, e))
      BY <3>2, <3>3, <3>1, SuccessRanks
    <3>. QED BY <1>2, <3>4
  <2>. QED BY <2>1, <2>2 DEF IsRanking
<1>. QED BY <1>4, <1>5 DEF R, cheap, good

-----------------------------------------------------------------------------
(***************************************************************************)
(* The table tells each candidate once, as the measurements it was built   *)
(* from have it; so does what a gateway loads.                             *)
(***************************************************************************)

Distinct(list) == \A i, j \in DOMAIN list : list[i].model = list[j].model => i = j

Told(c) ==
  /\ c \in Candidate /\ c.model \in Candidates
  /\ c.trials = Cardinality(Trials(c.model)) /\ c.successes = Cardinality(Successes(c.model))
  /\ c.cost = Spent(c.model)

Tells(list) ==
  /\ IsList(list) /\ Distinct(list)
  /\ \A i \in DOMAIN list : Told(list[i])
  /\ \A m \in Candidates : \E i \in DOMAIN list : list[i].model = m

RoutingInv ==
  /\ measurements \in Seq(Measurement) /\ priced \in SUBSET Model
  /\ Tells(tableFile) /\ PlanFollowsMeasurements

\* What the property says of a plan.
Follows(plan) ==
  /\ plan.below <=> \A m \in Candidates : ~MeetsBar(m)
  /\ Range(plan.models) = {m \in Candidates : plan.below \/ MeetsBar(m)}
  /\ \A i, j \in DOMAIN plan.models :
       LET m == plan.models[i]
           n == plan.models[j]
       IN  i < j => /\ m # n
                    /\ ~plan.below => ~CostsMore(m, n)
                    /\ plan.below => Cardinality(Successes(m)) * Cardinality(Trials(n))
                                       >= Cardinality(Successes(n)) * Cardinality(Trials(m))

\* A list of candidates that is sorted has the same candidates.
LEMMA SortKeeps ==
  ASSUME NEW seq, IsList(seq), Distinct(seq), \A p \in DOMAIN seq : seq[p] \in Candidate,
         NEW less, IsRanking(Range(seq), less)
  PROVE  LET sorted == Sorted(seq, less)
         IN  /\ IsList(sorted) /\ Distinct(sorted) /\ (sorted = << >> <=> seq = << >>)
             /\ \A i \in DOMAIN sorted : \E p \in DOMAIN seq : sorted[i] = seq[p]
             /\ \A p \in DOMAIN seq : \E i \in DOMAIN sorted : sorted[i] = seq[p]
             /\ \A i, j \in DOMAIN sorted : i < j => <<sorted[j], sorted[i]>> \notin less
<1>. DEFINE sorted == Sorted(seq, less)
<1>1. /\ IsList(sorted) /\ (sorted = << >> <=> seq = << >>)
      /\ \A i \in DOMAIN sorted : \E p \in DOMAIN seq : sorted[i] = seq[p]
      /\ \A p \in DOMAIN seq : \E i \in DOMAIN sorted : sorted[i] = seq[p]
      /\ \A i, j \in DOMAIN sorted :
           i < j => /\ \E p, q \in DOMAIN seq : p # q /\ sorted[i] = seq[p] /\ sorted[j] = seq[q]
                    /\ <<sorted[j], sorted[i]>> \notin less
  BY SortedIs
<1>. HIDE DEF sorted
<1>2. ASSUME NEW i \in DOMAIN sorted, NEW j \in DOMAIN sorted, i < j PROVE sorted[i].model # sorted[j].model
  <2>1. PICK p, q \in DOMAIN seq : p # q /\ sorted[i] = seq[p] /\ sorted[j] = seq[q]
    BY <1>1, <1>2
  <2>. QED BY <2>1 DEF Distinct
<1>3. \A i \in DOMAIN sorted : i \in Nat
  BY <1>1 DEF IsList
<1>4. Distinct(sorted)
  <2>. SUFFICES ASSUME NEW i \in DOMAIN sorted, NEW j \in DOMAIN sorted, sorted[i].model = sorted[j].model, i # j
                PROVE  FALSE
    BY DEF Distinct
  <2>1. i < j \/ j < i
    BY <1>3
  <2>. QED BY <1>2, <2>1
<1>. QED BY <1>1, <1>4 DEF sorted

LEMMA SortedLists ==
  ASSUME NEW seq, IsList(seq), Distinct(seq), \A p \in DOMAIN seq : seq[p] \in Candidate
  PROVE  LET cheap == SortedByCost(seq)
             good == SortedBySuccess(seq)
         IN  /\ IsList(cheap) /\ Distinct(cheap) /\ (cheap = << >> <=> seq = << >>)
             /\ \A i \in DOMAIN cheap : \E p \in DOMAIN seq : cheap[i] = seq[p]
             /\ \A p \in DOMAIN seq : \E i \in DOMAIN cheap : cheap[i] = seq[p]
             /\ \A i, j \in DOMAIN cheap : i < j => ~Cheaper(cheap[j], cheap[i])
             /\ IsList(good) /\ Distinct(good) /\ (good = << >> <=> seq = << >>)
             /\ \A i \in DOMAIN good : \E p \in DOMAIN seq : good[i] = seq[p]
             /\ \A p \in DOMAIN seq : \E i \in DOMAIN good : good[i] = seq[p]
             /\ \A i, j \in DOMAIN good : i < j => ~MoreSuccessful(good[j], good[i])
<1>. DEFINE byCost == {pair \in Range(seq) \X Range(seq) : ByMeanCost(pair[1], pair[2])}
            byRank == {pair \in Range(seq) \X Range(seq) : BetterRanked(pair[1], pair[2])}
            cheap == SortedByCost(seq)
            good == SortedBySuccess(seq)
<1>1. Range(seq) \in SUBSET Candidate /\ \A p \in DOMAIN seq : seq[p] \in Range(seq)
  BY DEF Range
<1>2. IsRanking(Range(seq), byCost) /\ IsRanking(Range(seq), byRank)
  BY <1>1, KeysRank
<1>3. cheap = Sorted(seq, byCost) /\ good = Sorted(seq, byRank)
  BY DEF SortedByCost, SortedBySuccess
<1>4. /\ \A c, d \in Range(seq) : Cheaper(c, d) => <<c, d>> \in byCost
      /\ \A c, d \in Range(seq) : MoreSuccessful(c, d) => <<c, d>> \in byRank
  BY DEF ByMeanCost, BetterRanked
<1>. HIDE DEF byCost, byRank, cheap, good
<1>5. /\ IsList(cheap) /\ Distinct(cheap) /\ (cheap = << >> <=> seq = << >>)
      /\ \A i \in DOMAIN cheap : \E p \in DOMAIN seq : cheap[i] = seq[p]
      /\ \A p \in DOMAIN seq : \E i \in DOMAIN cheap : cheap[i] = seq[p]
      /\ \A i, j \in DOMAIN cheap : i < j => <<cheap[j], cheap[i]>> \notin byCost
  BY <1>2, <1>3, SortKeeps
<1>6. /\ IsList(good) /\ Distinct(good) /\ (good = << >> <=> seq = << >>)
      /\ \A i \in DOMAIN good : \E p \in DOMAIN seq : good[i] = seq[p]
      /\ \A p \in DOMAIN seq : \E i \in DOMAIN good : good[i] = seq[p]
      /\ \A i, j \in DOMAIN good : i < j => <<good[j], good[i]>> \notin byRank
  BY <1>2, <1>3, SortKeeps
<1>7. \A i, j \in DOMAIN cheap : i < j => ~Cheaper(cheap[j], cheap[i])
  <2>1. \A i \in DOMAIN cheap : cheap[i] \in Range(seq)
    BY <1>1, <1>5
  <2>. QED BY <1>4, <1>5, <2>1
<1>8. \A i, j \in DOMAIN good : i < j => ~MoreSuccessful(good[j], good[i])
  <2>1. \A i \in DOMAIN good : good[i] \in Range(seq)
    BY <1>1, <1>6
  <2>. QED BY <1>4, <1>6, <2>1
<1>. QED BY <1>5, <1>6, <1>7, <1>8 DEF cheap, good

\* Judging a candidate of the table is judging its measurements.
LEMMA ToldIs ==
  ASSUME NEW c, NEW d, Told(c), Told(d)
  PROVE  /\ Qualifies(c) <=> MeetsBar(c.model)
         /\ ~Cheaper(d, c) => ~CostsMore(c.model, d.model)
         /\ ~MoreSuccessful(d, c) =>
              Cardinality(Successes(c.model)) * Cardinality(Trials(d.model))
                >= Cardinality(Successes(d.model)) * Cardinality(Trials(c.model))
<1>1. Qualifies(c) <=> MeetsBar(c.model)
  BY DEF Told, Qualifies, MeetsBar
<1>2. /\ c.cost * d.trials \in Int /\ d.cost * c.trials \in Int
      /\ c.successes * d.trials \in Int /\ d.successes * c.trials \in Int
  BY Distributes DEF Told, Candidate
<1>3. ~Cheaper(d, c) => ~CostsMore(c.model, d.model)
  BY <1>2 DEF Told, Cheaper, CostsMore
<1>4. ~MoreSuccessful(d, c) => c.successes * d.trials >= d.successes * c.trials
  BY <1>2 DEF MoreSuccessful
<1>. QED BY <1>1, <1>3, <1>4 DEF Told

LEMMA PlanFollows ==
  ASSUME RoutingInv, tableFile # << >>
  PROVE  LET qualifying == Kept(Load, {i \in DOMAIN Load : Qualifies(Load[i])})
             plan == IF qualifying # << >> THEN [models |-> ModelsOf(qualifying), below |-> FALSE]
                     ELSE [models |-> ModelsOf(SortedBySuccess(Load)), below |-> TRUE]
         IN  Follows(plan) /\ IsList(plan.models) /\ plan.below \in BOOLEAN
<1>. DEFINE loaded == Load
            places == {i \in DOMAIN loaded : Qualifies(loaded[i])}
            qualifying == Kept(loaded, places)
            ranked == SortedBySuccess(loaded)
<1>1. Tells(tableFile) /\ \A p \in DOMAIN tableFile : tableFile[p] \in Candidate
  BY DEF RoutingInv, Tells, Told
<1>2. /\ IsList(loaded) /\ Distinct(loaded) /\ loaded # << >>
      /\ \A i \in DOMAIN loaded : \E p \in DOMAIN tableFile : loaded[i] = tableFile[p]
      /\ \A p \in DOMAIN tableFile : \E i \in DOMAIN loaded : loaded[i] = tableFile[p]
      /\ \A i, j \in DOMAIN loaded : i < j => ~Cheaper(loaded[j], loaded[i])
  BY <1>1, SortedLists DEF Load, Tells
<1>. HIDE DEF loaded
<1>3. \A i \in DOMAIN loaded : Told(loaded[i]) /\ loaded[i] \in Candidate
  BY <1>1, <1>2 DEF Tells, Told
<1>4. \A m \in Candidates : \E i \in DOMAIN loaded : loaded[i].model = m
  <2>. SUFFICES ASSUME NEW m \in Candidates PROVE \E i \in DOMAIN loaded : loaded[i].model = m
    OBVIOUS
  <2>1. PICK p \in DOMAIN tableFile : tableFile[p].model = m
    BY <1>1 DEF Tells
  <2>. QED BY <1>2, <2>1
<1>5. \A i \in DOMAIN loaded : loaded[i].model \in Candidates /\ (i \in places <=> MeetsBar(loaded[i].model))
  BY <1>3, ToldIs DEF Told
<1>. HIDE DEF places
<1>6. CASE qualifying # << >>
  <2>1. places \in SUBSET DOMAIN loaded
    BY DEF places
  <2>2. /\ IsList(qualifying) /\ places # {}
        /\ \A i \in DOMAIN qualifying : \E p \in places : qualifying[i] = loaded[p]
        /\ \A p \in places : \E i \in DOMAIN qualifying : qualifying[i] = loaded[p]
        /\ \A i, j \in DOMAIN qualifying :
             i < j => \E p, q \in places : p < q /\ qualifying[i] = loaded[p] /\ qualifying[j] = loaded[q]
    BY <1>2, <1>6, <2>1, KeptIs
  <2>. HIDE DEF qualifying
  <2>. DEFINE plan == [models |-> ModelsOf(qualifying), below |-> FALSE]
  <2>3. /\ plan.models = ModelsOf(qualifying) /\ ~plan.below /\ DOMAIN plan.models = DOMAIN qualifying
        /\ \A i \in DOMAIN qualifying : plan.models[i] = qualifying[i].model
        /\ IsList(plan.models)
    BY <2>2, MapIsList DEF ModelsOf
  <2>4. plan.below <=> \A m \in Candidates : ~MeetsBar(m)
    BY <1>5, <2>1, <2>2, <2>3
  <2>5. Range(plan.models) = {m \in Candidates : plan.below \/ MeetsBar(m)}
    <3>1. \A m \in Range(plan.models) : m \in Candidates /\ MeetsBar(m)
      BY <1>5, <2>1, <2>2, <2>3 DEF Range
    <3>2. ASSUME NEW m \in Candidates, MeetsBar(m) PROVE m \in Range(plan.models)
      <4>1. PICK p \in DOMAIN loaded : loaded[p].model = m /\ p \in places
        BY <1>4, <1>5, <3>2
      <4>2. PICK i \in DOMAIN qualifying : qualifying[i] = loaded[p]
        BY <2>2, <4>1
      <4>. QED BY <2>3, <4>1, <4>2 DEF Range
    <3>. QED BY <2>3, <3>1, <3>2
  <2>6. ASSUME NEW i \in DOMAIN plan.models, NEW j \in DOMAIN plan.models, i < j
        PROVE  plan.models[i] # plan.models[j] /\ ~CostsMore(plan.models[i], plan.models[j])
    <3>1. PICK p, q \in places : p < q /\ qualifying[i] = loaded[p] /\ qualifying[j] = loaded[q]
      BY <2>2, <2>3, <2>6
    <3>2. p \in DOMAIN loaded /\ q \in DOMAIN loaded /\ p # q
      BY <1>2, <2>1, <3>1 DEF IsList
    <3>3. loaded[p].model # loaded[q].model
      BY <1>2, <3>2 DEF Distinct
    <3>4. ~CostsMore(loaded[p].model, loaded[q].model)
      BY <1>2, <1>3, <3>1, <3>2, ToldIs
    <3>. QED BY <2>3, <3>1, <3>3, <3>4
  <2>. HIDE DEF plan
  <2>7. Follows(plan)
    BY <2>3, <2>4, <2>5, <2>6 DEF Follows
  <2>. QED BY <1>6, <2>3, <2>7 DEF plan, loaded, places, qualifying
<1>7. CASE qualifying = << >>
  <2>1. places = {}
    <3>1. places \in SUBSET DOMAIN loaded
      BY DEF places
    <3>. QED BY <1>2, <1>7, <3>1, KeptIs
  <2>2. /\ IsList(ranked) /\ Distinct(ranked) /\ ranked # << >>
        /\ \A i \in DOMAIN ranked : \E p \in DOMAIN loaded : ranked[i] = loaded[p]
        /\ \A p \in DOMAIN loaded : \E i \in DOMAIN ranked : ranked[i] = loaded[p]
        /\ \A i, j \in DOMAIN ranked : i < j => ~MoreSuccessful(ranked[j], ranked[i])
    BY <1>2, <1>3, SortedLists
  <2>. HIDE DEF ranked, qualifying
  <2>. DEFINE plan == [models |-> ModelsOf(ranked), below |-> TRUE]
  <2>3. /\ plan.models = ModelsOf(ranked) /\ plan.below /\ DOMAIN plan.models = DOMAIN ranked
        /\ \A i \in DOMAIN ranked : plan.models[i] = ranked[i].model
        /\ IsList(plan.models)
    BY <2>2, MapIsList DEF ModelsOf
  <2>4. plan.below <=> \A m \in Candidates : ~MeetsBar(m)
    BY <1>4, <1>5, <2>1, <2>3
  <2>5. Range(plan.models) = {m \in Candidates : plan.below \/ MeetsBar(m)}
    <3>1. \A m \in Range(plan.models) : m \in Candidates
      BY <1>5, <2>2, <2>3 DEF Range
    <3>2. ASSUME NEW m \in Candidates PROVE m \in Range(plan.models)
      <4>1. PICK p \in DOMAIN loaded : loaded[p].model = m
        BY <1>4
      <4>2. PICK i \in DOMAIN ranked : ranked[i] = loaded[p]
        BY <2>2, <4>1
      <4>. QED BY <2>3, <4>1, <4>2 DEF Range
    <3>. QED BY <2>3, <3>1, <3>2
  <2>6. ASSUME NEW i \in DOMAIN plan.models, NEW j \in DOMAIN plan.models, i < j
        PROVE  /\ plan.models[i] # plan.models[j]
               /\ Cardinality(Successes(plan.models[i])) * Cardinality(Trials(plan.models[j]))
                    >= Cardinality(Successes(plan.models[j])) * Cardinality(Trials(plan.models[i]))
    <3>1. Told(ranked[i]) /\ Told(ranked[j]) /\ i \in DOMAIN ranked /\ j \in DOMAIN ranked
      BY <1>3, <2>2, <2>3
    <3>2. i # j
      BY <2>2, <2>6, <3>1 DEF IsList
    <3>3. ranked[i].model # ranked[j].model
      BY <2>2, <3>1, <3>2 DEF Distinct
    <3>4. ~MoreSuccessful(ranked[j], ranked[i])
      BY <2>2, <2>6, <3>1
    <3>. QED BY <2>3, <3>1, <3>3, <3>4, ToldIs
  <2>. HIDE DEF plan
  <2>7. Follows(plan)
    BY <2>3, <2>4, <2>5, <2>6 DEF Follows
  <2>. QED BY <1>7, <2>3, <2>7 DEF plan, loaded, places, qualifying, ranked
<1>. QED BY <1>6, <1>7

LEMMA SummaryIs ==
  ASSUME RoutingInv, NEW model \in Model, Of(model) # {}
  PROVE  /\ Summary(model) \in Candidate /\ Summary(model).model = model
         /\ Summary(model).trials = Cardinality(Of(model))
         /\ Summary(model).successes = Cardinality({i \in Of(model) : measurements[i].success})
         /\ Summary(model).cost = SumFunctionOnSet(Costs(measurements), Of(model))
<1>1. /\ Summary(model).model = model
      /\ Summary(model).trials = Cardinality(Of(model))
      /\ Summary(model).successes = Cardinality({i \in Of(model) : measurements[i].success})
      /\ Summary(model).cost = SumFunctionOnSet(Costs(measurements), Of(model))
  BY DEF Summary
<1>2. measurements \in Seq(Measurement)
  BY DEF RoutingInv
<1>3. IsFiniteSet(Of(model))
  <2>1. IsFiniteSet(1 .. Len(measurements)) /\ DOMAIN measurements = 1 .. Len(measurements)
    <3>1. Len(measurements) \in Nat /\ DOMAIN measurements = 1 .. Len(measurements)
      BY <1>2
    <3>2. \A k \in Nat : IsFiniteSet(1 .. k)
      BY FS_Interval
    <3>. QED BY <3>1, <3>2
  <2>2. Of(model) \in SUBSET (1 .. Len(measurements))
    BY <2>1 DEF Of
  <2>. QED BY <2>1, <2>2, FS_Subset
<1>4. Cardinality(Of(model)) \in Nat \ {0}
  BY <1>3, FS_CardinalityType, FS_EmptySet
<1>5. Cardinality({i \in Of(model) : measurements[i].success}) \in Nat
  <2>1. {i \in Of(model) : measurements[i].success} \in SUBSET Of(model)
    OBVIOUS
  <2>2. IsFiniteSet({i \in Of(model) : measurements[i].success})
    BY <1>3, <2>1, FS_Subset
  <2>. QED BY <2>2, FS_CardinalityType
<1>6. SumFunctionOnSet(Costs(measurements), Of(model)) \in Nat
  <2>1. \A i \in Of(model) : Costs(measurements)[i] \in Nat
    <3>. SUFFICES ASSUME NEW i \in Of(model) PROVE Costs(measurements)[i] \in Nat
      OBVIOUS
    <3>1. i \in DOMAIN measurements
      BY DEF Of
    <3>2. measurements[i] \in Measurement /\ Costs(measurements)[i] = measurements[i].cost
      BY <1>2, <3>1 DEF Costs
    <3>3. measurements[i].cost \in CallCost /\ CallCost \subseteq Nat
      BY <3>2, RoutingAssumption DEF Measurement, RoutingAssumption
    <3>. QED BY <3>2, <3>3
  <2>. QED BY <1>3, <2>1, SumNat
<1>7. Summary(model) \in Candidate
  BY <1>4, <1>5, <1>6 DEF Summary, Candidate
<1>. QED BY <1>1, <1>7

\* The models measured, each once.
LEMMA MeasuredIs ==
  LET priceable == {i \in DOMAIN Measured : Measured[i] \in priced}
      models == Kept(Measured, priceable)
  IN  /\ IsList(models)
      /\ \A i, j \in DOMAIN models : models[i] = models[j] => i = j
      /\ \A i \in DOMAIN models : models[i] \in Model /\ Of(models[i]) # {} /\ models[i] \in priced
      /\ \A m \in Model : Of(m) # {} /\ m \in priced => \E i \in DOMAIN models : models[i] = m
<1>. DEFINE places == {i \in DOMAIN ModelList : Of(ModelList[i]) # {}}
            tested == Measured
            priceable == {i \in DOMAIN tested : tested[i] \in priced}
            models == Kept(tested, priceable)
<1>1. /\ IsList(ModelList) /\ \A i, j \in DOMAIN ModelList : ModelList[i] = ModelList[j] => i = j
      /\ \A i \in DOMAIN ModelList : ModelList[i] \in Model
      /\ \A m \in Model : \E i \in DOMAIN ModelList : ModelList[i] = m
  <2>1. ModelList \in Seq(Range(ModelList))
    BY RoutingAssumption DEF RoutingAssumption
  <2>2. IsList(ModelList)
    BY <2>1 DEF IsList
  <2>. QED BY <2>2, RoutingAssumption DEF RoutingAssumption, Model, Range
<1>2. places \in SUBSET DOMAIN ModelList /\ tested = Kept(ModelList, places)
  BY DEF Measured
<1>3. \A i \in places : Of(ModelList[i]) # {}
  OBVIOUS
<1>4. \A i \in DOMAIN ModelList : Of(ModelList[i]) # {} => i \in places
  OBVIOUS
<1>. HIDE DEF tested, places
<1>5. /\ IsList(tested)
      /\ \A i \in DOMAIN tested : \E p \in places : tested[i] = ModelList[p]
      /\ \A p \in places : \E i \in DOMAIN tested : tested[i] = ModelList[p]
      /\ \A i, j \in DOMAIN tested :
           i < j => \E p, q \in places : p < q /\ tested[i] = ModelList[p] /\ tested[j] = ModelList[q]
  BY <1>1, <1>2, KeptIs
<1>6. \A i, j \in DOMAIN tested : i < j => tested[i] # tested[j]
  <2>. SUFFICES ASSUME NEW i \in DOMAIN tested, NEW j \in DOMAIN tested, i < j PROVE tested[i] # tested[j]
    OBVIOUS
  <2>1. PICK p, q \in places : p < q /\ tested[i] = ModelList[p] /\ tested[j] = ModelList[q]
    BY <1>5
  <2>2. p \in DOMAIN ModelList /\ q \in DOMAIN ModelList /\ p # q
    BY <1>1, <1>2, <2>1 DEF IsList
  <2>. QED BY <1>1, <2>1, <2>2
<1>7. priceable \in SUBSET DOMAIN tested /\ \A i \in DOMAIN tested : i \in priceable <=> tested[i] \in priced
  OBVIOUS
<1>. HIDE DEF priceable
<1>8. /\ IsList(models)
      /\ \A i \in DOMAIN models : \E p \in priceable : models[i] = tested[p]
      /\ \A p \in priceable : \E i \in DOMAIN models : models[i] = tested[p]
      /\ \A i, j \in DOMAIN models :
           i < j => \E p, q \in priceable : p < q /\ models[i] = tested[p] /\ models[j] = tested[q]
  BY <1>5, <1>7, KeptIs
<1>. HIDE DEF models
<1>9. \A i, j \in DOMAIN models : i < j => models[i] # models[j]
  <2>. SUFFICES ASSUME NEW i \in DOMAIN models, NEW j \in DOMAIN models, i < j PROVE models[i] # models[j]
    OBVIOUS
  <2>1. PICK p, q \in priceable : p < q /\ models[i] = tested[p] /\ models[j] = tested[q]
    BY <1>8
  <2>. QED BY <1>6, <1>7, <2>1
<1>10. \A i, j \in DOMAIN models : models[i] = models[j] => i = j
  <2>. SUFFICES ASSUME NEW i \in DOMAIN models, NEW j \in DOMAIN models, i # j PROVE models[i] # models[j]
    OBVIOUS
  <2>1. i < j \/ j < i
    BY <1>8 DEF IsList
  <2>. QED BY <1>9, <2>1
<1>11. \A i \in DOMAIN models : models[i] \in Model /\ Of(models[i]) # {} /\ models[i] \in priced
  <2>. SUFFICES ASSUME NEW i \in DOMAIN models
                PROVE  models[i] \in Model /\ Of(models[i]) # {} /\ models[i] \in priced
    OBVIOUS
  <2>1. PICK p \in priceable : models[i] = tested[p]
    BY <1>8
  <2>2. p \in DOMAIN tested /\ tested[p] \in priced
    BY <1>7
  <2>3. PICK q \in places : tested[p] = ModelList[q]
    BY <1>5, <2>2
  <2>. QED BY <1>1, <1>2, <1>3, <2>1, <2>2, <2>3
<1>12. ASSUME NEW m \in Model, Of(m) # {}, m \in priced PROVE \E i \in DOMAIN models : models[i] = m
  <2>1. PICK q \in DOMAIN ModelList : ModelList[q] = m
    BY <1>1
  <2>2. q \in places
    BY <1>4, <1>12, <2>1
  <2>3. PICK p \in DOMAIN tested : tested[p] = m
    BY <1>5, <2>1, <2>2
  <2>4. p \in priceable
    BY <1>7, <1>12, <2>3
  <2>. QED BY <1>8, <2>3, <2>4
<1>. QED BY <1>8, <1>10, <1>11, <1>12 DEF models, priceable, tested

LEMMA BuildTells ==
  ASSUME RoutingInv, BuildTable
  PROVE  Tells(tableFile)'
<1>. DEFINE models == Kept(Measured, {i \in DOMAIN Measured : Measured[i] \in priced})
            entries == [i \in DOMAIN models |-> Summary(models[i])]
<1>1. /\ tableFile' = SortedByCost(entries)
      /\ source' = [measurements |-> measurements, priced |-> priced]
  BY DEF BuildTable
<1>2. /\ IsList(models)
      /\ \A i, j \in DOMAIN models : models[i] = models[j] => i = j
      /\ \A i \in DOMAIN models : models[i] \in Model /\ Of(models[i]) # {} /\ models[i] \in priced
      /\ \A m \in Model : Of(m) # {} /\ m \in priced => \E i \in DOMAIN models : models[i] = m
  BY MeasuredIs
<1>. HIDE DEF models
<1>3. DOMAIN entries = DOMAIN models /\ \A i \in DOMAIN models : entries[i] = Summary(models[i])
  OBVIOUS
<1>4. IsList(entries)
  <2>1. PICK n \in Nat : DOMAIN models = 1 .. n
    BY <1>2 DEF IsList
  <2>2. DOMAIN entries = 1 .. n /\ entries = [i \in 1 .. n |-> entries[i]]
    BY <2>1
  <2>. HIDE DEF entries
  <2>. QED BY <2>2, ListIs
<1>. HIDE DEF entries
<1>5. \A i \in DOMAIN entries : entries[i] \in Candidate /\ entries[i].model = models[i]
  <2>. SUFFICES ASSUME NEW i \in DOMAIN entries
                PROVE  entries[i] \in Candidate /\ entries[i].model = models[i]
    OBVIOUS
  <2>1. entries[i] = Summary(models[i]) /\ models[i] \in Model /\ Of(models[i]) # {}
    BY <1>2, <1>3
  <2>2. Summary(models[i]) \in Candidate /\ Summary(models[i]).model = models[i]
    BY <2>1, SummaryIs
  <2>. QED BY <2>1, <2>2
<1>6. Distinct(entries)
  BY <1>2, <1>3, <1>5 DEF Distinct
<1>7. PICK new : new = SortedByCost(entries)
  OBVIOUS
<1>8. /\ IsList(new) /\ Distinct(new)
      /\ \A i \in DOMAIN new : \E p \in DOMAIN entries : new[i] = entries[p]
      /\ \A p \in DOMAIN entries : \E i \in DOMAIN new : new[i] = entries[p]
  BY <1>4, <1>5, <1>6, <1>7, SortedLists
<1>9. /\ \A m : Trials(m)' = Of(m)
      /\ \A m : Successes(m)' = {i \in Of(m) : measurements[i].success}
      /\ \A m : Spent(m)' = SumFunctionOnSet(Costs(measurements), Of(m))
      /\ Candidates' = {m \in priced : Of(m) # {}}
  BY <1>1 DEF Trials, Successes, Spent, Candidates, Of
<1>10. ASSUME NEW i \in DOMAIN new PROVE Told(new[i])'
  <2>1. PICK p \in DOMAIN entries : new[i] = entries[p]
    BY <1>8
  <2>2. models[p] \in Model /\ Of(models[p]) # {} /\ models[p] \in priced
    BY <1>2, <1>3, <2>1
  <2>3. PICK c : c = new[i]
    OBVIOUS
  <2>4. /\ c = Summary(models[p]) /\ c \in Candidate /\ c.model = models[p]
        /\ c.trials = Cardinality(Of(c.model))
        /\ c.successes = Cardinality({k \in Of(c.model) : measurements[k].success})
        /\ c.cost = SumFunctionOnSet(Costs(measurements), Of(c.model))
    <3>1. PICK m \in Model : m = models[p] /\ Of(m) # {}
      BY <2>2
    <3>2. /\ Summary(m) \in Candidate /\ Summary(m).model = m
          /\ Summary(m).trials = Cardinality(Of(m))
          /\ Summary(m).successes = Cardinality({k \in Of(m) : measurements[k].success})
          /\ Summary(m).cost = SumFunctionOnSet(Costs(measurements), Of(m))
      BY <3>1, SummaryIs
    <3>3. c = Summary(m) /\ c.model = m
      BY <1>3, <2>1, <2>3, <3>1, <3>2
    <3>. QED BY <3>1, <3>2, <3>3
  <2>5. c.model \in Candidates'
    BY <1>9, <2>2, <2>4
  <2>6. Told(c)'
    BY <1>9, <2>4, <2>5 DEF Told
  <2>. QED BY <2>3, <2>6
<1>11. ASSUME NEW m \in Candidates' PROVE \E i \in DOMAIN new : new[i].model = m
  <2>1. m \in priced /\ Of(m) # {} /\ m \in Model
    BY <1>9 DEF RoutingInv
  <2>2. PICK p \in DOMAIN models : models[p] = m
    BY <1>2, <2>1
  <2>3. PICK i \in DOMAIN new : new[i] = entries[p]
    BY <1>3, <1>8, <2>2
  <2>. QED BY <1>3, <1>5, <2>2, <2>3
<1>12. new = tableFile'
  BY <1>1, <1>7
<1>. QED BY <1>8, <1>10, <1>11, <1>12 DEF Tells, Told, Distinct, IsList

LEMMA RoutingInitially == RoutingInit => RoutingInv
<1>. SUFFICES ASSUME RoutingInit PROVE RoutingInv
  OBVIOUS
<1>1. measurements \in Seq(Measurement) /\ priced \in SUBSET Model
  <2>1. measurements = << >> /\ priced \in SUBSET Model
    BY DEF RoutingInit
  <2>2. << >> \in Seq(Measurement)
    OBVIOUS
  <2>. QED BY <2>1, <2>2
<1>2. Tells(tableFile)
  <2>1. Candidates = {}
    BY DEF RoutingInit, Candidates
  <2>2. tableFile = << >> /\ IsList(<< >>) /\ DOMAIN << >> = {}
    BY DEF RoutingInit, IsList
  <2>. QED BY <2>1, <2>2 DEF Tells, Distinct
<1>3. PlanFollowsMeasurements
  BY DEF RoutingInit, PlanFollowsMeasurements
<1>. QED BY <1>1, <1>2, <1>3 DEF RoutingInv

LEMMA SourceStays ==
  ASSUME UNCHANGED source
  PROVE  /\ Candidates' = Candidates /\ \A c : Told(c)' <=> Told(c)
         /\ \A plan : Follows(plan)' <=> Follows(plan)
<1>1. /\ \A m : Trials(m)' = Trials(m)
      /\ \A m : Successes(m)' = Successes(m)
      /\ \A m : Spent(m)' = Spent(m)
      /\ Candidates' = Candidates
  BY DEF Trials, Successes, Spent, Candidates
<1>2. \A c : Told(c)' <=> Told(c)
  BY <1>1 DEF Told
<1>3. /\ \A m : MeetsBar(m)' <=> MeetsBar(m)
      /\ \A m, n : CostsMore(m, n)' <=> CostsMore(m, n)
  BY <1>1 DEF MeetsBar, CostsMore
<1>4. \A plan : Follows(plan)' <=> Follows(plan)
  BY <1>1, <1>3 DEF Follows
<1>. QED BY <1>1, <1>2, <1>4

LEMMA TellsStays ==
  ASSUME RoutingInv, UNCHANGED <<tableFile, source>>
  PROVE  Tells(tableFile)'
<1>1. PICK file : file = tableFile /\ file = tableFile'
  OBVIOUS
<1>2. Tells(file)
  BY <1>1 DEF RoutingInv
<1>3. Tells(file)'
  BY <1>2, SourceStays DEF Tells
<1>. QED BY <1>1, <1>3

LEMMA FollowsIs == PlanFollowsMeasurements <=> (planned # NoPlan => Follows(planned))
  BY DEF PlanFollowsMeasurements, Follows

LEMMA RoutingStep == ASSUME RoutingInv, [RoutingNext]_routingVars PROVE RoutingInv'
<1>1. ASSUME UNCHANGED <<tableFile, source, planned>> PROVE Tells(tableFile)' /\ PlanFollowsMeasurements'
  <2>1. Tells(tableFile)'
    BY <1>1, TellsStays
  <2>2. PICK plan : plan = planned /\ plan = planned'
    BY <1>1
  <2>3. plan # NoPlan => Follows(plan)
    BY <2>2, FollowsIs DEF RoutingInv
  <2>4. plan # NoPlan => Follows(plan)'
    BY <1>1, <2>3, SourceStays
  <2>5. PlanFollowsMeasurements'
    BY <2>2, <2>4 DEF Follows, PlanFollowsMeasurements
  <2>. QED BY <2>1, <2>5
<1>2. CASE Measure
  <2>1. measurements' \in Seq(Measurement) /\ priced' \in SUBSET Model
    BY <1>2 DEF Measure, RoutingInv
  <2>. QED BY <1>1, <1>2, <2>1 DEF Measure, RoutingInv
<1>3. CASE Reprice
  <2>1. measurements' \in Seq(Measurement) /\ priced' \in SUBSET Model
    BY <1>3 DEF Reprice, RoutingInv
  <2>. QED BY <1>1, <1>3, <2>1 DEF Reprice, RoutingInv
<1>4. CASE BuildTable
  <2>1. measurements' \in Seq(Measurement) /\ priced' \in SUBSET Model /\ planned' = NoPlan
    BY <1>4 DEF BuildTable, RoutingInv
  <2>2. PlanFollowsMeasurements'
    BY <2>1 DEF PlanFollowsMeasurements
  <2>. QED BY <1>4, <2>1, <2>2, BuildTells DEF RoutingInv
<1>5. CASE PlanRoute
  <2>1. /\ measurements' \in Seq(Measurement) /\ priced' \in SUBSET Model
        /\ UNCHANGED <<tableFile, source>> /\ tableFile # << >>
    BY <1>5 DEF PlanRoute, RoutingInv
  <2>2. Tells(tableFile)'
    BY <2>1, TellsStays
  <2>3. PICK plan : plan = planned'
    OBVIOUS
  <2>4. Follows(plan)
    BY <1>5, <2>1, <2>3, PlanFollows DEF PlanRoute
  <2>5. Follows(plan)'
    BY <2>1, <2>4, SourceStays
  <2>6. PlanFollowsMeasurements'
    BY <2>3, <2>5 DEF Follows, PlanFollowsMeasurements
  <2>. QED BY <2>1, <2>2, <2>6 DEF RoutingInv
<1>6. CASE UNCHANGED routingVars
  <2>1. UNCHANGED <<measurements, priced, tableFile, source, planned>>
    BY <1>6 DEF routingVars
  <2>. QED BY <1>1, <2>1 DEF RoutingInv
<1>. QED BY <1>2, <1>3, <1>4, <1>5, <1>6 DEF RoutingNext

(***************************************************************************)
(* For any models, costs, bar and measurements and any edits of the prices *)
(* meanwhile: a plan of plan_route has, by the measurements its table was  *)
(* built from, every candidate that meets the bar, the cheaper first, or   *)
(* when none does all of them, the more successful first (router.py,       *)
(* routing_table.py, summarize of e1_steps.py).                            *)
(***************************************************************************)
THEOREM PlansFollowMeasurements == RoutingSpec => []PlanFollowsMeasurements
<1>1. RoutingInv /\ [RoutingNext]_routingVars => RoutingInv'
  BY RoutingStep
<1>2. RoutingInv => PlanFollowsMeasurements
  BY DEF RoutingInv
<1>. QED BY <1>1, <1>2, RoutingInitially, PTL DEF RoutingSpec
-----------------------------------------------------------------------------
(***************************************************************************)
(* Types.  What the invariants above leave open of a component's types     *)
(* rests on them.                                                          *)
(***************************************************************************)

LEMMA ApiTypesHold == ApiSpec => []ApiTypeOK
<1>1. ASSUME ApiInv PROVE ApiTypeOK
  <2>1. ApiTypes /\ ReadLately
    BY <1>1 DEF ApiInv
  <2>2. /\ monotonic \in Nat /\ monotonic \in 0 .. MaxClock /\ Lag \in Nat
        /\ \A m \in Time : m \in Nat
    BY <2>1, ApiAssumption, TimeFinite DEF ApiTypes, Time
  <2>3. ASSUME NEW t \in Thread
        PROVE  threads[t] \in {Free} \cup [at : {"lock"}, client : Client, now : 0 .. monotonic]
    <3>1. CASE threads[t] = Free
      BY <3>1
    <3>2. CASE threads[t] # Free
      <4>1. threads[t] \in [at : {"lock"}, client : Client, now : Time]
        BY <2>1, <3>2 DEF ApiTypes
      <4>2. threads[t].now \in Nat /\ threads[t].now \in monotonic - Lag .. monotonic
        BY <2>1, <2>2, <3>2, <4>1 DEF ReadLately
      <4>3. threads[t].now \in 0 .. monotonic
        BY <2>2, <4>2
      <4>. QED BY <4>1, <4>3
    <3>. QED BY <3>1, <3>2
  <2>. QED BY <2>1, <2>2, <2>3 DEF ApiTypes, ApiTypeOK
<1>. QED BY <1>1, ApiInvariant, PTL

\* The results file and the bounds of the model.
EvalRest ==
  /\ results.file \in {"none", "damaged", "written"}
  /\ results.rates \in {<<>>} \cup [Variants -> Outcomes]
  /\ crashes \in 0 .. MaxCrashes /\ starts \in 0 .. MaxStarts

LEMMA EvalRestHolds == EvalSpec => []EvalRest
<1>1. EvalInit => EvalRest
  BY EvaluationAssumption DEF EvalInit, EvalRest, NoResults
<1>2. ASSUME EvalInv, EvalRest, [EvalNext]_evalVars PROVE EvalRest'
  <2>1. MaxCrashes \in Nat /\ MaxStarts \in Nat
    BY EvaluationAssumption
  <2>2. CASE UNCHANGED evalVars
    BY <1>2, <2>2 DEF evalVars, EvalRest
  <2>3. CASE StartEvaluation \/ StartFromScratch
    <3>1. starts' \in 0 .. MaxStarts /\ crashes' \in {crashes, 0} /\ UNCHANGED results
      BY <1>2, <2>1, <2>3 DEF StartEvaluation, StartFromScratch, EvalRest
    <3>. QED BY <1>2, <2>1, <3>1 DEF EvalRest
  <2>4. CASE NextItem \/ AddRecord
    BY <1>2, <2>4 DEF NextItem, AddRecord, EvalRest
  <2>5. CASE Crash
    <3>1. crashes' \in 0 .. MaxCrashes /\ UNCHANGED starts
      BY <1>2, <2>1, <2>5 DEF Crash, EvalRest
    <3>2. results' \in {results, [file |-> "damaged", rates |-> <<>>]}
      BY <2>5 DEF Crash
    <3>. QED BY <1>2, <3>1, <3>2 DEF EvalRest
  <2>6. CASE Summarize
    <3>1. Aggregate(known) \in [Variants -> Outcomes]
      BY <1>2, <2>6, AggregateIs DEF Summarize
    <3>. QED BY <1>2, <2>6, <3>1 DEF Summarize, WriteResults, EvalRest
  <2>. QED BY <1>2, <2>2, <2>3, <2>4, <2>5, <2>6 DEF EvalNext
<1>. QED BY <1>1, <1>2, EvalInvariant, PTL DEF EvalSpec

LEMMA EvalTypesHold == EvalSpec => []EvalTypeOK
<1>1. EvalInv /\ EvalRest => EvalTypeOK
  BY DEF EvalInv, EvalTypes, EvalRest, EvalTypeOK
<1>. QED BY <1>1, EvalInvariant, EvalRestHolds, PTL

\* What a plan and the history of the table are made of.
RoutingRest ==
  /\ planned.models \in Seq(Model) /\ planned.below \in BOOLEAN
  /\ source.measurements \in Seq(Measurement) /\ source.priced \subseteq Model

LEMMA RoutingRestHolds == RoutingSpec => []RoutingRest
<1>1. RoutingInit => RoutingRest
  BY DEF RoutingInit, RoutingRest, NoPlan
<1>2. ASSUME RoutingInv, RoutingRest, [RoutingNext]_routingVars PROVE RoutingRest'
  <2>1. CASE Measure \/ Reprice \/ UNCHANGED routingVars
    BY <1>2, <2>1 DEF Measure, Reprice, routingVars, RoutingRest
  <2>2. CASE BuildTable
    <3>1. planned' = NoPlan /\ source' = [measurements |-> measurements, priced |-> priced]
      BY <2>2 DEF BuildTable
    <3>2. measurements \in Seq(Measurement) /\ priced \subseteq Model
      BY <1>2 DEF RoutingInv
    <3>. QED BY <3>1, <3>2 DEF RoutingRest, NoPlan
  <2>3. CASE PlanRoute
    <3>1. PICK plan : plan = planned'
      OBVIOUS
    <3>2. Follows(plan) /\ IsList(plan.models) /\ plan.below \in BOOLEAN /\ UNCHANGED source
      BY <1>2, <2>3, <3>1, PlanFollows DEF PlanRoute
    <3>3. \A i \in DOMAIN plan.models : plan.models[i] \in Model
      <4>1. Candidates \subseteq Model
        BY <1>2 DEF Candidates, RoutingRest
      <4>2. Range(plan.models) \subseteq Candidates
        BY <3>2 DEF Follows
      <4>. QED BY <4>1, <4>2 DEF Range
    <3>4. plan.models \in Seq(Model)
      <4>1. PICK models : models = plan.models
        OBVIOUS
      <4>2. /\ Len(models) \in Nat /\ models = [i \in 1 .. Len(models) |-> models[i]]
            /\ \A i \in 1 .. Len(models) : models[i] \in Model
        BY <3>2, <3>3, <4>1 DEF IsList
      <4>3. models \in Seq(Model)
        BY <4>2
      <4>. QED BY <4>1, <4>3
    <3>. QED BY <1>2, <3>1, <3>2, <3>4 DEF RoutingRest
  <2>. QED BY <1>2, <2>1, <2>2, <2>3 DEF RoutingNext
<1>3. RoutingInv /\ [RoutingNext]_routingVars => RoutingInv'
  BY RoutingStep
<1>. QED BY <1>1, <1>2, <1>3, RoutingInitially, PTL DEF RoutingSpec

LEMMA RoutingTypesHold == RoutingSpec => []RoutingTypeOK
<1>1. ASSUME RoutingInv, RoutingRest PROVE RoutingTypeOK
  <2>1. PICK list : list = tableFile
    OBVIOUS
  <2>2. IsList(list) /\ \A i \in DOMAIN list : list[i] \in Candidate
    BY <1>1, <2>1 DEF RoutingInv, Tells, Told
  <2>3. /\ Len(list) \in Nat /\ list = [i \in 1 .. Len(list) |-> list[i]]
        /\ \A i \in 1 .. Len(list) : list[i] \in Candidate
    BY <2>2 DEF IsList
  <2>4. list \in Seq(Candidate)
    BY <2>3
  <2>. QED BY <1>1, <2>1, <2>4 DEF RoutingInv, RoutingRest, RoutingTypeOK
<1>2. RoutingInv /\ [RoutingNext]_routingVars => RoutingInv'
  BY RoutingStep
<1>. QED BY <1>1, <1>2, RoutingInitially, RoutingRestHolds, PTL DEF RoutingSpec
=============================================================================
