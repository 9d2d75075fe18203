----------------------------- MODULE GatewayProofs -----------------------------
(***************************************************************************)
(* The overspend bounds and the ledger of Gateway, for any clients,        *)
(* models, plans, costs, limits and number of retries.                     *)
(*                                                                         *)
(* The argument for the bounds.  Take one budget (a run's, or a workflow's *)
(* day) with limit L, spend S and n clients, each call estimated at most   *)
(* at E and costing at most O more than its estimate.  Let P be the        *)
(* clients whose check of this budget is behind them and whose charge is   *)
(* still to come, k = n-|P| the others, and w[c] what c was told it may    *)
(* spend.  Then always                                                     *)
(*   - S <= L + (k-1)*E + k*O, or                                          *)
(*   - S + w[c] <= L + k*(E+O) for some c in P (the last that was told).   *)
(* A client that enters P establishes the second case whatever came        *)
(* before; a client that leaves P without charging, or that charges, makes *)
(* k larger by one, which pays for a charge of at most E+O.                *)
(*                                                                         *)
(* For the ledger, a client's share is what it has been billed and has not *)
(* charged yet; counters, rows and shares add up after every step.         *)
(***************************************************************************)
EXTENDS Gateway, GatewayLemmas

E == CostliestEstimate

Bounded(S, L, P, n, w) ==
  LET k == n - Cardinality(P)
  IN  \/ S <= L + (k - 1) * E + k * Overrun
      \/ \E c \in P : S + w[c] <= L + k * (E + Overrun)

-----------------------------------------------------------------------------

(* Some model is the costliest: otherwise take a smallest non-empty set of     *)
(* models without one, and remove a model from it.                             *)
LEMMA CostliestExists ==
  \E m \in Model : \A x \in Model : Estimate[x] <= Estimate[m]
<1>. DEFINE Top(T) == \E m \in T : \A x \in T : Estimate[x] <= Estimate[m]
            Bad == {k \in Nat : \E T \in SUBSET Model :
                                  T # {} /\ Cardinality(T) = k /\ ~Top(T)}
<1>1. /\ IsFiniteSet(Model) /\ Model # {}
      /\ \A m \in Model : Estimate[m] \in Nat
  BY GatewayAssumption
<1>2. SUFFICES ASSUME Bad # {} PROVE FALSE
  <2>1. Cardinality(Model) \in Nat
    BY <1>1, FS_CardinalityType
  <2>2. Bad = {} => Top(Model)
    BY <1>1, <2>1
  <2>. QED BY <2>2
<1>3. PICK k \in Bad : \A j \in Bad : ~ <<j, k>> \in OpToRel(<, Nat)
  BY <1>2, WFMin, NatLessThanWellFounded
<1>4. PICK T \in SUBSET Model : T # {} /\ Cardinality(T) = k /\ ~Top(T)
  OBVIOUS
<1>5. PICK x \in T : TRUE
  BY <1>4
<1>. DEFINE U == T \ {x}
<1>6. IsFiniteSet(T) /\ Cardinality(U) = k - 1 /\ Cardinality(U) \in Nat
  <2>1. IsFiniteSet(T)
    BY <1>1, FS_Subset
  <2>. QED BY <1>4, <1>5, <2>1, FS_RemoveElement, FS_CardinalityType
<1>7. U # {} => Top(U)
  <2>. SUFFICES ASSUME U # {}, ~Top(U) PROVE FALSE
    OBVIOUS
  <2>1. k - 1 \in Bad
    BY <1>6
  <2>2. <<k - 1, k>> \in Nat \X Nat /\ <<k - 1, k>>[1] < <<k - 1, k>>[2]
    BY <1>6, <2>1
  <2>3. <<k - 1, k>> \in OpToRel(<, Nat)
    BY <2>2, Zenon DEF OpToRel
  <2>. QED BY <1>3, <2>1, <2>3
<1>8. CASE U = {}
  <2>1. T = {x}
    BY <1>5, <1>8
  <2>. QED BY <1>1, <1>4, <2>1
<1>9. CASE U # {}
  <2>1. PICK m \in U : \A y \in U : Estimate[y] <= Estimate[m]
    BY <1>7, <1>9
  <2>2. CASE Estimate[x] <= Estimate[m]
    BY <1>4, <2>1, <2>2
  <2>3. CASE ~ Estimate[x] <= Estimate[m]
    <3>1. Estimate[m] <= Estimate[x] /\ Estimate[x] <= Estimate[x]
      BY <1>1, <1>5, <2>1, <2>3
    <3>2. \A y \in T : Estimate[y] <= Estimate[x]
      BY <1>1, <2>1, <3>1
    <3>. QED BY <1>4, <3>2
  <2>. QED BY <2>2, <2>3
<1>. QED BY <1>8, <1>9

LEMMA CostliestBound == E \in Nat /\ \A m \in Model : Estimate[m] <= E
<1>. DEFINE S == {Estimate[m] : m \in Model}
<1>1. \E n \in S : \A x \in S : n >= x
  <2>1. PICK m \in Model : \A x \in Model : Estimate[x] <= Estimate[m]
    BY CostliestExists
  <2>2. \A x \in Model : Estimate[x] \in Nat
    BY GatewayAssumption
  <2>3. Estimate[m] \in S /\ \A x \in S : Estimate[m] >= x
    BY <2>1, <2>2
  <2>. QED BY <2>3
<1>2. E \in S /\ \A x \in S : E >= x
  BY <1>1 DEF E, CostliestEstimate, Max
<1>. QED BY <1>2, GatewayAssumption

-----------------------------------------------------------------------------

(* Products of a count and a price.                                            *)
LEMMA TimesMonotone ==
  ASSUME NEW i \in Int, NEW j \in Int, NEW x \in Nat, i <= j
  PROVE  i * x \in Int /\ j * x \in Int /\ i * x <= j * x
OBVIOUS

LEMMA TimesSuccessor ==
  ASSUME NEW i \in Int, NEW x \in Nat, NEW y \in Nat
  PROVE  /\ (i + 1) * x = i * x + x /\ (i - 1) * x = i * x - x
         /\ i * (x + y) = i * x + i * y
OBVIOUS

-----------------------------------------------------------------------------
(* The steps of the argument, for any budget: S is its spend, L its limit, P   *)
(* the clients between check and charge out of n, w what they were told.       *)

(* Clients that leave P without charging only make the bound looser.           *)
LEMMA BoundedLeave ==
  ASSUME NEW S \in Int, NEW L \in Int, NEW n \in Nat,
         NEW P, IsFiniteSet(P), Cardinality(P) <= n, NEW Q \in SUBSET P,
         NEW w, NEW v, \A c \in P : w[c] \in Nat,
         \A c \in Q : v[c] = w[c],
         Bounded(S, L, P, n, w)
  PROVE  Bounded(S, L, Q, n, v)
<1>. DEFINE k == n - Cardinality(P)
            j == n - Cardinality(Q)
<1>1. E \in Nat /\ Overrun \in Nat
  BY CostliestBound, GatewayAssumption
<1>2. k \in Int /\ j \in Int /\ k <= j
  BY FS_CardinalityType, FS_Subset
<1>3. CASE S <= L + (k - 1) * E + k * Overrun
  <2>1. (k - 1) * E <= (j - 1) * E /\ k * Overrun <= j * Overrun
    BY <1>1, <1>2, TimesMonotone
  <2>2. /\ (k - 1) * E \in Int /\ (j - 1) * E \in Int
        /\ k * Overrun \in Int /\ j * Overrun \in Int
    BY <1>1, <1>2
  <2>3. S <= L + (j - 1) * E + j * Overrun
    BY <1>3, <2>1, <2>2
  <2>. QED BY <2>3 DEF Bounded
<1>4. ASSUME NEW c \in P, S + w[c] <= L + k * (E + Overrun), c \in Q
      PROVE  Bounded(S, L, Q, n, v)
  <2>1. k * (E + Overrun) <= j * (E + Overrun)
    BY <1>1, <1>2, TimesMonotone
  <2>2. k * (E + Overrun) \in Int /\ j * (E + Overrun) \in Int
    BY <1>1, <1>2
  <2>3. S + v[c] <= L + j * (E + Overrun)
    BY <1>4, <2>1, <2>2
  <2>. QED BY <1>4, <2>3 DEF Bounded
<1>5. ASSUME NEW c \in P, S + w[c] <= L + k * (E + Overrun), c \notin Q
      PROVE  Bounded(S, L, Q, n, v)
  <2>1. k + 1 <= j
    <3>1. IsFiniteSet(P \ {c}) /\ Cardinality(P \ {c}) = Cardinality(P) - 1
      BY FS_RemoveElement
    <3>2. Q \in SUBSET (P \ {c})
      BY <1>5
    <3>3. Cardinality(Q) <= Cardinality(P) - 1
      BY <3>1, <3>2, FS_Subset
    <3>. QED BY <3>3, FS_CardinalityType, FS_Subset
  <2>2. S <= L + k * E + k * Overrun
    BY <1>1, <1>2, <1>5, TimesSuccessor
  <2>3. k * E <= (j - 1) * E /\ k * Overrun <= j * Overrun
    BY <1>1, <1>2, <2>1, TimesMonotone
  <2>4. /\ k * E \in Int /\ (j - 1) * E \in Int
        /\ k * Overrun \in Int /\ j * Overrun \in Int
    BY <1>1, <1>2
  <2>5. S <= L + (j - 1) * E + j * Overrun
    BY <2>2, <2>3, <2>4
  <2>. QED BY <2>5 DEF Bounded
<1>. QED BY <1>3, <1>4, <1>5 DEF Bounded

(* A client that is told w[c] while S + w[c] <= L establishes the bound.       *)
LEMMA BoundedEnter ==
  ASSUME NEW S \in Int, NEW L \in Int, NEW n \in Nat,
         NEW P, IsFiniteSet(P), Cardinality(P) <= n,
         NEW w, NEW c \in P, w[c] \in Int, S + w[c] <= L
  PROVE  Bounded(S, L, P, n, w)
<1>. DEFINE k == n - Cardinality(P)
<1>1. E \in Nat /\ Overrun \in Nat /\ k \in Int /\ 0 <= k
  BY CostliestBound, GatewayAssumption, FS_CardinalityType
<1>2. k * (E + Overrun) \in Int /\ 0 * (E + Overrun) <= k * (E + Overrun)
  BY <1>1, TimesMonotone
<1>3. S + w[c] <= L + k * (E + Overrun)
  BY <1>1, <1>2
<1>. QED BY <1>3 DEF Bounded

(* A charge within what its client was told keeps the bound.                   *)
LEMMA BoundedCharge ==
  ASSUME NEW S \in Int, NEW L \in Int, NEW n \in Nat,
         NEW P, IsFiniteSet(P), Cardinality(P) <= n, NEW d \in P,
         NEW w, NEW v, \A c \in P : w[c] \in Nat,
         \A c \in P \ {d} : v[c] = w[c],
         NEW usd \in Nat, usd <= w[d] + Overrun, usd <= E + Overrun,
         Bounded(S, L, P, n, w)
  PROVE  Bounded(S + usd, L, P \ {d}, n, v)
<1>. DEFINE k == n - Cardinality(P)
<1>1. E \in Nat /\ Overrun \in Nat /\ k \in Int
  BY CostliestBound, GatewayAssumption, FS_CardinalityType
<1>2. n - Cardinality(P \ {d}) = k + 1
  <2>1. Cardinality(P \ {d}) = Cardinality(P) - 1
    BY FS_RemoveElement
  <2>2. Cardinality(P) \in Nat
    BY FS_CardinalityType
  <2>. QED BY <2>1, <2>2
<1>3. /\ k * E \in Int /\ k * Overrun \in Int /\ k * (E + Overrun) \in Int
      /\ (k - 1) * E = k * E - E /\ (k + 1) * Overrun = k * Overrun + Overrun
      /\ (k + 1) * (E + Overrun) = k * (E + Overrun) + E + Overrun
      /\ k * (E + Overrun) = k * E + k * Overrun
  <2>. HIDE DEF k, E
  <2>1. k * E \in Int /\ k * Overrun \in Int /\ k * (E + Overrun) \in Int
    BY <1>1
  <2>2. (k - 1) * E = k * E - E
    BY <1>1, TimesSuccessor
  <2>3. (k + 1) * Overrun = k * Overrun + Overrun
    BY <1>1, TimesSuccessor
  <2>4. (k + 1) * (E + Overrun) = k * (E + Overrun) + E + Overrun
    <3>1. E + Overrun \in Nat
      BY <1>1
    <3>2. (k + 1) * (E + Overrun) = k * (E + Overrun) + (E + Overrun)
      BY <1>1, <3>1, TimesSuccessor
    <3>. QED BY <1>1, <2>1, <3>2
  <2>5. k * (E + Overrun) = k * E + k * Overrun
    BY <1>1, TimesSuccessor
  <2>. QED BY <2>1, <2>2, <2>3, <2>4, <2>5
<1>4. CASE S <= L + (k - 1) * E + k * Overrun
  <2>1. S + usd <= L + k * E + (k + 1) * Overrun
    BY <1>1, <1>3, <1>4
  <2>. QED BY <1>1, <1>2, <2>1 DEF Bounded
<1>5. CASE S + w[d] <= L + k * (E + Overrun)
  <2>1. S + usd <= L + k * E + (k + 1) * Overrun
    BY <1>1, <1>3, <1>5
  <2>. QED BY <1>1, <1>2, <2>1 DEF Bounded
<1>6. ASSUME NEW c \in P \ {d}, S + w[c] <= L + k * (E + Overrun)
      PROVE  Bounded(S + usd, L, P \ {d}, n, v)
  <2>1. S + usd + v[c] <= L + (k + 1) * (E + Overrun)
    BY <1>1, <1>3, <1>6
  <2>. QED BY <1>2, <1>6, <2>1 DEF Bounded
<1>. QED BY <1>4, <1>5, <1>6 DEF Bounded

(* What the bound says of the spend alone.                                     *)
LEMMA BoundedSpend ==
  ASSUME NEW S \in Int, NEW L \in Int, NEW n \in Nat,
         NEW P, IsFiniteSet(P), Cardinality(P) <= n,
         NEW w, \A c \in P : w[c] \in Nat,
         Bounded(S, L, P, n, w)
  PROVE  S <= L + ((n - 1) * E + n * Overrun)
<1>1. E \in Nat /\ Overrun \in Nat
  BY CostliestBound, GatewayAssumption
<1>2. {} \in SUBSET P /\ IsFiniteSet({}) /\ Cardinality({}) = 0
  BY FS_EmptySet
<1>3. Bounded(S, L, {}, n, w)
  BY <1>2, BoundedLeave
<1>4. S <= L + (n - 1) * E + n * Overrun
  BY <1>2, <1>3 DEF Bounded
<1>. QED BY <1>1, <1>4

-----------------------------------------------------------------------------
(* The inductive invariant.                                                    *)

RunPhases == {"read_day", "calling", "backoff", "charge_run"}
DayPhases == {"calling", "backoff", "charge_run", "charge_day"}
Fitted == DayPhases \cup {"exact_put", "semantic_put"}

\* Locals r are right for a request suspended in phase p.
Fine(p, r) ==
  /\ p # "idle" => r.plan # <<>>
  /\ r.depth <= Len(r.plan)
  /\ p \in Fitted => r.depth > 0
  /\ p = "backoff" => r.try < Retries
  /\ p \in DayPhases => /\ Estimate[Current(r)] <= r.seen
                        /\ Estimate[Current(r)] <= DayLimit
  /\ p \in {"charge_run", "charge_day"} => r.cost <= Estimate[Current(r)] + Overrun

\* Clients between reading the run's counter and adding to it.
AheadOfRun(r) == {c \in RunClients(r) : pc[c] \in RunPhases /\ req[c].seen >= 0}

\* Clients between being admitted for the day and adding to its counter.
AheadOfDay(w) == {c \in WorkflowClients(w) : pc[c] \in DayPhases}

Seen == [c \in Client |-> req[c].seen]
Due == [c \in Client |-> Estimate[Current(req[c])]]

Typed ==
  /\ TypeOK
  /\ \A m \in Model : Sound(breaker[m])
  /\ \A c \in Client : Fine(pc[c], req[c])

RunBounded ==
  \A c \in Client :
    LET r == RunOf[c]
    IN  Bounded(spentRun[r], RunLimit, AheadOfRun(r), Cardinality(RunClients(r)), Seen)

DayBounded ==
  \A c \in Client :
    LET w == WorkflowFor(c)
    IN  Bounded(spentDay[w], DayLimit, AheadOfDay(w), Cardinality(WorkflowClients(w)), Due)

Inv == Typed /\ RunBounded /\ DayBounded

-----------------------------------------------------------------------------

(* Clients are finitely many, and so are those ahead of any counter.           *)
LEMMA Group ==
  ASSUME NEW C \in SUBSET Client, NEW P \in SUBSET C
  PROVE  IsFiniteSet(P) /\ Cardinality(C) \in Nat /\ Cardinality(P) <= Cardinality(C)
<1>1. IsFiniteSet(C) /\ Cardinality(C) \in Nat
  BY GatewayAssumption, FS_Subset, FS_CardinalityType
<1>. QED BY <1>1, FS_Subset

LEMMA CurrentInPlan ==
  ASSUME NEW r \in RequestRecord, r.depth > 0, r.depth <= Len(r.plan)
  PROVE  Current(r) \in Model /\ Estimate[Current(r)] \in Nat /\ Estimate[Current(r)] <= E
<1>1. r.plan \in Seq(Model) /\ r.depth \in 1 .. Len(r.plan)
  BY LenProperties DEF RequestRecord
<1>2. Current(r) \in Model
  BY <1>1, ElementOfSeq DEF Current
<1>. QED BY <1>2, CostliestBound, GatewayAssumption

LEMMA SeenAndDue ==
  ASSUME Typed
  PROVE  /\ \A r : \A c \in AheadOfRun(r) : c \in Client /\ Seen[c] = req[c].seen /\ Seen[c] \in Nat
         /\ \A w : \A c \in AheadOfDay(w) : c \in Client /\ Due[c] = Estimate[Current(req[c])] /\ Due[c] \in Nat
<1>1. ASSUME NEW r, NEW c \in AheadOfRun(r)
      PROVE  c \in Client /\ Seen[c] = req[c].seen /\ Seen[c] \in Nat
  BY DEF AheadOfRun, RunClients, Seen, Typed, TypeOK, RequestRecord
<1>2. ASSUME NEW w, NEW c \in AheadOfDay(w)
      PROVE  c \in Client /\ Due[c] = Estimate[Current(req[c])] /\ Due[c] \in Nat
  <2>1. c \in Client /\ Due[c] = Estimate[Current(req[c])] /\ pc[c] \in DayPhases
    BY DEF Due, AheadOfDay, WorkflowClients
  <2>2. req[c] \in RequestRecord /\ req[c].depth <= Len(req[c].plan) /\ req[c].depth > 0
    BY <2>1 DEF Typed, TypeOK, Fine, Fitted
  <2>. QED BY <2>1, <2>2, CurrentInPlan
<1>. QED BY <1>1, <1>2

-----------------------------------------------------------------------------
(* A step of one request: it moves to phase p with locals r.                   *)

Local(c, p, r) ==
  /\ pc' = [pc EXCEPT ![c] = p]
  /\ req' = [req EXCEPT ![c] = r]

LEMMA LocalTyped ==
  ASSUME Typed, NEW c \in Client,
         NEW p \in Awaiting \cup {"idle"}, NEW r \in RequestRecord, Fine(p, r), Local(c, p, r),
         spentRun' \in [Run -> Nat], spentDay' \in [Workflow -> Nat], billed' \in [Run -> Nat],
         breaker' \in [Model -> BreakerRecord], \A m \in Model : Sound(breaker'[m]),
         exact' \in SUBSET Key, semantic' \in SUBSET Key, interrupted' \in BOOLEAN
  PROVE  Typed'
<1>1. pc' \in [Client -> Awaiting \cup {"idle"}] /\ req' \in [Client -> RequestRecord]
  BY DEF Typed, TypeOK, Local
<1>2. TypeOK'
  BY <1>1 DEF TypeOK
<1>3. \A d \in Client : Fine(pc'[d], req'[d])
  BY DEF Typed, TypeOK, Local
<1>. QED BY <1>2, <1>3 DEF Typed

(* Such a step keeps the run's bound: the request does not come closer to its  *)
(* charge, or it has just read the counter.                                    *)
LEMMA LocalRun ==
  ASSUME Typed, RunBounded, NEW c \in Client, NEW p, NEW r \in RequestRecord, Local(c, p, r),
         spentRun' = spentRun,
         p \in RunPhases /\ r.seen >= 0 =>
           \/ pc[c] \in RunPhases /\ r.seen = req[c].seen
           \/ r.seen <= RunLimit - spentRun[RunOf[c]]
  PROVE  RunBounded'
<1>. SUFFICES ASSUME NEW d \in Client
              PROVE  LET q == RunOf[d]
                     IN  Bounded(spentRun[q], RunLimit, AheadOfRun(q)',
                                 Cardinality(RunClients(q)), Seen')
  BY DEF RunBounded, RunClients
<1>. DEFINE q == RunOf[d]
            S == spentRun[q]
            n == Cardinality(RunClients(q))
            P == AheadOfRun(q)
            Q == AheadOfRun(q)'
<1>1. S \in Nat /\ RunLimit \in Nat /\ q \in Run
  BY GatewayAssumption DEF Typed, TypeOK
<1>2. RunClients(q) \in SUBSET Client /\ P \in SUBSET RunClients(q) /\ Q \in SUBSET RunClients(q)
  BY DEF RunClients, AheadOfRun
<1>3. IsFiniteSet(P) /\ IsFiniteSet(Q) /\ n \in Nat /\ Cardinality(P) <= n /\ Cardinality(Q) <= n
  BY <1>2, Group
<1>4. Bounded(S, RunLimit, P, n, Seen)
  BY DEF RunBounded
<1>5. \A x \in P : Seen[x] \in Nat
  BY SeenAndDue
<1>6. \A x \in Client : /\ Seen'[x] = IF x = c THEN r.seen ELSE Seen[x]
                        /\ x # c => pc'[x] = pc[x] /\ req'[x] = req[x]
  BY DEF Seen, Local, Typed, TypeOK
<1>7. pc'[c] = p /\ req'[c] = r /\ r.seen \in Int
  BY DEF Local, Typed, TypeOK, RequestRecord
<1>8. CASE c \in Q /\ r.seen <= RunLimit - S
  <2>1. Seen'[c] = r.seen /\ S + r.seen <= RunLimit
    BY <1>1, <1>6, <1>7, <1>8
  <2>. QED BY <1>1, <1>3, <1>7, <1>8, <2>1, BoundedEnter
<1>9. CASE ~(c \in Q /\ r.seen <= RunLimit - S)
  <2>1. Q \in SUBSET P /\ \A x \in Q : Seen'[x] = Seen[x]
    <3>. SUFFICES ASSUME NEW x \in Q PROVE x \in P /\ Seen'[x] = Seen[x]
      OBVIOUS
    <3>1. CASE x = c
      <4>1. RunOf[c] = q /\ p \in RunPhases /\ r.seen >= 0
        BY <1>7, <3>1 DEF AheadOfRun, RunClients
      <4>2. pc[c] \in RunPhases /\ r.seen = req[c].seen
        BY <1>9, <3>1, <4>1
      <4>. QED BY <1>6, <3>1, <4>1, <4>2 DEF AheadOfRun, RunClients, Seen
    <3>2. CASE x # c
      BY <1>2, <1>6, <3>2 DEF AheadOfRun, RunClients
    <3>. QED BY <3>1, <3>2
  <2>. QED BY <1>1, <1>3, <1>4, <1>5, <2>1, BoundedLeave
<1>. QED BY <1>8, <1>9

(* And the day's: the request keeps its model, or it has just been admitted.   *)
LEMMA LocalDay ==
  ASSUME Typed, DayBounded, NEW c \in Client, NEW p, NEW r \in RequestRecord, Local(c, p, r),
         Fine(p, r), spentDay' = spentDay,
         p \in DayPhases =>
           \/ pc[c] \in DayPhases /\ Current(r) = Current(req[c])
           \/ Estimate[Current(r)] <= DayLimit - spentDay[WorkflowFor(c)]
  PROVE  DayBounded'
<1>. SUFFICES ASSUME NEW d \in Client
              PROVE  LET w == WorkflowFor(d)
                     IN  Bounded(spentDay[w], DayLimit, AheadOfDay(w)',
                                 Cardinality(WorkflowClients(w)), Due')
  BY DEF DayBounded, WorkflowClients, WorkflowFor
<1>. DEFINE w == WorkflowFor(d)
            S == spentDay[w]
            n == Cardinality(WorkflowClients(w))
            P == AheadOfDay(w)
            Q == AheadOfDay(w)'
<1>1. S \in Nat /\ DayLimit \in Nat
  <2>1. w \in Workflow
    BY GatewayAssumption DEF WorkflowFor
  <2>. QED BY <2>1, GatewayAssumption DEF Typed, TypeOK
<1>2. /\ WorkflowClients(w) \in SUBSET Client
      /\ P \in SUBSET WorkflowClients(w) /\ Q \in SUBSET WorkflowClients(w)
  BY DEF WorkflowClients, AheadOfDay
<1>3. IsFiniteSet(P) /\ IsFiniteSet(Q) /\ n \in Nat /\ Cardinality(P) <= n /\ Cardinality(Q) <= n
  BY <1>2, Group
<1>4. Bounded(S, DayLimit, P, n, Due)
  BY DEF DayBounded
<1>5. \A x \in P : Due[x] \in Nat
  BY SeenAndDue
<1>6. \A x \in Client : /\ Due'[x] = IF x = c THEN Estimate[Current(r)] ELSE Due[x]
                        /\ x # c => pc'[x] = pc[x] /\ req'[x] = req[x]
  BY DEF Due, Current, Local, Typed, TypeOK
<1>7. pc'[c] = p /\ req'[c] = r
  BY DEF Local, Typed, TypeOK
<1>8. CASE c \in Q /\ Estimate[Current(r)] <= DayLimit - S
  <2>1. p \in DayPhases
    BY <1>7, <1>8 DEF AheadOfDay
  <2>2. Estimate[Current(r)] \in Nat
    BY <2>1, CurrentInPlan DEF Fine, Fitted
  <2>3. Due'[c] = Estimate[Current(r)] /\ S + Due'[c] <= DayLimit
    BY <1>1, <1>6, <1>8, <2>2
  <2>. QED BY <1>1, <1>3, <1>8, <2>2, <2>3, BoundedEnter
<1>9. CASE ~(c \in Q /\ Estimate[Current(r)] <= DayLimit - S)
  <2>1. Q \in SUBSET P /\ \A x \in Q : Due'[x] = Due[x]
    <3>. SUFFICES ASSUME NEW x \in Q PROVE x \in P /\ Due'[x] = Due[x]
      OBVIOUS
    <3>1. CASE x = c
      <4>1. WorkflowFor(c) = w /\ p \in DayPhases
        BY <1>7, <3>1 DEF AheadOfDay, WorkflowClients
      <4>2. pc[c] \in DayPhases /\ Current(r) = Current(req[c])
        BY <1>9, <3>1, <4>1
      <4>. QED BY <1>6, <3>1, <4>1, <4>2 DEF AheadOfDay, WorkflowClients, Due
    <3>2. CASE x # c
      BY <1>2, <1>6, <3>2 DEF AheadOfDay, WorkflowClients
    <3>. QED BY <3>1, <3>2
  <2>. QED BY <1>1, <1>3, <1>4, <1>5, <2>1, BoundedLeave
<1>. QED BY <1>8, <1>9

\* What a request's own step may do to its phase and its locals.
Allowed(c, p, r) ==
  /\ p \in Awaiting \cup {"idle"}
  /\ r \in RequestRecord
  /\ Fine(p, r)
  /\ p \in RunPhases /\ r.seen >= 0 =>
       \/ pc[c] \in RunPhases /\ r.seen = req[c].seen
       \/ r.seen <= RunLimit - spentRun[RunOf[c]]
  /\ p \in DayPhases =>
       \/ pc[c] \in DayPhases /\ Current(r) = Current(req[c])
       \/ Estimate[Current(r)] <= DayLimit - spentDay[WorkflowFor(c)]

LEMMA LocalInv ==
  ASSUME Inv, NEW c \in Client, NEW p, NEW r, Local(c, p, r), Allowed(c, p, r),
         UNCHANGED budgets, billed' \in [Run -> Nat],
         breaker' \in [Model -> BreakerRecord], \A m \in Model : Sound(breaker'[m]),
         exact' \in SUBSET Key, semantic' \in SUBSET Key, interrupted' \in BOOLEAN
  PROVE  Inv'
<1>1. spentRun' = spentRun /\ spentDay' = spentDay
  BY DEF budgets
<1>2. spentRun' \in [Run -> Nat] /\ spentDay' \in [Workflow -> Nat]
  BY <1>1 DEF Inv, Typed, TypeOK
<1>3. Typed'
  BY <1>2, LocalTyped DEF Inv, Allowed
<1>4. RunBounded'
  BY <1>1, LocalRun DEF Inv, Allowed
<1>5. DayBounded'
  BY <1>1, LocalDay DEF Inv, Allowed
<1>. QED BY <1>3, <1>4, <1>5 DEF Inv

-----------------------------------------------------------------------------
(* Suspend, Finish, NextModel and Attempt are such steps.                      *)

LEMMA NoRequestFine == NoRequest \in RequestRecord /\ Fine("idle", NoRequest)
<1>1. <<>> \in Seq(Model) /\ Len(<<>>) = 0
  BY EmptySeq
<1>. QED
  BY <1>1, GatewayAssumption DEF NoRequest, RequestRecord, Fine, Fitted, DayPhases

LEMMA IdleAllowed ==
  ASSUME NEW c \in Client
  PROVE  Allowed(c, "idle", NoRequest)
BY NoRequestFine DEF Allowed, RunPhases, DayPhases

LEMMA FinishLocal ==
  ASSUME Inv, NEW c \in Client, NEW usd \in Nat, Finish(c, usd)
  PROVE  /\ Local(c, "idle", NoRequest)
         /\ billed' \in [Run -> Nat] /\ interrupted' \in BOOLEAN
<1>1. Local(c, "idle", NoRequest)
  BY DEF Finish, Local
<1>2. RunOf[c] \in Run /\ billed \in [Run -> Nat] /\ interrupted \in BOOLEAN
  BY GatewayAssumption DEF Inv, Typed, TypeOK
<1>3. billed' = billed \/ billed' = [billed EXCEPT ![RunOf[c]] = @ + usd]
  BY DEF Finish
<1>4. billed' \in [Run -> Nat]
  BY <1>2, <1>3
<1>5. interrupted' \in BOOLEAN
  BY <1>2 DEF Finish
<1>. QED BY <1>1, <1>4, <1>5

LEMMA SuspendLocal ==
  ASSUME Inv, NEW c \in Client, NEW p, NEW r, Suspend(c, p, r)
  PROVE  /\ Local(c, p, r)
         /\ billed' \in [Run -> Nat] /\ interrupted' \in BOOLEAN
BY DEF Suspend, Local, Inv, Typed, TypeOK

\* A request ends, or waits as Allowed says.
LEMMA FinishInv ==
  ASSUME Inv, NEW c \in Client, NEW usd \in Nat, Finish(c, usd), UNCHANGED budgets,
         breaker' \in [Model -> BreakerRecord], \A m \in Model : Sound(breaker'[m]),
         exact' \in SUBSET Key, semantic' \in SUBSET Key
  PROVE  Inv'
BY FinishLocal, IdleAllowed, LocalInv

LEMMA SuspendInv ==
  ASSUME Inv, NEW c \in Client, NEW p, NEW r, Suspend(c, p, r), Allowed(c, p, r),
         UNCHANGED budgets,
         breaker' \in [Model -> BreakerRecord], \A m \in Model : Sound(breaker'[m]),
         exact' \in SUBSET Key, semantic' \in SUBSET Key
  PROVE  Inv'
BY SuspendLocal, LocalInv

LEMMA NextModelInv ==
  ASSUME Inv, NEW c \in Client, NEW r \in RequestRecord,
         r.plan # <<>>, r.depth <= Len(r.plan), NextModel(c, r), UNCHANGED budgets,
         breaker' \in [Model -> BreakerRecord], \A m \in Model : Sound(breaker'[m]),
         exact' \in SUBSET Key, semantic' \in SUBSET Key
  PROVE  Inv'
<1>1. CASE r.depth < Len(r.plan)
  <2>. DEFINE next == [r EXCEPT !.depth = @ + 1, !.try = 0]
  <2>1. Suspend(c, "read_run", next)
    BY <1>1 DEF NextModel
  <2>2. /\ next \in RequestRecord
        /\ next.plan = r.plan /\ next.depth = r.depth + 1
    <3>1. 0 \in 0 .. Retries /\ r.depth + 1 \in Nat
      BY GatewayAssumption DEF RequestRecord
    <3>. QED BY <3>1 DEF RequestRecord
  <2>3. Len(r.plan) \in Nat /\ r.depth \in Nat
    BY LenProperties DEF RequestRecord
  <2>. HIDE DEF next
  <2>4. Allowed(c, "read_run", next)
    BY <1>1, <2>2, <2>3 DEF Allowed, Fine, Awaiting, RunPhases, DayPhases, Fitted
  <2>. QED BY <2>1, <2>4, SuspendInv
<1>2. CASE ~ r.depth < Len(r.plan)
  <2>1. Finish(c, 0)
    BY <1>2 DEF NextModel
  <2>. QED BY <2>1, FinishInv
<1>. QED BY <1>1, <1>2

(* A method of one breaker keeps every breaker sound.                          *)
LEMMA BreakerMoves ==
  ASSUME Inv, NEW m \in Model, NEW b, Sound(b), breaker' = [breaker EXCEPT ![m] = b]
  PROVE  breaker' \in [Model -> BreakerRecord] /\ \A n \in Model : Sound(breaker'[n])
<1>1. b \in BreakerRecord
  BY DEF Sound
<1>. QED BY <1>1 DEF Inv, Typed, TypeOK

LEMMA BreakerStays ==
  ASSUME Inv, UNCHANGED breaker
  PROVE  breaker' \in [Model -> BreakerRecord] /\ \A n \in Model : Sound(breaker'[n])
BY DEF Inv, Typed, TypeOK

LEMMA CachesStay ==
  ASSUME Inv, UNCHANGED caches
  PROVE  exact' \in SUBSET Key /\ semantic' \in SUBSET Key
BY DEF Inv, Typed, TypeOK, caches

LEMMA AttemptInv ==
  ASSUME Inv, NEW c \in Client, NEW r, Allowed(c, "calling", r), Attempt(c, r),
         UNCHANGED <<budgets, caches>>
  PROVE  Inv'
<1>1. exact' \in SUBSET Key /\ semantic' \in SUBSET Key /\ UNCHANGED budgets
  BY CachesStay
<1>2. /\ r \in RequestRecord /\ r.plan # <<>> /\ r.depth <= Len(r.plan) /\ r.depth > 0
  BY DEF Allowed, Fine, Fitted, DayPhases
<1>3. Current(r) \in Model
  BY <1>2, CurrentInPlan
<1>4. CASE Current(r) \in Adapted
  <2>1. Sound(breaker[Current(r)])
    BY <1>3 DEF Inv, Typed
  <2>2. Sound(AfterAllow(breaker[Current(r)]))
    BY <2>1, AfterAllowSound
  <2>3. breaker' = [breaker EXCEPT ![Current(r)] = AfterAllow(breaker[Current(r)])]
    BY <1>4 DEF Attempt
  <2>4. breaker' \in [Model -> BreakerRecord] /\ \A m \in Model : Sound(breaker'[m])
    BY <1>3, <2>2, <2>3, BreakerMoves
  <2>5. Suspend(c, "calling", r) \/ NextModel(c, r)
    BY <1>4 DEF Attempt
  <2>. QED BY <1>1, <1>2, <2>4, <2>5, SuspendInv, NextModelInv
<1>5. CASE Current(r) \notin Adapted
  <2>1. NextModel(c, r) /\ UNCHANGED breaker
    BY <1>5 DEF Attempt
  <2>. QED BY <1>1, <1>2, <2>1, BreakerStays, NextModelInv
<1>. QED BY <1>4, <1>5

(* The plan fitted to a budget that covers one of its models starts with a     *)
(* model it covers.                                                            *)
LEMMA FittedPlanFits ==
  ASSUME NEW plan \in Seq(Model), NEW remaining \in Int,
         \E i \in DOMAIN plan : Estimate[plan[i]] <= remaining,
         NEW models \in FittedPlans(plan, remaining)
  PROVE  models \in Seq(Model) /\ Len(models) > 0 /\ Estimate[models[1]] <= remaining
<1>. DEFINE fitting == {i \in DOMAIN plan : Estimate[plan[i]] <= remaining}
            size == Cardinality(fitting)
<1>1. Len(plan) \in Nat /\ DOMAIN plan = 1 .. Len(plan) /\ plan \in [1 .. Len(plan) -> Model]
  BY LenProperties
<1>2. CASE Estimate[plan[1]] <= remaining
  <2>1. models = plan
    BY <1>2 DEF FittedPlans
  <2>. QED BY <1>1, <1>2, <2>1
<1>3. CASE ~ Estimate[plan[1]] <= remaining
  <2>1. size \in Nat /\ size > 0
    <3>1. IsFiniteSet(1 .. Len(plan)) /\ fitting \in SUBSET (1 .. Len(plan))
      BY <1>1, FS_Interval
    <3>2. IsFiniteSet(fitting) /\ fitting # {}
      BY <3>1, FS_Subset
    <3>. HIDE DEF fitting
    <3>3. size \in Nat /\ size # 0
      BY <3>2, FS_CardinalityType, FS_EmptySet
    <3>. QED BY <3>3
  <2>2. PICK rank \in [1 .. size -> fitting] : models = [i \in 1 .. size |-> plan[rank[i]]]
    BY <1>3 DEF FittedPlans
  <2>3. models \in [1 .. size -> Model]
    BY <1>1, <2>2
  <2>4. models \in Seq(Model)
    BY <2>1, <2>3, SeqDef
  <2>5. Len(models) = size
    BY <2>1, <2>3, <2>4, LenProperties
  <2>6. rank[1] \in fitting /\ models[1] = plan[rank[1]]
    BY <2>1, <2>2
  <2>. QED BY <2>1, <2>4, <2>5, <2>6
<1>. QED BY <1>2, <1>3

-----------------------------------------------------------------------------
(* One lemma for each action.                                                  *)

\* Nothing is spent and nobody is ahead of the counter.
LEMMA BoundedUnspent ==
  ASSUME NEW C \in SUBSET Client, NEW c \in C, NEW L \in Nat, NEW w
  PROVE  Bounded(0, L, {}, Cardinality(C), w)
<1>. DEFINE n == Cardinality(C)
<1>1. IsFiniteSet(C) /\ C # {}
  BY GatewayAssumption, FS_Subset
<1>2. n \in Nat /\ n # 0 /\ Cardinality({}) = 0
  BY <1>1, FS_CardinalityType, FS_EmptySet
<1>. HIDE DEF n
<1>3. E \in Nat /\ Overrun \in Nat /\ n - 1 \in Int /\ 0 <= n - 1 /\ 0 <= n
  BY <1>2, CostliestBound, GatewayAssumption
<1>4. /\ 0 * E <= (n - 1) * E /\ (n - 1) * E \in Int
      /\ 0 * Overrun <= n * Overrun /\ n * Overrun \in Int
  BY <1>2, <1>3, TimesMonotone
<1>5. 0 <= L + (n - 1) * E + n * Overrun
  BY <1>3, <1>4
<1>6. n - Cardinality({}) = n
  BY <1>2
<1>. QED BY <1>5, <1>6 DEF Bounded, n

LEMMA InitInv == Init => Inv
<1>. SUFFICES ASSUME Init PROVE Inv
  OBVIOUS
<1>. USE DEF Init
<1>1. NoRequest \in RequestRecord /\ Fine("idle", NoRequest)
  BY NoRequestFine
<1>2. Sound(NewBreaker) /\ NewBreaker \in BreakerRecord
  BY NewBreakerSound DEF Sound
<1>3. Typed
  BY <1>1, <1>2 DEF Typed, TypeOK
<1>4. \A c \in Client : spentRun[RunOf[c]] = 0 /\ spentDay[WorkflowFor(c)] = 0
  BY GatewayAssumption DEF WorkflowFor
<1>5. \A r : AheadOfRun(r) = {}
  BY DEF AheadOfRun, RunClients, RunPhases
<1>6. \A w : AheadOfDay(w) = {}
  BY DEF AheadOfDay, WorkflowClients, DayPhases
<1>7. ASSUME NEW c \in Client
      PROVE  /\ c \in RunClients(RunOf[c]) /\ RunClients(RunOf[c]) \in SUBSET Client
             /\ c \in WorkflowClients(WorkflowFor(c))
             /\ WorkflowClients(WorkflowFor(c)) \in SUBSET Client
  BY DEF RunClients, WorkflowClients
<1>8. RunBounded
  <2>. SUFFICES ASSUME NEW c \in Client
                PROVE  Bounded(0, RunLimit, {}, Cardinality(RunClients(RunOf[c])), Seen)
    BY <1>4, <1>5 DEF RunBounded
  <2>. QED BY <1>7, BoundedUnspent, GatewayAssumption
<1>9. DayBounded
  <2>. SUFFICES ASSUME NEW c \in Client
                PROVE  Bounded(0, DayLimit, {}, Cardinality(WorkflowClients(WorkflowFor(c))), Due)
    BY <1>4, <1>6 DEF DayBounded
  <2>. QED BY <1>7, BoundedUnspent, GatewayAssumption
<1>. QED BY <1>3, <1>8, <1>9 DEF Inv

\* Up to the first look at the budget nothing is promised.
LEMMA EarlyAllowed ==
  ASSUME Inv, NEW c \in Client, NEW r \in RequestRecord, r.plan # <<>>, r.depth <= Len(r.plan),
         NEW p \in {"limiter", "exact_get", "semantic_get", "read_run"}
  PROVE  Allowed(c, p, r)
BY DEF Allowed, Fine, Awaiting, RunPhases, DayPhases, Fitted

LEMMA Locals ==
  ASSUME Inv, NEW c \in Client
  PROVE  /\ req[c] \in RequestRecord /\ Fine(pc[c], req[c])
         /\ req[c].depth <= Len(req[c].plan)
         /\ pc[c] # "idle" => req[c].plan # <<>>
         /\ RunOf[c] \in Run /\ spentRun[RunOf[c]] \in Nat
         /\ WorkflowFor(c) \in Workflow /\ spentDay[WorkflowFor(c)] \in Nat
<1>1. req[c] \in RequestRecord /\ Fine(pc[c], req[c])
  BY DEF Inv, Typed, TypeOK
<1>2. RunOf[c] \in Run /\ WorkflowFor(c) \in Workflow
  BY GatewayAssumption DEF WorkflowFor
<1>3. spentRun[RunOf[c]] \in Nat /\ spentDay[WorkflowFor(c)] \in Nat
  BY <1>2 DEF Inv, Typed, TypeOK
<1>. QED BY <1>1, <1>2, <1>3 DEF Fine

LEMMA ArriveInv == ASSUME Inv, NEW c \in Client, Arrive(c) PROVE Inv'
<1>1. PICK models \in Plans : Suspend(c, "limiter", [NoRequest EXCEPT !.plan = models])
  BY DEF Arrive
<1>. DEFINE r == [NoRequest EXCEPT !.plan = models]
<1>2. models \in Seq(Model) /\ models # <<>> /\ Len(models) \in Nat
  BY GatewayAssumption, LenProperties
<1>3. r \in RequestRecord /\ r.plan = models /\ r.depth = 0
  BY <1>2, NoRequestFine DEF RequestRecord, NoRequest
<1>. HIDE DEF r
<1>4. Suspend(c, "limiter", r)
  BY <1>1 DEF r
<1>. QED
  BY <1>2, <1>3, <1>4, EarlyAllowed, SuspendInv, BreakerStays, CachesStay DEF Arrive

LEMMA EarlyInv ==
  ASSUME Inv, NEW c \in Client, Acquire(c) \/ LookupExact(c) \/ LookupSemantic(c)
  PROVE  Inv'
<1>1. UNCHANGED budgets /\ UNCHANGED breaker /\ UNCHANGED caches /\ pc[c] # "idle"
  BY DEF Acquire, LookupExact, LookupSemantic
<1>2. \/ Finish(c, 0)
      \/ \E p \in {"exact_get", "semantic_get", "read_run"} : Suspend(c, p, req[c])
  BY DEF Acquire, LookupExact, LookupSemantic, ServeCached
<1>. QED
  BY <1>1, <1>2, Locals, EarlyAllowed, FinishInv, SuspendInv, BreakerStays, CachesStay

LEMMA ReadRunInv == ASSUME Inv, NEW c \in Client, ReadRun(c) PROVE Inv'
<1>. DEFINE r == [req[c] EXCEPT !.seen = RunLimit - spentRun[RunOf[c]]]
<1>1. Suspend(c, "read_day", r) /\ UNCHANGED budgets /\ UNCHANGED breaker /\ UNCHANGED caches
  BY DEF ReadRun
<1>2. /\ r \in RequestRecord /\ r.plan = req[c].plan /\ r.depth = req[c].depth
      /\ r.seen = RunLimit - spentRun[RunOf[c]]
  <2>1. RunLimit - spentRun[RunOf[c]] \in Int
    BY Locals, GatewayAssumption
  <2>. QED BY <2>1, Locals DEF RequestRecord
<1>. HIDE DEF r
<1>3. r.plan # <<>> /\ r.depth <= Len(r.plan)
  BY <1>2, Locals DEF ReadRun
<1>4. r.seen <= RunLimit - spentRun[RunOf[c]]
  BY <1>2, Locals, GatewayAssumption
<1>5. Allowed(c, "read_day", r)
  BY <1>2, <1>3, <1>4 DEF Allowed, Fine, Awaiting, DayPhases, Fitted
<1>. QED BY <1>1, <1>5, SuspendInv, BreakerStays, CachesStay

\* remaining() is the smaller of the two.
LEMMA RemainingIsLess ==
  ASSUME Inv, NEW c \in Client
  PROVE  /\ Remaining(c) \in Int /\ Remaining(c) <= req[c].seen
         /\ Remaining(c) <= DayLimit - spentDay[WorkflowFor(c)]
         /\ Remaining(c) <= DayLimit
<1>1. req[c].seen \in Int
  BY Locals DEF RequestRecord
<1>2. DayLimit \in Nat /\ spentDay[WorkflowFor(c)] \in Nat
  BY Locals, GatewayAssumption
<1>. DEFINE spent == spentDay[WorkflowFor(c)]
            seen == req[c].seen
<1>3. Remaining(c) = IF seen <= DayLimit - spent THEN seen ELSE DayLimit - spent
  BY DEF Remaining
<1>. HIDE DEF spent, seen
<1>. QED
  <2>1. seen \in Int /\ DayLimit \in Nat /\ spent \in Nat
    BY <1>1, <1>2 DEF seen, spent
  <2>2. Remaining(c) \in Int /\ Remaining(c) <= seen /\ Remaining(c) <= DayLimit - spent
    BY <1>3, <2>1
  <2>3. Remaining(c) <= DayLimit
    BY <2>1, <2>2
  <2>. QED BY <2>2, <2>3 DEF seen, spent

\* A model within Remaining may be called.
LEMMA AdmittedAllowed ==
  ASSUME Inv, NEW c \in Client, pc[c] = "read_day",
         NEW r \in RequestRecord, r.plan # <<>>, r.depth > 0, r.depth <= Len(r.plan),
         r.seen = req[c].seen, Estimate[Current(r)] <= Remaining(c)
  PROVE  Allowed(c, "calling", r)
<1>1. Estimate[Current(r)] \in Nat /\ req[c].seen \in Int
  BY CurrentInPlan, Locals DEF RequestRecord
<1>2. /\ Estimate[Current(r)] <= r.seen /\ Estimate[Current(r)] <= DayLimit
      /\ Estimate[Current(r)] <= DayLimit - spentDay[WorkflowFor(c)]
  BY <1>1, RemainingIsLess, Locals, GatewayAssumption
<1>. QED BY <1>2 DEF Allowed, Fine, Awaiting, RunPhases, DayPhases, Fitted

LEMMA FitBudgetInv == ASSUME Inv, NEW c \in Client, FitBudget(c) PROVE Inv'
<1>1. /\ pc[c] = "read_day" /\ req[c] \in RequestRecord /\ req[c].plan \in Seq(Model)
      /\ UNCHANGED budgets /\ UNCHANGED caches
  BY Locals DEF FitBudget, RequestRecord
<1>2. CASE \A i \in DOMAIN req[c].plan : Estimate[req[c].plan[i]] > Remaining(c)
  <2>1. Finish(c, 0) /\ UNCHANGED breaker
    BY <1>2 DEF FitBudget
  <2>. QED BY <1>1, <2>1, FinishInv, BreakerStays, CachesStay
<1>3. CASE ~ \A i \in DOMAIN req[c].plan : Estimate[req[c].plan[i]] > Remaining(c)
  <2>1. PICK models \in FittedPlans(req[c].plan, Remaining(c)) :
               Attempt(c, [req[c] EXCEPT !.plan = models, !.depth = 1])
    BY <1>3 DEF FitBudget
  <2>2. \E i \in DOMAIN req[c].plan : Estimate[req[c].plan[i]] <= Remaining(c)
    <3>1. \A i \in DOMAIN req[c].plan : Estimate[req[c].plan[i]] \in Nat
      BY <1>1, ElementOfSeq, LenProperties, GatewayAssumption
    <3>. QED BY <1>3, <3>1, RemainingIsLess
  <2>3. models \in Seq(Model) /\ Len(models) > 0 /\ Estimate[models[1]] <= Remaining(c)
    BY <1>1, <2>2, FittedPlanFits, RemainingIsLess
  <2>. DEFINE r == [req[c] EXCEPT !.plan = models, !.depth = 1]
  <2>4. /\ r \in RequestRecord /\ r.plan = models /\ r.depth = 1 /\ r.seen = req[c].seen
    BY <1>1, <2>3 DEF RequestRecord
  <2>. HIDE DEF r
  <2>5. r.plan # <<>> /\ r.depth <= Len(r.plan) /\ Current(r) = models[1]
    BY <2>3, <2>4, LenProperties, EmptySeq DEF Current
  <2>6. Allowed(c, "calling", r)
    BY <1>1, <2>3, <2>4, <2>5, AdmittedAllowed
  <2>. QED BY <1>1, <2>1, <2>6, AttemptInv DEF r
<1>. QED BY <1>2, <1>3

LEMMA CheckFallbackInv == ASSUME Inv, NEW c \in Client, CheckFallback(c) PROVE Inv'
<1>1. /\ pc[c] = "read_day" /\ req[c] \in RequestRecord /\ req[c].plan # <<>>
      /\ req[c].depth > 0 /\ req[c].depth <= Len(req[c].plan)
      /\ UNCHANGED budgets /\ UNCHANGED caches
  BY Locals DEF CheckFallback
<1>2. CASE Estimate[Current(req[c])] > Remaining(c)
  BY <1>1, <1>2, NextModelInv, BreakerStays, CachesStay DEF CheckFallback
<1>3. CASE ~ Estimate[Current(req[c])] > Remaining(c)
  <2>1. Estimate[Current(req[c])] <= Remaining(c)
    BY <1>1, <1>3, CurrentInPlan, RemainingIsLess
  <2>2. Allowed(c, "calling", req[c])
    BY <1>1, <2>1, AdmittedAllowed
  <2>. QED BY <1>1, <1>3, <2>2, AttemptInv DEF CheckFallback
<1>. QED BY <1>2, <1>3

LEMMA FailInv == ASSUME Inv, NEW c \in Client, Fail(c) PROVE Inv'
<1>. DEFINE m == Current(req[c])
<1>1. /\ pc[c] = "calling" /\ req[c] \in RequestRecord /\ req[c].plan # <<>>
      /\ req[c].depth > 0 /\ req[c].depth <= Len(req[c].plan)
      /\ UNCHANGED budgets /\ UNCHANGED caches
  BY Locals DEF Fail, Fine, Fitted, DayPhases
<1>2. m \in Model
  BY <1>1, CurrentInPlan
<1>3. Sound(Refresh(AfterFailure(breaker[m])))
  <2>1. Sound(breaker[m])
    BY <1>2 DEF Inv, Typed
  <2>. QED BY <2>1, AfterFailureSound, RefreshSound
<1>4. breaker' = [breaker EXCEPT ![m] = Refresh(AfterFailure(breaker[m]))]
  BY DEF Fail
<1>5. breaker' \in [Model -> BreakerRecord] /\ \A n \in Model : Sound(breaker'[n])
  BY <1>2, <1>3, <1>4, BreakerMoves
<1>6. CASE req[c].try < Retries /\ Suspend(c, "backoff", req[c])
  <2>1. Allowed(c, "backoff", req[c])
    BY <1>1, <1>6, Locals DEF Allowed, Fine, Awaiting, RunPhases, DayPhases, Fitted
  <2>. QED BY <1>1, <1>5, <1>6, <2>1, SuspendInv, CachesStay
<1>7. CASE NextModel(c, req[c])
  BY <1>1, <1>5, <1>7, NextModelInv, CachesStay
<1>. QED BY <1>6, <1>7 DEF Fail

LEMMA RetryInv == ASSUME Inv, NEW c \in Client, Retry(c) PROVE Inv'
<1>. DEFINE r == [req[c] EXCEPT !.try = @ + 1]
<1>1. /\ pc[c] = "backoff" /\ req[c] \in RequestRecord /\ req[c].try < Retries
      /\ UNCHANGED <<budgets, caches>> /\ Attempt(c, r) /\ Fine("backoff", req[c])
  BY Locals DEF Retry, Fine
<1>2. /\ r \in RequestRecord /\ r.plan = req[c].plan /\ r.depth = req[c].depth
      /\ r.seen = req[c].seen
  <2>1. req[c].try + 1 \in 0 .. Retries
    BY <1>1, GatewayAssumption DEF RequestRecord
  <2>. QED BY <1>1, <2>1 DEF RequestRecord
<1>. HIDE DEF r
<1>3. Current(r) = Current(req[c])
  BY <1>2 DEF Current
<1>4. Allowed(c, "calling", r)
  BY <1>1, <1>2, <1>3 DEF Allowed, Fine, Awaiting, RunPhases, DayPhases, Fitted
<1>. QED BY <1>1, <1>4, AttemptInv

\* The recorder and the exact cache, or the end of the request.
LEMMA AfterChargeLocal ==
  ASSUME Inv, NEW c \in Client, NEW r \in RequestRecord,
         r.plan # <<>>, r.depth > 0, r.depth <= Len(r.plan), AfterCharge(c, r)
  PROVE  /\ \E p \in {"exact_put", "idle"} : \E q \in RequestRecord :
              Local(c, p, q) /\ Fine(p, q) /\ Allowed(c, p, q)
         /\ billed' \in [Run -> Nat] /\ interrupted' \in BOOLEAN
<1>1. CASE Suspend(c, "exact_put", r)
  <2>1. Fine("exact_put", r) /\ Allowed(c, "exact_put", r)
    BY DEF Allowed, Fine, Awaiting, RunPhases, DayPhases, Fitted
  <2>. QED BY <1>1, <2>1, SuspendLocal
<1>2. CASE Finish(c, r.cost)
  <2>1. r.cost \in Nat
    BY DEF RequestRecord
  <2>. QED BY <1>2, <2>1, FinishLocal, IdleAllowed, NoRequestFine
<1>. QED BY <1>1, <1>2 DEF AfterCharge

LEMMA SucceedInv == ASSUME Inv, NEW c \in Client, Succeed(c) PROVE Inv'
<1>. DEFINE m == Current(req[c])
<1>1. /\ pc[c] = "calling" /\ req[c] \in RequestRecord /\ Fine("calling", req[c])
      /\ req[c].plan # <<>> /\ req[c].depth > 0 /\ req[c].depth <= Len(req[c].plan)
      /\ UNCHANGED budgets /\ UNCHANGED caches
  BY Locals DEF Succeed, Fine, Fitted, DayPhases
<1>2. m \in Model
  BY <1>1, CurrentInPlan
<1>3. Sound(AfterSuccess(breaker[m]))
  BY <1>2, AfterSuccessSound DEF Inv, Typed
<1>4. breaker' \in [Model -> BreakerRecord] /\ \A n \in Model : Sound(breaker'[n])
  BY <1>2, <1>3, BreakerMoves DEF Succeed
<1>5. PICK usd \in Costs[m] :
        LET r == [req[c] EXCEPT !.cost = usd]
        IN  IF usd = 0 THEN AfterCharge(c, r) ELSE Suspend(c, "charge_run", r)
  BY DEF Succeed
<1>. DEFINE r == [req[c] EXCEPT !.cost = usd]
<1>6. usd \in Nat /\ usd <= Estimate[m] + Overrun
  BY <1>2, GatewayAssumption
<1>7. /\ r \in RequestRecord /\ r.plan = req[c].plan /\ r.depth = req[c].depth
      /\ r.seen = req[c].seen /\ r.cost = usd
  BY <1>1, <1>6 DEF RequestRecord
<1>8. AfterCharge(c, r) \/ Suspend(c, "charge_run", r)
  BY <1>5
<1>. HIDE DEF r
<1>9. CASE AfterCharge(c, r)
  <2>1. PICK p \in {"exact_put", "idle"}, q \in RequestRecord :
                Local(c, p, q) /\ Allowed(c, p, q)
    BY <1>1, <1>7, <1>9, AfterChargeLocal
  <2>2. billed' \in [Run -> Nat] /\ interrupted' \in BOOLEAN
    BY <1>1, <1>7, <1>9, AfterChargeLocal
  <2>. QED BY <1>1, <1>4, <2>1, <2>2, LocalInv, CachesStay
<1>10. CASE Suspend(c, "charge_run", r)
  <2>1. Current(r) = m
    BY <1>7 DEF Current
  <2>2. Allowed(c, "charge_run", r)
    BY <1>1, <1>6, <1>7, <2>1
    DEF Allowed, Fine, Awaiting, RunPhases, DayPhases, Fitted
  <2>. QED BY <1>1, <1>4, <1>10, <2>2, SuspendInv, CachesStay
<1>. QED BY <1>8, <1>9, <1>10

-----------------------------------------------------------------------------
(* The two charges.                                                            *)

\* What a client about to charge holds.
LEMMA ChargeFacts ==
  ASSUME Typed, NEW c \in Client, pc[c] \in {"charge_run", "charge_day"}
  PROVE  /\ req[c] \in RequestRecord /\ req[c].cost \in Nat /\ Fine(pc[c], req[c])
         /\ req[c].plan # <<>> /\ req[c].depth > 0 /\ req[c].depth <= Len(req[c].plan)
         /\ req[c].seen \in Nat
         /\ req[c].cost <= req[c].seen + Overrun
         /\ req[c].cost <= Estimate[Current(req[c])] + Overrun
         /\ req[c].cost <= E + Overrun
<1>1. req[c] \in RequestRecord /\ Fine(pc[c], req[c])
  BY DEF Typed, TypeOK
<1>2. /\ req[c].plan # <<>> /\ req[c].depth > 0 /\ req[c].depth <= Len(req[c].plan)
      /\ Estimate[Current(req[c])] <= req[c].seen
      /\ req[c].cost <= Estimate[Current(req[c])] + Overrun
  BY <1>1 DEF Fine, DayPhases, Fitted
<1>3. req[c].cost \in Nat /\ req[c].seen \in Int /\ Overrun \in Nat /\ E \in Nat
  BY <1>1, CostliestBound, GatewayAssumption DEF RequestRecord
<1>4. Estimate[Current(req[c])] \in Nat /\ Estimate[Current(req[c])] <= E
  BY <1>1, <1>2, CurrentInPlan
<1>. QED BY <1>1, <1>2, <1>3, <1>4

LEMMA ChargeRunBounded ==
  ASSUME Typed, RunBounded, NEW c \in Client, pc[c] = "charge_run",
         NEW p, p \notin RunPhases, NEW r, Local(c, p, r),
         spentRun' = [spentRun EXCEPT ![RunOf[c]] = @ + req[c].cost]
  PROVE  RunBounded'
<1>. SUFFICES ASSUME NEW d \in Client
              PROVE  LET q == RunOf[d]
                     IN  Bounded(spentRun'[q], RunLimit, AheadOfRun(q)',
                                 Cardinality(RunClients(q)), Seen')
  BY DEF RunBounded, RunClients
<1>. DEFINE q == RunOf[d]
            S == spentRun[q]
            n == Cardinality(RunClients(q))
            P == AheadOfRun(q)
            Q == AheadOfRun(q)'
<1>1. S \in Nat /\ RunLimit \in Nat /\ q \in Run /\ RunOf[c] \in Run
  BY GatewayAssumption DEF Typed, TypeOK
<1>2. RunClients(q) \in SUBSET Client /\ P \in SUBSET RunClients(q)
  BY DEF RunClients, AheadOfRun
<1>3. IsFiniteSet(P) /\ n \in Nat /\ Cardinality(P) <= n
  BY <1>2, Group
<1>4. Bounded(S, RunLimit, P, n, Seen)
  BY DEF RunBounded
<1>5. \A x \in P : Seen[x] \in Nat
  BY SeenAndDue
<1>6. /\ \A x \in Client : x # c => Seen'[x] = Seen[x] /\ pc'[x] = pc[x] /\ req'[x] = req[x]
      /\ pc'[c] = p /\ Seen[c] = req[c].seen
  BY DEF Seen, Local, Typed, TypeOK
<1>7. Q = P \ {c} /\ \A x \in P \ {c} : Seen'[x] = Seen[x]
  BY <1>2, <1>6 DEF AheadOfRun, RunClients
<1>8. CASE q = RunOf[c]
  <2>1. c \in P
    BY <1>8, ChargeFacts DEF AheadOfRun, RunClients, RunPhases
  <2>2. spentRun'[q] = S + req[c].cost
    BY <1>1, <1>8 DEF Typed, TypeOK
  <2>3. req[c].cost \in Nat /\ req[c].cost <= Seen[c] + Overrun /\ req[c].cost <= E + Overrun
    BY <1>6, ChargeFacts
  <2>4. Bounded(S + req[c].cost, RunLimit, P \ {c}, n, Seen')
    <3>. DEFINE usd == req[c].cost
    <3>1. usd \in Nat /\ usd <= Seen[c] + Overrun /\ usd <= E + Overrun
      BY <2>3
    <3>2. \A x \in P \ {c} : Seen'[x] = Seen[x]
      BY <1>7
    <3>3. S \in Int /\ RunLimit \in Int
      BY <1>1
    <3>. HIDE DEF S, n, P, usd
    <3>4. Bounded(S + usd, RunLimit, P \ {c}, n, Seen')
      BY <1>3, <1>4, <1>5, <2>1, <3>1, <3>2, <3>3, BoundedCharge
    <3>. QED BY <3>4 DEF usd
  <2>. QED BY <1>7, <2>2, <2>4
<1>9. CASE q # RunOf[c]
  <2>1. spentRun'[q] = S
    BY <1>1, <1>9 DEF Typed, TypeOK
  <2>. QED BY <1>1, <1>3, <1>4, <1>5, <1>7, <2>1, BoundedLeave
<1>. QED BY <1>8, <1>9

LEMMA ChargeDayBounded ==
  ASSUME Typed, DayBounded, NEW c \in Client, pc[c] = "charge_day",
         NEW p, p \notin DayPhases, NEW r, Local(c, p, r),
         spentDay' = [spentDay EXCEPT ![WorkflowFor(c)] = @ + req[c].cost]
  PROVE  DayBounded'
<1>. SUFFICES ASSUME NEW d \in Client
              PROVE  LET w == WorkflowFor(d)
                     IN  Bounded(spentDay'[w], DayLimit, AheadOfDay(w)',
                                 Cardinality(WorkflowClients(w)), Due')
  BY DEF DayBounded, WorkflowClients, WorkflowFor
<1>. DEFINE w == WorkflowFor(d)
            S == spentDay[w]
            n == Cardinality(WorkflowClients(w))
            P == AheadOfDay(w)
            Q == AheadOfDay(w)'
<1>1. S \in Nat /\ DayLimit \in Nat /\ w \in Workflow /\ WorkflowFor(c) \in Workflow
  <2>1. w \in Workflow /\ WorkflowFor(c) \in Workflow
    BY GatewayAssumption DEF WorkflowFor
  <2>. QED BY <2>1, GatewayAssumption DEF Typed, TypeOK
<1>2. WorkflowClients(w) \in SUBSET Client /\ P \in SUBSET WorkflowClients(w)
  BY DEF WorkflowClients, AheadOfDay
<1>3. IsFiniteSet(P) /\ n \in Nat /\ Cardinality(P) <= n
  BY <1>2, Group
<1>4. Bounded(S, DayLimit, P, n, Due)
  BY DEF DayBounded
<1>5. \A x \in P : Due[x] \in Nat
  BY SeenAndDue
<1>6. /\ \A x \in Client : x # c => Due'[x] = Due[x] /\ pc'[x] = pc[x]
      /\ pc'[c] = p /\ Due[c] = Estimate[Current(req[c])]
  BY DEF Due, Current, Local, Typed, TypeOK
<1>7. Q = P \ {c} /\ \A x \in P \ {c} : Due'[x] = Due[x]
  BY <1>2, <1>6 DEF AheadOfDay, WorkflowClients
<1>8. CASE w = WorkflowFor(c)
  <2>1. c \in P
    BY <1>8 DEF AheadOfDay, WorkflowClients, DayPhases
  <2>2. spentDay'[w] = S + req[c].cost
    BY <1>1, <1>8 DEF Typed, TypeOK
  <2>3. req[c].cost \in Nat /\ req[c].cost <= Due[c] + Overrun /\ req[c].cost <= E + Overrun
    BY <1>6, ChargeFacts
  <2>4. Bounded(S + req[c].cost, DayLimit, P \ {c}, n, Due')
    <3>. DEFINE usd == req[c].cost
    <3>1. usd \in Nat /\ usd <= Due[c] + Overrun /\ usd <= E + Overrun
      BY <2>3
    <3>2. \A x \in P \ {c} : Due'[x] = Due[x]
      BY <1>7
    <3>3. S \in Int /\ DayLimit \in Int
      BY <1>1
    <3>. HIDE DEF S, n, P, usd
    <3>4. Bounded(S + usd, DayLimit, P \ {c}, n, Due')
      BY <1>3, <1>4, <1>5, <2>1, <3>1, <3>2, <3>3, BoundedCharge
    <3>. QED BY <3>4 DEF usd
  <2>. QED BY <1>7, <2>2, <2>4
<1>9. CASE w # WorkflowFor(c)
  <2>1. spentDay'[w] = S
    BY <1>1, <1>9 DEF Typed, TypeOK
  <2>. QED BY <1>1, <1>3, <1>4, <1>5, <1>7, <2>1, BoundedLeave
<1>. QED BY <1>8, <1>9

LEMMA ChargeRunInv == ASSUME Inv, NEW c \in Client, ChargeRun(c) PROVE Inv'
<1>. USE DEF Inv
<1>1. /\ pc[c] = "charge_run" /\ Local(c, "charge_day", req[c])
      /\ spentRun' = [spentRun EXCEPT ![RunOf[c]] = @ + req[c].cost]
      /\ spentDay' = spentDay /\ UNCHANGED breaker /\ UNCHANGED caches
      /\ billed' = billed /\ interrupted' = interrupted
  BY DEF ChargeRun, Suspend, Local
<1>2. /\ req[c] \in RequestRecord /\ req[c].cost \in Nat /\ Fine("charge_run", req[c])
  BY <1>1, ChargeFacts
<1>3. Fine("charge_day", req[c])
  BY <1>2 DEF Fine, DayPhases, Fitted
<1>4. /\ spentRun' \in [Run -> Nat] /\ spentDay' \in [Workflow -> Nat]
      /\ billed' \in [Run -> Nat] /\ interrupted' \in BOOLEAN
  <2>1. spentRun \in [Run -> Nat] /\ RunOf[c] \in Run
    BY GatewayAssumption DEF Typed, TypeOK
  <2>2. spentRun' \in [Run -> Nat]
    BY <1>1, <1>2, <2>1
  <2>. QED BY <1>1, <2>2 DEF Typed, TypeOK
<1>5. Typed'
  <2>1. "charge_day" \in Awaiting \cup {"idle"}
    BY DEF Awaiting
  <2>. QED BY <1>1, <1>2, <1>3, <1>4, <2>1, LocalTyped, BreakerStays, CachesStay
<1>6. RunBounded'
  <2>1. "charge_day" \notin RunPhases
    BY DEF RunPhases
  <2>. QED BY <1>1, <2>1, ChargeRunBounded
<1>7. DayBounded'
  <2>1. pc[c] \in DayPhases
    BY <1>1 DEF DayPhases
  <2>. QED BY <1>1, <1>2, <1>3, <2>1, LocalDay
<1>. QED BY <1>5, <1>6, <1>7

LEMMA ChargeDayInv == ASSUME Inv, NEW c \in Client, ChargeDay(c) PROVE Inv'
<1>. USE DEF Inv
<1>1. /\ pc[c] = "charge_day" /\ AfterCharge(c, req[c])
      /\ spentDay' = [spentDay EXCEPT ![WorkflowFor(c)] = @ + req[c].cost]
      /\ spentRun' = spentRun /\ UNCHANGED breaker /\ UNCHANGED caches
  BY DEF ChargeDay
<1>2. /\ req[c] \in RequestRecord /\ req[c].cost \in Nat
      /\ req[c].plan # <<>> /\ req[c].depth > 0 /\ req[c].depth <= Len(req[c].plan)
  BY <1>1, ChargeFacts
<1>3. PICK p \in {"exact_put", "idle"}, q \in RequestRecord : Local(c, p, q) /\ Fine(p, q)
  BY <1>1, <1>2, AfterChargeLocal
<1>4. /\ spentRun' \in [Run -> Nat] /\ spentDay' \in [Workflow -> Nat]
      /\ billed' \in [Run -> Nat] /\ interrupted' \in BOOLEAN
  <2>1. spentDay \in [Workflow -> Nat] /\ WorkflowFor(c) \in Workflow
    BY GatewayAssumption DEF Typed, TypeOK, WorkflowFor
  <2>2. spentDay' \in [Workflow -> Nat]
    BY <1>1, <1>2, <2>1
  <2>. QED BY <1>1, <1>2, <2>2, AfterChargeLocal DEF Typed, TypeOK
<1>5. p \in Awaiting \cup {"idle"} /\ p \notin RunPhases /\ p \notin DayPhases
  BY DEF Awaiting, RunPhases, DayPhases
<1>6. Typed'
  BY <1>1, <1>3, <1>4, <1>5, LocalTyped, BreakerStays, CachesStay
<1>7. RunBounded'
  BY <1>1, <1>3, <1>5, LocalRun
<1>8. DayBounded'
  BY <1>1, <1>3, <1>5, ChargeDayBounded
<1>. QED BY <1>6, <1>7, <1>8

LEMMA PutInv ==
  ASSUME Inv, NEW c \in Client, PutExact(c) \/ PutSemantic(c)
  PROVE  Inv'
<1>1. /\ UNCHANGED budgets /\ UNCHANGED breaker
      /\ req[c] \in RequestRecord /\ req[c].cost \in Nat /\ req[c].plan # <<>>
      /\ req[c].depth > 0 /\ req[c].depth <= Len(req[c].plan)
  BY Locals DEF PutExact, PutSemantic, Fine, Fitted, RequestRecord
<1>2. exact' \in SUBSET Key /\ semantic' \in SUBSET Key
  BY GatewayAssumption DEF PutExact, PutSemantic, Inv, Typed, TypeOK
<1>3. Finish(c, req[c].cost) \/ Suspend(c, "semantic_put", req[c])
  BY DEF PutExact, PutSemantic
<1>4. Allowed(c, "semantic_put", req[c])
  BY <1>1 DEF Allowed, Fine, Awaiting, RunPhases, DayPhases, Fitted
<1>. QED BY <1>1, <1>2, <1>3, <1>4, FinishInv, SuspendInv, BreakerStays

LEMMA LoseInv == ASSUME Inv, NEW c \in Client, Lose(c) PROVE Inv'
<1>1. Local(c, "idle", NoRequest) /\ UNCHANGED budgets /\ UNCHANGED breaker /\ UNCHANGED caches
  BY DEF Lose, Local
<1>2. billed' \in [Run -> Nat] /\ interrupted' \in BOOLEAN
  BY DEF Lose, Inv, Typed, TypeOK
<1>. QED BY <1>1, <1>2, IdleAllowed, LocalInv, BreakerStays, CachesStay

LEMMA RestartInv == ASSUME Inv, Restart PROVE Inv'
<1>. USE DEF Inv
<1>1. /\ spentRun' = spentRun /\ spentDay' = spentDay
      /\ \A c \in Client : pc'[c] = "idle" /\ req'[c] = NoRequest
  BY DEF Restart, budgets
<1>2. Typed'
  <2>1. TypeOK'
    BY NoRequestFine, NewBreakerSound DEF Restart, Typed, TypeOK, budgets, caches, Sound
  <2>2. \A m \in Model : Sound(breaker'[m])
    BY NewBreakerSound DEF Restart
  <2>. QED BY <1>1, <2>1, <2>2, NoRequestFine DEF Typed
<1>3. \A r : AheadOfRun(r)' = {}
  BY <1>1 DEF AheadOfRun, RunClients, RunPhases
<1>4. \A w : AheadOfDay(w)' = {}
  BY <1>1 DEF AheadOfDay, WorkflowClients, DayPhases
<1>5. RunBounded'
  <2>. SUFFICES ASSUME NEW d \in Client
                PROVE  Bounded(spentRun[RunOf[d]], RunLimit, {},
                               Cardinality(RunClients(RunOf[d])), Seen')
    BY <1>1, <1>3 DEF RunBounded, RunClients
  <2>. DEFINE P == AheadOfRun(RunOf[d])
              n == Cardinality(RunClients(RunOf[d]))
              S == spentRun[RunOf[d]]
  <2>1. IsFiniteSet(P) /\ n \in Nat /\ Cardinality(P) <= n
    BY Group DEF AheadOfRun, RunClients
  <2>2. Bounded(S, RunLimit, P, n, Seen) /\ \A x \in P : Seen[x] \in Nat
    BY SeenAndDue DEF RunBounded
  <2>3. S \in Int /\ RunLimit \in Int /\ {} \in SUBSET P
    BY Locals, GatewayAssumption
  <2>. HIDE DEF P, n, S
  <2>4. Bounded(S, RunLimit, {}, n, Seen')
    BY <2>1, <2>2, <2>3, BoundedLeave
  <2>. QED BY <2>4 DEF S, n
<1>6. DayBounded'
  <2>. SUFFICES ASSUME NEW d \in Client
                PROVE  Bounded(spentDay[WorkflowFor(d)], DayLimit, {},
                               Cardinality(WorkflowClients(WorkflowFor(d))), Due')
    BY <1>1, <1>4 DEF DayBounded, WorkflowClients, WorkflowFor
  <2>. DEFINE P == AheadOfDay(WorkflowFor(d))
              n == Cardinality(WorkflowClients(WorkflowFor(d)))
              S == spentDay[WorkflowFor(d)]
  <2>1. IsFiniteSet(P) /\ n \in Nat /\ Cardinality(P) <= n
    BY Group DEF AheadOfDay, WorkflowClients
  <2>2. Bounded(S, DayLimit, P, n, Due) /\ \A x \in P : Due[x] \in Nat
    BY SeenAndDue DEF DayBounded
  <2>3. S \in Int /\ DayLimit \in Int /\ {} \in SUBSET P
    BY Locals, GatewayAssumption
  <2>. HIDE DEF P, n, S
  <2>4. Bounded(S, DayLimit, {}, n, Due')
    BY <2>1, <2>2, <2>3, BoundedLeave
  <2>. QED BY <2>4 DEF S, n
<1>. QED BY <1>2, <1>5, <1>6

(* A step that moves no request and no counter.                                *)
LEMMA QuietInv ==
  ASSUME Inv, UNCHANGED <<pc, req, spentRun, spentDay>>, TypeOK',
         \A m \in Model : Sound(breaker'[m])
  PROVE  Inv'
<1>1. Typed'
  BY DEF Inv, Typed
<1>2. RunBounded'
  BY DEF Inv, RunBounded, AheadOfRun, RunClients, Seen
<1>3. DayBounded'
  BY DEF Inv, DayBounded, AheadOfDay, WorkflowClients, WorkflowFor, Due, Current
<1>. QED BY <1>1, <1>2, <1>3 DEF Inv

LEMMA TickInv == ASSUME Inv, Tick PROVE Inv'
<1>1. \A m \in Model : breaker'[m] = AfterTick(breaker[m]) /\ Sound(breaker'[m])
  BY AfterTickSound DEF Tick, Inv, Typed
<1>2. breaker' \in [Model -> BreakerRecord]
  BY <1>1 DEF Tick, Sound
<1>3. TypeOK'
  BY <1>2 DEF Tick, Inv, Typed, TypeOK, budgets, caches
<1>. QED BY <1>1, <1>3, QuietInv DEF Tick, budgets

LEMMA ExpireInv == ASSUME Inv, Expire PROVE Inv'
<1>1. TypeOK'
  BY DEF Expire, Inv, Typed, TypeOK, budgets
<1>. QED BY <1>1, BreakerStays, QuietInv DEF Expire, budgets

(* The new day's counter is zero, and whoever was admitted before midnight was *)
(* admitted for at most a day's limit.                                         *)
LEMMA MidnightInv == ASSUME Inv, Midnight PROVE Inv'
<1>. USE DEF Inv
<1>1. /\ UNCHANGED <<pc, req, spentRun, billed, breaker, caches, interrupted>>
      /\ spentDay' = [w \in Workflow |-> 0]
  BY DEF Midnight
<1>2. Typed'
  <2>1. TypeOK'
    BY <1>1 DEF Typed, TypeOK, caches
  <2>. QED BY <1>1, <2>1 DEF Typed
<1>3. RunBounded'
  BY <1>1 DEF RunBounded, AheadOfRun, RunClients, Seen
<1>4. DayBounded'
  <2>. SUFFICES ASSUME NEW d \in Client
                PROVE  Bounded(0, DayLimit, AheadOfDay(WorkflowFor(d)),
                               Cardinality(WorkflowClients(WorkflowFor(d))), Due)
    BY <1>1, GatewayAssumption
    DEF DayBounded, AheadOfDay, WorkflowClients, WorkflowFor, Due, Current
  <2>. DEFINE C == WorkflowClients(WorkflowFor(d))
              P == AheadOfDay(WorkflowFor(d))
              n == Cardinality(C)
  <2>1. C \in SUBSET Client /\ d \in C /\ P \in SUBSET C
    BY DEF WorkflowClients, AheadOfDay
  <2>2. IsFiniteSet(P) /\ n \in Nat /\ Cardinality(P) <= n
    BY <2>1, Group
  <2>3. CASE P = {}
    BY <2>1, <2>3, BoundedUnspent, GatewayAssumption
  <2>4. ASSUME NEW c \in P PROVE Bounded(0, DayLimit, P, n, Due)
    <3>1. c \in Client /\ Due[c] = Estimate[Current(req[c])] /\ Due[c] \in Nat
      BY SeenAndDue
    <3>2. Due[c] <= DayLimit
      <4>1. Fine(pc[c], req[c]) /\ pc[c] \in DayPhases
        BY <3>1, Locals DEF AheadOfDay
      <4>. QED BY <3>1, <4>1 DEF Fine
    <3>3. 0 + Due[c] <= DayLimit /\ Due[c] \in Int /\ DayLimit \in Int /\ 0 \in Int
      BY <3>1, <3>2, GatewayAssumption
    <3>. HIDE DEF P, n
    <3>. QED BY <2>2, <3>3, BoundedEnter
  <2>. QED BY <2>3, <2>4
<1>. QED BY <1>2, <1>3, <1>4

-----------------------------------------------------------------------------

LEMMA SpecInv == Spec => []Inv
<1>1. Init => Inv
  BY InitInv
<1>2. Inv /\ [Next]_vars => Inv'
  <2>. SUFFICES ASSUME Inv, [Next]_vars PROVE Inv'
    OBVIOUS
  <2>1. ASSUME NEW c \in Client, Step(c) PROVE Inv'
    BY <2>1, EarlyInv, ReadRunInv, FitBudgetInv, CheckFallbackInv, SucceedInv, FailInv,
       RetryInv, ChargeRunInv, ChargeDayInv, PutInv
    DEF Step
  <2>2. CASE \E c \in Client : Arrive(c) \/ Step(c) \/ Lose(c)
    BY <2>1, <2>2, ArriveInv, LoseInv
  <2>3. CASE Restart \/ Tick \/ Midnight \/ Expire
    BY <2>3, RestartInv, TickInv, MidnightInv, ExpireInv
  <2>4. CASE UNCHANGED vars
    <3>1. UNCHANGED <<pc, req, spentRun, spentDay>> /\ UNCHANGED breaker
      BY <2>4 DEF vars, budgets
    <3>2. TypeOK'
      BY <2>4 DEF vars, budgets, caches, Inv, Typed, TypeOK
    <3>. QED BY <3>1, <3>2, BreakerStays, QuietInv
  <2>. QED BY <2>2, <2>3, <2>4 DEF Next
<1>. QED BY <1>1, <1>2, PTL DEF Spec

(* Every request, counter and breaker keeps its type; in particular no request *)
(* retries more often than configured.                                         *)
THEOREM TypeCorrect == Spec => []TypeOK
<1>1. Inv => TypeOK
  BY DEF Inv, Typed
<1>. QED BY <1>1, SpecInv, PTL

(* What the unlocked read-call-charge sequence can cost a run, for any number  *)
(* of clients on it.                                                           *)
THEOREM RunsBounded == Spec => []RunOverspendBounded
<1>1. ASSUME Inv PROVE RunOverspendBounded
  <2>. SUFFICES ASSUME NEW c \in Client
                PROVE  spentRun[RunOf[c]] <= RunLimit + MostOverspend(RunClients(RunOf[c]))
    BY DEF RunOverspendBounded
  <2>. DEFINE S == spentRun[RunOf[c]]
              P == AheadOfRun(RunOf[c])
              n == Cardinality(RunClients(RunOf[c]))
  <2>1. S \in Int /\ RunLimit \in Int
    BY <1>1, Locals, GatewayAssumption
  <2>2. IsFiniteSet(P) /\ n \in Nat /\ Cardinality(P) <= n
    BY Group DEF AheadOfRun, RunClients
  <2>3. Bounded(S, RunLimit, P, n, Seen) /\ \A x \in P : Seen[x] \in Nat
    BY <1>1, SeenAndDue DEF Inv, RunBounded
  <2>. HIDE DEF S, P, n
  <2>4. S <= RunLimit + ((n - 1) * E + n * Overrun)
    BY <2>1, <2>2, <2>3, BoundedSpend
  <2>. QED BY <2>4 DEF S, n, E, MostOverspend
<1>. QED BY <1>1, SpecInv, PTL

(* And a workflow's day, across midnight and restarts.                         *)
THEOREM DaysBounded == Spec => []DayOverspendBounded
<1>1. ASSUME Inv PROVE DayOverspendBounded
  <2>. SUFFICES ASSUME NEW c \in Client
                PROVE  spentDay[WorkflowFor(c)]
                         <= DayLimit + MostOverspend(WorkflowClients(WorkflowFor(c)))
    BY DEF DayOverspendBounded
  <2>. DEFINE S == spentDay[WorkflowFor(c)]
              P == AheadOfDay(WorkflowFor(c))
              n == Cardinality(WorkflowClients(WorkflowFor(c)))
  <2>1. S \in Int /\ DayLimit \in Int
    BY <1>1, Locals, GatewayAssumption
  <2>2. IsFiniteSet(P) /\ n \in Nat /\ Cardinality(P) <= n
    BY Group DEF AheadOfDay, WorkflowClients
  <2>3. Bounded(S, DayLimit, P, n, Due) /\ \A x \in P : Due[x] \in Nat
    BY <1>1, SeenAndDue DEF Inv, DayBounded
  <2>. HIDE DEF S, P, n
  <2>4. S <= DayLimit + ((n - 1) * E + n * Overrun)
    BY <2>1, <2>2, <2>3, BoundedSpend
  <2>. QED BY <2>4 DEF S, n, E, MostOverspend
<1>. QED BY <1>1, SpecInv, PTL

(* D-007 holds for a run that one client works on, one request after another,  *)
(* when no call costs more than its estimate: fallbacks, retries, lost         *)
(* requests and restarts do not break it.                                      *)
THEOREM SequentialRunsNeverOverspend ==
  ASSUME Overrun = 0, \A c, d \in Client : RunOf[c] = RunOf[d] => c = d
  PROVE  Spec => []NoRunOverspends
<1>1. ASSUME RunOverspendBounded PROVE NoRunOverspends
  <2>. SUFFICES ASSUME NEW c \in Client PROVE spentRun[RunOf[c]] <= RunLimit
    BY DEF NoRunOverspends
  <2>1. RunClients(RunOf[c]) = {c}
    BY DEF RunClients
  <2>2. Cardinality(RunClients(RunOf[c])) = 1
    BY <2>1, FS_Singleton
  <2>3. MostOverspend(RunClients(RunOf[c])) = 0 * E + 1 * 0
    BY <2>2 DEF MostOverspend, E
  <2>4. E \in Nat /\ RunLimit \in Nat
    BY CostliestBound, GatewayAssumption
  <2>5. spentRun[RunOf[c]] <= RunLimit + MostOverspend(RunClients(RunOf[c]))
    BY <1>1 DEF RunOverspendBounded
  <2>. QED BY <2>3, <2>4, <2>5
<1>. QED BY <1>1, RunsBounded, PTL

-----------------------------------------------------------------------------
(***************************************************************************)
(* The ledger.  What a request has been charged and its row does not show  *)
(* yet is its Weight, what its run was charged and the day was not yet its *)
(* DayWeight.  Every step of a client changes the counters of its own run, *)
(* workflow and rows, and its own weights, so that they keep adding up.    *)
(***************************************************************************)

Unbooked == {"charge_day", "exact_put", "semantic_put"}
Weight == [c \in Client |-> IF pc[c] \in Unbooked THEN req[c].cost ELSE 0]
DayWeight == [c \in Client |-> IF pc[c] = "charge_day" THEN req[c].cost ELSE 0]
WorkflowRuns(w) == {r \in Run : WorkflowOf[r] = w}

Booked ==
  \A r \in Run :
    LET accounted == billed[r] + SumFunctionOnSet(Weight, RunClients(r))
    IN  accounted <= spentRun[r] /\ (interrupted \/ accounted = spentRun[r])

Covered ==
  \A w \in Workflow :
    spentDay[w] + SumFunctionOnSet(DayWeight, WorkflowClients(w))
      <= SumFunctionOnSet(spentRun, WorkflowRuns(w))

Accounts == Booked /\ Covered

(* The sums are over finite sets of natural numbers.                           *)
LEMMA Finite ==
  /\ \A r : IsFiniteSet(RunClients(r))
  /\ \A w : IsFiniteSet(WorkflowClients(w)) /\ IsFiniteSet(WorkflowRuns(w))
<1>1. \A r : RunClients(r) \in SUBSET Client
  BY DEF RunClients
<1>2. \A w : WorkflowClients(w) \in SUBSET Client /\ WorkflowRuns(w) \in SUBSET Run
  BY DEF WorkflowClients, WorkflowRuns
<1>. QED BY <1>1, <1>2, FS_Subset, GatewayAssumption

LEMMA WeightsAreCosts ==
  ASSUME Typed
  PROVE  \A c \in Client : Weight[c] \in Nat /\ DayWeight[c] \in Nat
BY DEF Weight, DayWeight, Typed, TypeOK, RequestRecord

LEMMA SumsAreInt ==
  ASSUME Typed
  PROVE  /\ \A r : SumFunctionOnSet(Weight, RunClients(r)) \in Nat
         /\ \A w : /\ SumFunctionOnSet(DayWeight, WorkflowClients(w)) \in Nat
                   /\ SumFunctionOnSet(spentRun, WorkflowRuns(w)) \in Nat
<1>1. ASSUME NEW r PROVE SumFunctionOnSet(Weight, RunClients(r)) \in Nat
  <2>1. \A i \in RunClients(r) : Weight[i] \in Nat
    BY WeightsAreCosts DEF RunClients
  <2>. QED BY <2>1, Finite, SumNat
<1>2. ASSUME NEW w PROVE SumFunctionOnSet(DayWeight, WorkflowClients(w)) \in Nat
  <2>1. \A i \in WorkflowClients(w) : DayWeight[i] \in Nat
    BY WeightsAreCosts DEF WorkflowClients
  <2>. QED BY <2>1, Finite, SumNat
<1>3. ASSUME NEW w PROVE SumFunctionOnSet(spentRun, WorkflowRuns(w)) \in Nat
  <2>1. \A i \in WorkflowRuns(w) : spentRun[i] \in Nat
    BY DEF WorkflowRuns, Typed, TypeOK
  <2>. QED BY <2>1, Finite, SumNat
<1>. QED BY <1>1, <1>2, <1>3

\* A step of c that charges its run x and its day y, and bills z.
Books(c, x, y, z) ==
  /\ spentRun' = [spentRun EXCEPT ![RunOf[c]] = @ + x]
  /\ spentDay' = [spentDay EXCEPT ![WorkflowFor(c)] = @ + y]
  /\ billed' = [billed EXCEPT ![RunOf[c]] = @ + z]
  /\ \A d \in Client \ {c} : Weight'[d] = Weight[d] /\ DayWeight'[d] = DayWeight[d]
  /\ z + Weight'[c] <= Weight[c] + x
  /\ interrupted' \/ (~interrupted /\ z + Weight'[c] = Weight[c] + x)
  /\ y + DayWeight'[c] <= DayWeight[c] + x

LEMMA BooksBooked ==
  ASSUME Typed, Typed', Booked, NEW c \in Client, NEW x \in Nat, NEW y \in Nat, NEW z \in Nat,
         Books(c, x, y, z)
  PROVE  Booked'
<1>. SUFFICES ASSUME NEW r \in Run
              PROVE  LET accounted == billed'[r] + SumFunctionOnSet(Weight', RunClients(r))
                     IN  accounted <= spentRun'[r] /\ (interrupted' \/ accounted = spentRun'[r])
  BY DEF Booked, RunClients
<1>. DEFINE S == SumFunctionOnSet(Weight, RunClients(r))
            T == SumFunctionOnSet(Weight', RunClients(r))
<1>1. /\ \A d \in Client : Weight[d] \in Nat /\ Weight'[d] \in Nat
      /\ S \in Nat
      /\ spentRun[r] \in Nat /\ billed[r] \in Nat /\ RunOf[c] \in Run
  <2>1. \A d \in Client : Weight'[d] \in Nat
    BY DEF Weight, Typed, TypeOK, RequestRecord
  <2>. QED BY <2>1, WeightsAreCosts, SumsAreInt, GatewayAssumption DEF Typed, TypeOK
<1>2. billed[r] + S <= spentRun[r] /\ (interrupted \/ billed[r] + S = spentRun[r])
  BY DEF Booked
<1>3. CASE r = RunOf[c]
  <2>1. c \in RunClients(r) /\ IsFiniteSet(RunClients(r)) /\ RunClients(r) \in SUBSET Client
    BY <1>3, Finite DEF RunClients
  <2>2. T = S - Weight[c] + Weight'[c]
    <3>1. /\ \A i \in RunClients(r) : Weight[i] \in Int /\ Weight'[i] \in Int
          /\ \A i \in RunClients(r) \ {c} : Weight'[i] = Weight[i]
      BY <1>1, <2>1 DEF Books
    <3>. QED BY <2>1, <3>1, SumChange
  <2>3. spentRun'[r] = spentRun[r] + x /\ billed'[r] = billed[r] + z
    BY <1>1, <1>3 DEF Books, Typed, TypeOK
  <2>4. /\ z + Weight'[c] <= Weight[c] + x
        /\ interrupted' \/ (~interrupted /\ z + Weight'[c] = Weight[c] + x)
    BY DEF Books
  <2>5. Weight[c] \in Nat /\ Weight'[c] \in Nat
    BY <1>1
  <2>. HIDE DEF S, T
  <2>6. billed'[r] + T <= spentRun'[r]
    BY <1>1, <1>2, <2>2, <2>3, <2>4, <2>5
  <2>7. CASE ~interrupted /\ z + Weight'[c] = Weight[c] + x
    <3>1. billed'[r] + T = spentRun'[r]
      BY <1>1, <1>2, <2>2, <2>3, <2>5, <2>7
    <3>. QED BY <2>6, <3>1 DEF T
  <2>. QED BY <2>4, <2>6, <2>7 DEF T
<1>4. CASE r # RunOf[c]
  <2>1. T = S
    <3>1. IsFiniteSet(RunClients(r))
      BY Finite
    <3>2. \A i \in RunClients(r) : Weight[i] \in Int /\ Weight'[i] = Weight[i]
      BY <1>1, <1>4 DEF RunClients, Books
    <3>. QED BY <3>1, <3>2, SumOfEquals
  <2>2. spentRun'[r] = spentRun[r] /\ billed'[r] = billed[r]
    BY <1>1, <1>4 DEF Books, Typed, TypeOK
  <2>3. interrupted' \/ ~interrupted
    BY DEF Books
  <2>. HIDE DEF S, T
  <2>4. billed'[r] + T <= spentRun'[r] /\ (interrupted' \/ billed'[r] + T = spentRun'[r])
    BY <1>1, <1>2, <2>1, <2>2, <2>3
  <2>. QED BY <2>4 DEF T
<1>. QED BY <1>3, <1>4

LEMMA BooksCovered ==
  ASSUME Typed, Typed', Covered, NEW c \in Client, NEW x \in Nat, NEW y \in Nat, NEW z \in Nat,
         Books(c, x, y, z)
  PROVE  Covered'
<1>. SUFFICES ASSUME NEW w \in Workflow
              PROVE  spentDay'[w] + SumFunctionOnSet(DayWeight', WorkflowClients(w))
                       <= SumFunctionOnSet(spentRun', WorkflowRuns(w))
  BY DEF Covered, WorkflowClients, WorkflowFor, WorkflowRuns
<1>. DEFINE S == SumFunctionOnSet(DayWeight, WorkflowClients(w))
            T == SumFunctionOnSet(DayWeight', WorkflowClients(w))
            A == SumFunctionOnSet(spentRun, WorkflowRuns(w))
            B == SumFunctionOnSet(spentRun', WorkflowRuns(w))
<1>1. /\ \A d \in Client : DayWeight[d] \in Nat /\ DayWeight'[d] \in Nat
      /\ S \in Nat /\ A \in Nat
      /\ spentDay[w] \in Nat /\ RunOf[c] \in Run /\ WorkflowFor(c) \in Workflow
      /\ \A r \in Run : spentRun[r] \in Nat /\ spentRun'[r] \in Nat
  <2>1. \A d \in Client : DayWeight'[d] \in Nat
    BY DEF DayWeight, Typed, TypeOK, RequestRecord
  <2>. QED BY <2>1, WeightsAreCosts, SumsAreInt, GatewayAssumption
       DEF Typed, TypeOK, WorkflowFor
<1>2. spentDay[w] + S <= A
  BY DEF Covered
<1>3. IsFiniteSet(WorkflowClients(w)) /\ IsFiniteSet(WorkflowRuns(w))
  BY Finite
<1>4. CASE w = WorkflowFor(c)
  <2>1. c \in WorkflowClients(w) /\ WorkflowClients(w) \in SUBSET Client
    BY <1>4 DEF WorkflowClients
  <2>2. T = S - DayWeight[c] + DayWeight'[c]
    <3>1. /\ \A i \in WorkflowClients(w) : DayWeight[i] \in Int /\ DayWeight'[i] \in Int
          /\ \A i \in WorkflowClients(w) \ {c} : DayWeight'[i] = DayWeight[i]
      BY <1>1, <2>1 DEF Books
    <3>. QED BY <1>3, <2>1, <3>1, SumChange
  <2>3. RunOf[c] \in WorkflowRuns(w) /\ WorkflowRuns(w) \in SUBSET Run
    BY <1>1, <1>4 DEF WorkflowRuns, WorkflowFor
  <2>4. spentRun'[RunOf[c]] = spentRun[RunOf[c]] + x
    BY <1>1 DEF Books, Typed, TypeOK
  <2>5. B = A - spentRun[RunOf[c]] + spentRun'[RunOf[c]]
    <3>1. /\ \A i \in WorkflowRuns(w) : spentRun[i] \in Int /\ spentRun'[i] \in Int
          /\ \A i \in WorkflowRuns(w) \ {RunOf[c]} : spentRun'[i] = spentRun[i]
      BY <1>1, <2>3 DEF Books, Typed, TypeOK
    <3>. QED BY <1>3, <2>3, <3>1, SumChange
  <2>6. spentDay'[w] = spentDay[w] + y
    BY <1>1, <1>4 DEF Books, Typed, TypeOK
  <2>7. y + DayWeight'[c] <= DayWeight[c] + x
    BY DEF Books
  <2>. HIDE DEF S, T, A, B
  <2>8. spentDay'[w] + T <= B
    BY <1>1, <1>2, <2>2, <2>4, <2>5, <2>6, <2>7
  <2>. QED BY <2>8 DEF T, B
<1>5. CASE w # WorkflowFor(c)
  <2>1. T = S
    <3>1. \A i \in WorkflowClients(w) : DayWeight[i] \in Int /\ DayWeight'[i] = DayWeight[i]
      BY <1>1, <1>5 DEF WorkflowClients, Books
    <3>. QED BY <1>3, <3>1, SumOfEquals
  <2>2. B = A
    <3>1. \A i \in WorkflowRuns(w) : spentRun[i] \in Int /\ spentRun'[i] = spentRun[i]
      BY <1>1, <1>5 DEF WorkflowRuns, WorkflowFor, Books, Typed, TypeOK
    <3>. QED BY <1>3, <3>1, SumOfEquals
  <2>3. spentDay'[w] = spentDay[w]
    BY <1>1, <1>5 DEF Books, Typed, TypeOK
  <2>. HIDE DEF S, T, A, B
  <2>4. spentDay'[w] + T <= B
    BY <1>2, <2>1, <2>2, <2>3
  <2>. QED BY <2>4 DEF T, B
<1>. QED BY <1>4, <1>5

LEMMA BooksAccounts ==
  ASSUME Typed, Typed', Accounts, NEW c \in Client, NEW x \in Nat, NEW y \in Nat, NEW z \in Nat,
         Books(c, x, y, z)
  PROVE  Accounts'
BY BooksBooked, BooksCovered DEF Accounts

(* Suspend and Finish move one client's weights only.                          *)
LEMMA WeightsMove ==
  ASSUME Typed, NEW c \in Client, NEW p, NEW r, Local(c, p, r)
  PROVE  /\ \A d \in Client \ {c} : Weight'[d] = Weight[d] /\ DayWeight'[d] = DayWeight[d]
         /\ Weight'[c] = IF p \in Unbooked THEN r.cost ELSE 0
         /\ DayWeight'[c] = IF p = "charge_day" THEN r.cost ELSE 0
<1>1. /\ \A d \in Client \ {c} : pc'[d] = pc[d] /\ req'[d] = req[d]
      /\ pc'[c] = p /\ req'[c] = r
  BY DEF Local, Typed, TypeOK
<1>. QED BY <1>1 DEF Weight, DayWeight

\* A counter to which nothing is added.
LEMMA NothingAdded ==
  ASSUME Typed, NEW c \in Client
  PROVE  /\ spentRun = [spentRun EXCEPT ![RunOf[c]] = @ + 0]
         /\ spentDay = [spentDay EXCEPT ![WorkflowFor(c)] = @ + 0]
         /\ billed = [billed EXCEPT ![RunOf[c]] = @ + 0]
<1>1. RunOf[c] \in Run /\ WorkflowFor(c) \in Workflow
  BY GatewayAssumption DEF WorkflowFor
<1>. QED BY <1>1 DEF Typed, TypeOK

LEMMA SuspendBooks ==
  ASSUME Typed, NEW c \in Client, NEW p, NEW r, Suspend(c, p, r), NEW x \in Nat, NEW y \in Nat,
         spentRun' = [spentRun EXCEPT ![RunOf[c]] = @ + x],
         spentDay' = [spentDay EXCEPT ![WorkflowFor(c)] = @ + y],
         NEW u \in Nat, u = (IF p \in Unbooked THEN r.cost ELSE 0),
         u = Weight[c] + x,
         NEW v \in Nat, v = (IF p = "charge_day" THEN r.cost ELSE 0),
         y + v <= DayWeight[c] + x
  PROVE  Books(c, x, y, 0)
<1>1. Local(c, p, r) /\ billed' = billed /\ interrupted' = interrupted
  BY DEF Suspend, Local
<1>2. interrupted \in BOOLEAN
  BY DEF Typed, TypeOK
<1>3. Weight'[c] = u /\ DayWeight'[c] = v
  BY <1>1, WeightsMove
<1>4. 0 + Weight'[c] = Weight[c] + x /\ 0 + Weight'[c] <= Weight[c] + x
  BY <1>3, WeightsAreCosts
<1>5. y + DayWeight'[c] <= DayWeight[c] + x
  BY <1>3
<1>6. interrupted' \/ ~interrupted
  BY <1>1, <1>2
<1>. QED BY <1>1, <1>4, <1>5, <1>6, WeightsMove, NothingAdded DEF Books

\* The response waits for a cache before its row is written.
LEMMA WaitBooks ==
  ASSUME Typed, NEW c \in Client, pc[c] \in Unbooked, NEW p \in {"exact_put", "semantic_put"},
         Suspend(c, p, req[c]), UNCHANGED spentRun, NEW y \in Nat, y <= DayWeight[c],
         spentDay' = [spentDay EXCEPT ![WorkflowFor(c)] = @ + y]
  PROVE  Books(c, 0, y, 0)
<1>1. Local(c, p, req[c]) /\ billed' = billed /\ interrupted' = interrupted
  BY DEF Suspend, Local
<1>2. interrupted \in BOOLEAN
  BY DEF Typed, TypeOK
<1>3. Weight'[c] = Weight[c] /\ DayWeight'[c] = 0
  BY <1>1, WeightsMove DEF Unbooked, Weight
<1>4. /\ 0 + Weight'[c] = Weight[c] + 0 /\ 0 + Weight'[c] <= Weight[c] + 0
      /\ y + DayWeight'[c] <= DayWeight[c] + 0
  BY <1>3, WeightsAreCosts
<1>5. interrupted' \/ ~interrupted
  BY <1>1, <1>2
<1>. QED BY <1>1, <1>4, <1>5, WeightsMove, NothingAdded DEF Books

LEMMA FinishBooks ==
  ASSUME Typed, NEW c \in Client, NEW usd \in Nat, Finish(c, usd), usd = Weight[c],
         NEW y \in Nat, y <= DayWeight[c], UNCHANGED spentRun,
         spentDay' = [spentDay EXCEPT ![WorkflowFor(c)] = @ + y]
  PROVE  Books(c, 0, y, usd) \/ Books(c, 0, y, 0)
<1>1. Local(c, "idle", NoRequest)
  BY DEF Finish, Local
<1>2. interrupted \in BOOLEAN
  BY DEF Typed, TypeOK
<1>3. Weight'[c] = 0 /\ DayWeight'[c] = 0
  BY <1>1, WeightsMove DEF Unbooked
<1>4. Weight[c] \in Nat /\ DayWeight[c] \in Nat
  BY WeightsAreCosts
<1>5. /\ usd + Weight'[c] = Weight[c] + 0 /\ usd + Weight'[c] <= Weight[c] + 0
      /\ 0 + Weight'[c] <= Weight[c] + 0 /\ y + DayWeight'[c] <= DayWeight[c] + 0
  BY <1>3, <1>4
<1>6. CASE billed' = [billed EXCEPT ![RunOf[c]] = @ + usd] /\ interrupted' = interrupted
  <2>1. interrupted' \/ ~interrupted
    BY <1>2, <1>6
  <2>. QED BY <1>1, <1>5, <1>6, <2>1, WeightsMove, NothingAdded DEF Books
<1>7. CASE billed' = billed /\ interrupted' = TRUE
  BY <1>1, <1>5, <1>7, WeightsMove, NothingAdded DEF Books
<1>. QED BY <1>6, <1>7 DEF Finish

-----------------------------------------------------------------------------
(* Before the charge a request has no weight, wherever it goes.                *)

Moves(c) ==
  \/ Finish(c, 0)
  \/ \E p \in Awaiting \ Unbooked : \E r : Suspend(c, p, r)

LEMMA MovesAccounts ==
  ASSUME Typed, Typed', Accounts, NEW c \in Client, pc[c] \notin Unbooked, Moves(c),
         UNCHANGED budgets
  PROVE  Accounts'
<1>1. spentRun' = spentRun /\ spentDay' = spentDay
  BY DEF budgets
<1>2. Weight[c] = 0 /\ DayWeight[c] = 0
  BY DEF Weight, DayWeight, Unbooked
<1>3. CASE Finish(c, 0)
  <2>1. Books(c, 0, 0, 0)
    BY <1>1, <1>2, <1>3, FinishBooks, NothingAdded
  <2>. QED BY <2>1, BooksAccounts
<1>4. ASSUME NEW p \in Awaiting \ Unbooked, NEW r, Suspend(c, p, r) PROVE Accounts'
  <2>1. p # "charge_day"
    BY DEF Unbooked
  <2>2. Books(c, 0, 0, 0)
    BY <1>1, <1>2, <1>4, <2>1, SuspendBooks, NothingAdded
  <2>. QED BY <2>2, BooksAccounts
<1>. QED BY <1>3, <1>4 DEF Moves

LEMMA SuspendMoves ==
  ASSUME NEW c, NEW r,
         NEW p \in {"limiter", "exact_get", "semantic_get", "read_run", "read_day", "calling",
                    "backoff", "charge_run"},
         Suspend(c, p, r)
  PROVE  Moves(c)
<1>1. p \in Awaiting \ Unbooked
  BY DEF Awaiting, Unbooked
<1>. QED BY <1>1 DEF Moves

LEMMA NextModelMoves ==
  ASSUME NEW c, NEW r, NextModel(c, r)
  PROVE  Moves(c)
<1>1. CASE Finish(c, 0)
  BY <1>1 DEF Moves
<1>2. CASE Suspend(c, "read_run", [r EXCEPT !.depth = @ + 1, !.try = 0])
  <2>. DEFINE q == [r EXCEPT !.depth = @ + 1, !.try = 0]
  <2>1. Suspend(c, "read_run", q)
    BY <1>2
  <2>. HIDE DEF q
  <2>. QED BY <2>1, SuspendMoves
<1>. QED BY <1>1, <1>2 DEF NextModel

LEMMA AttemptMoves ==
  ASSUME NEW c, NEW r, Attempt(c, r)
  PROVE  Moves(c)
<1>1. NextModel(c, r) \/ Suspend(c, "calling", r)
  BY DEF Attempt
<1>. QED BY <1>1, NextModelMoves, SuspendMoves

LEMMA EarlyMoves ==
  ASSUME NEW c \in Client,
         Arrive(c) \/ Acquire(c) \/ LookupExact(c) \/ LookupSemantic(c) \/ ReadRun(c)
  PROVE  Moves(c) /\ UNCHANGED budgets /\ pc[c] \notin Unbooked
<1>1. UNCHANGED budgets /\ pc[c] \notin Unbooked
  BY DEF Arrive, Acquire, LookupExact, LookupSemantic, ReadRun, Unbooked
<1>2. CASE Arrive(c)
  <2>1. PICK models \in Plans : Suspend(c, "limiter", [NoRequest EXCEPT !.plan = models])
    BY <1>2 DEF Arrive
  <2>. DEFINE q == [NoRequest EXCEPT !.plan = models]
  <2>2. Suspend(c, "limiter", q)
    BY <2>1
  <2>. HIDE DEF q
  <2>. QED BY <1>1, <2>2, SuspendMoves
<1>3. CASE Acquire(c) \/ LookupExact(c) \/ LookupSemantic(c)
  <2>1. \/ Finish(c, 0)
        \/ \E p \in {"exact_get", "semantic_get", "read_run"} : Suspend(c, p, req[c])
    BY <1>3 DEF Acquire, LookupExact, LookupSemantic, ServeCached
  <2>2. Finish(c, 0) => Moves(c)
    BY DEF Moves
  <2>. QED BY <1>1, <2>1, <2>2, SuspendMoves
<1>4. CASE ReadRun(c)
  <2>. DEFINE q == [req[c] EXCEPT !.seen = RunLimit - spentRun[RunOf[c]]]
  <2>1. Suspend(c, "read_day", q)
    BY <1>4 DEF ReadRun
  <2>. HIDE DEF q
  <2>. QED BY <1>1, <2>1, SuspendMoves
<1>. QED BY <1>2, <1>3, <1>4

LEMMA CallMoves ==
  ASSUME NEW c \in Client,
         FitBudget(c) \/ CheckFallback(c) \/ Fail(c) \/ Retry(c)
  PROVE  Moves(c) /\ UNCHANGED budgets /\ pc[c] \notin Unbooked
<1>1. UNCHANGED budgets /\ pc[c] \notin Unbooked
  BY DEF FitBudget, CheckFallback, Fail, Retry, Unbooked
<1>2. Finish(c, 0) => Moves(c)
  BY DEF Moves
<1>3. CASE FitBudget(c)
  <2>1. Finish(c, 0) \/ \E r : Attempt(c, r)
    BY <1>3 DEF FitBudget
  <2>. QED BY <1>1, <1>2, <2>1, AttemptMoves
<1>4. CASE CheckFallback(c)
  BY <1>1, <1>4, AttemptMoves, NextModelMoves DEF CheckFallback
<1>5. CASE Fail(c)
  BY <1>1, <1>5, SuspendMoves, NextModelMoves DEF Fail
<1>6. CASE Retry(c)
  <2>1. \E r : Attempt(c, r)
    BY <1>6 DEF Retry
  <2>. QED BY <1>1, <2>1, AttemptMoves
<1>. QED BY <1>3, <1>4, <1>5, <1>6

-----------------------------------------------------------------------------
(* From the answer to the row.                                                 *)

LEMMA SucceedAccounts ==
  ASSUME Typed, Typed', Accounts, NEW c \in Client, Succeed(c)
  PROVE  Accounts'
<1>1. pc[c] = "calling" /\ UNCHANGED budgets /\ req[c] \in RequestRecord
  BY DEF Succeed, Typed, TypeOK
<1>2. pc[c] \notin Unbooked /\ Weight[c] = 0 /\ DayWeight[c] = 0
  BY <1>1 DEF Weight, DayWeight, Unbooked
<1>3. PICK usd \in Costs[Current(req[c])] :
        LET r == [req[c] EXCEPT !.cost = usd]
        IN  IF usd = 0 THEN AfterCharge(c, r) ELSE Suspend(c, "charge_run", r)
  BY DEF Succeed
<1>. DEFINE r == [req[c] EXCEPT !.cost = usd]
<1>4. r.cost = usd
  BY <1>1 DEF RequestRecord
<1>5. \/ Suspend(c, "charge_run", r)
      \/ r.cost = 0 /\ Suspend(c, "exact_put", r)
      \/ Finish(c, 0)
  BY <1>3, <1>4 DEF AfterCharge
<1>. HIDE DEF r
<1>6. CASE Suspend(c, "charge_run", r) \/ Finish(c, 0)
  <2>1. Finish(c, 0) => Moves(c)
    BY DEF Moves
  <2>. QED BY <1>1, <1>2, <1>6, <2>1, SuspendMoves, MovesAccounts
<1>7. CASE r.cost = 0 /\ Suspend(c, "exact_put", r)
  <2>1. spentRun' = spentRun /\ spentDay' = spentDay
    BY <1>1 DEF budgets
  <2>2. Books(c, 0, 0, 0)
    BY <1>2, <1>7, <2>1, SuspendBooks, NothingAdded
  <2>. QED BY <2>2, BooksAccounts
<1>. QED BY <1>5, <1>6, <1>7

LEMMA ChargeRunAccounts ==
  ASSUME Typed, Typed', Accounts, NEW c \in Client, ChargeRun(c)
  PROVE  Accounts'
<1>. DEFINE x == req[c].cost
<1>1. /\ pc[c] = "charge_run" /\ Suspend(c, "charge_day", req[c])
      /\ spentRun' = [spentRun EXCEPT ![RunOf[c]] = @ + x] /\ spentDay' = spentDay
  BY DEF ChargeRun
<1>2. x \in Nat
  BY DEF Typed, TypeOK, RequestRecord
<1>3. Weight[c] = 0 /\ DayWeight[c] = 0
  BY <1>1 DEF Weight, DayWeight, Unbooked
<1>4. "charge_day" \in Unbooked
  BY DEF Unbooked
<1>5. x = Weight[c] + x /\ 0 + x <= DayWeight[c] + x
  BY <1>2, <1>3
<1>6. Books(c, x, 0, 0)
  BY <1>1, <1>2, <1>4, <1>5, SuspendBooks, NothingAdded
<1>. QED BY <1>2, <1>6, BooksAccounts

LEMMA ChargeDayAccounts ==
  ASSUME Typed, Typed', Accounts, NEW c \in Client, ChargeDay(c)
  PROVE  Accounts'
<1>. DEFINE y == req[c].cost
<1>1. /\ pc[c] = "charge_day" /\ spentRun' = spentRun
      /\ spentDay' = [spentDay EXCEPT ![WorkflowFor(c)] = @ + y]
      /\ Suspend(c, "exact_put", req[c]) \/ Finish(c, y)
  BY DEF ChargeDay, AfterCharge
<1>2. y \in Nat
  BY DEF Typed, TypeOK, RequestRecord
<1>3. Weight[c] = y /\ DayWeight[c] = y
  BY <1>1 DEF Weight, DayWeight, Unbooked
<1>4. y <= DayWeight[c]
  BY <1>2, <1>3
<1>5. CASE Suspend(c, "exact_put", req[c])
  <2>1. Books(c, 0, y, 0)
    BY <1>1, <1>2, <1>4, <1>5, WaitBooks DEF Unbooked
  <2>. QED BY <1>2, <2>1, BooksAccounts
<1>6. CASE Finish(c, y)
  <2>1. Books(c, 0, y, y) \/ Books(c, 0, y, 0)
    BY <1>1, <1>2, <1>3, <1>4, <1>6, FinishBooks
  <2>. QED BY <1>2, <2>1, BooksAccounts
<1>. QED BY <1>1, <1>5, <1>6

LEMMA PutAccounts ==
  ASSUME Typed, Typed', Accounts, NEW c \in Client, PutExact(c) \/ PutSemantic(c)
  PROVE  Accounts'
<1>. DEFINE usd == req[c].cost
<1>1. /\ pc[c] \in {"exact_put", "semantic_put"} /\ UNCHANGED budgets
      /\ Suspend(c, "semantic_put", req[c]) \/ Finish(c, usd)
  BY DEF PutExact, PutSemantic
<1>2. usd \in Nat /\ spentRun' = spentRun /\ spentDay' = spentDay
  BY <1>1 DEF budgets, Typed, TypeOK, RequestRecord
<1>3. Weight[c] = usd /\ DayWeight[c] = 0
  BY <1>1 DEF Weight, DayWeight, Unbooked
<1>4. CASE Suspend(c, "semantic_put", req[c])
  <2>1. Books(c, 0, 0, 0)
    BY <1>1, <1>2, <1>3, <1>4, WaitBooks, NothingAdded DEF Unbooked
  <2>. QED BY <2>1, BooksAccounts
<1>5. CASE Finish(c, usd)
  <2>1. Books(c, 0, 0, usd) \/ Books(c, 0, 0, 0)
    BY <1>2, <1>3, <1>5, FinishBooks, NothingAdded
  <2>. QED BY <1>2, <2>1, BooksAccounts
<1>. QED BY <1>1, <1>4, <1>5

-----------------------------------------------------------------------------
(* Lost requests leave the rows short, and midnight the day.                   *)

LEMMA LoseAccounts ==
  ASSUME Typed, Typed', Accounts, NEW c \in Client, Lose(c)
  PROVE  Accounts'
<1>1. Local(c, "idle", NoRequest) /\ UNCHANGED budgets /\ billed' = billed /\ interrupted' = TRUE
  BY DEF Lose, Local
<1>2. spentRun' = spentRun /\ spentDay' = spentDay
  BY <1>1 DEF budgets
<1>3. Weight'[c] = 0 /\ DayWeight'[c] = 0
  BY <1>1, WeightsMove DEF Unbooked
<1>4. 0 + Weight'[c] <= Weight[c] + 0 /\ 0 + DayWeight'[c] <= DayWeight[c] + 0
  BY <1>3, WeightsAreCosts
<1>5. Books(c, 0, 0, 0)
  BY <1>1, <1>2, <1>4, WeightsMove, NothingAdded DEF Books
<1>. QED BY <1>5, BooksAccounts

\* Nobody holds any weight.
LEMMA Weightless ==
  ASSUME \A c \in Client : pc[c] = "idle"
  PROVE  /\ \A r : SumFunctionOnSet(Weight, RunClients(r)) = 0
         /\ \A w : SumFunctionOnSet(DayWeight, WorkflowClients(w)) = 0
<1>1. \A c \in Client : Weight[c] = 0 /\ DayWeight[c] = 0
  BY DEF Weight, DayWeight, Unbooked
<1>2. ASSUME NEW r PROVE SumFunctionOnSet(Weight, RunClients(r)) = 0
  <2>1. \A i \in RunClients(r) : Weight[i] = 0
    BY <1>1 DEF RunClients
  <2>. QED BY <2>1, Finite, SumOfZeros
<1>3. ASSUME NEW w PROVE SumFunctionOnSet(DayWeight, WorkflowClients(w)) = 0
  <2>1. \A i \in WorkflowClients(w) : DayWeight[i] = 0
    BY <1>1 DEF WorkflowClients
  <2>. QED BY <2>1, Finite, SumOfZeros
<1>. QED BY <1>2, <1>3

LEMMA RestartAccounts ==
  ASSUME Typed, Typed', Accounts, Restart
  PROVE  Accounts'
<1>1. /\ spentRun' = spentRun /\ spentDay' = spentDay /\ billed' = billed /\ interrupted' = TRUE
      /\ \A c \in Client : pc'[c] = "idle"
  BY DEF Restart, budgets
<1>2. \A r : SumFunctionOnSet(Weight, RunClients(r))' = 0
  <2>1. ASSUME NEW r PROVE SumFunctionOnSet(Weight', RunClients(r)) = 0
    <3>1. \A i \in RunClients(r) : Weight'[i] = 0
      BY <1>1 DEF RunClients, Weight, Unbooked
    <3>. QED BY <3>1, Finite, SumOfZeros
  <2>. QED BY <2>1 DEF RunClients
<1>3. \A w : SumFunctionOnSet(DayWeight, WorkflowClients(w))' = 0
  <2>1. ASSUME NEW w PROVE SumFunctionOnSet(DayWeight', WorkflowClients(w)) = 0
    <3>1. \A i \in WorkflowClients(w) : DayWeight'[i] = 0
      BY <1>1 DEF WorkflowClients, DayWeight
    <3>. QED BY <3>1, Finite, SumOfZeros
  <2>. QED BY <2>1 DEF WorkflowClients, WorkflowFor
<1>4. Booked'
  <2>. SUFFICES ASSUME NEW r \in Run PROVE billed[r] + 0 <= spentRun[r]
    BY <1>1, <1>2 DEF Booked
  <2>1. billed[r] \in Nat /\ spentRun[r] \in Nat
    BY DEF Typed, TypeOK
  <2>2. billed[r] + SumFunctionOnSet(Weight, RunClients(r)) <= spentRun[r]
    BY DEF Accounts, Booked
  <2>. QED BY <2>1, <2>2, SumsAreInt
<1>5. Covered'
  <2>. SUFFICES ASSUME NEW w \in Workflow
                PROVE  spentDay[w] + 0 <= SumFunctionOnSet(spentRun, WorkflowRuns(w))
    BY <1>1, <1>3 DEF Covered, WorkflowRuns
  <2>1. spentDay[w] \in Nat
    BY DEF Typed, TypeOK
  <2>2. spentDay[w] + SumFunctionOnSet(DayWeight, WorkflowClients(w))
          <= SumFunctionOnSet(spentRun, WorkflowRuns(w))
    BY DEF Accounts, Covered
  <2>. QED BY <2>1, <2>2, SumsAreInt
<1>. QED BY <1>4, <1>5 DEF Accounts

LEMMA QuietAccounts ==
  ASSUME Accounts, UNCHANGED <<pc, req, spentRun, spentDay, billed, interrupted>>
  PROVE  Accounts'
BY DEF Accounts, Booked, Covered, Weight, DayWeight, RunClients, WorkflowClients, WorkflowFor,
       WorkflowRuns

LEMMA MidnightAccounts ==
  ASSUME Typed, Accounts, Midnight
  PROVE  Accounts'
<1>1. /\ UNCHANGED <<pc, req, spentRun, billed, interrupted>>
      /\ spentDay' = [w \in Workflow |-> 0]
  BY DEF Midnight
<1>2. Booked'
  BY <1>1 DEF Accounts, Booked, Weight, RunClients
<1>3. Covered'
  <2>. SUFFICES ASSUME NEW w \in Workflow
                PROVE  0 + SumFunctionOnSet(DayWeight, WorkflowClients(w))
                         <= SumFunctionOnSet(spentRun, WorkflowRuns(w))
    BY <1>1 DEF Covered, DayWeight, WorkflowClients, WorkflowFor, WorkflowRuns
  <2>1. spentDay[w] \in Nat
    BY DEF Typed, TypeOK
  <2>2. spentDay[w] + SumFunctionOnSet(DayWeight, WorkflowClients(w))
          <= SumFunctionOnSet(spentRun, WorkflowRuns(w))
    BY DEF Accounts, Covered
  <2>. QED BY <2>1, <2>2, SumsAreInt
<1>. QED BY <1>2, <1>3 DEF Accounts

LEMMA InitAccounts == Init => Accounts
<1>. SUFFICES ASSUME Init PROVE Accounts
  OBVIOUS
<1>1. \A c \in Client : pc[c] = "idle"
  BY DEF Init
<1>2. Booked
  <2>1. \A r \in Run : billed[r] = 0 /\ spentRun[r] = 0
    BY DEF Init
  <2>. QED BY <1>1, <2>1, Weightless DEF Booked
<1>3. Covered
  <2>. SUFFICES ASSUME NEW w \in Workflow
                PROVE  0 + 0 <= SumFunctionOnSet(spentRun, WorkflowRuns(w))
    BY <1>1, Weightless DEF Covered, Init
  <2>1. \A r \in WorkflowRuns(w) : spentRun[r] = 0
    BY DEF Init, WorkflowRuns
  <2>. QED BY <2>1, Finite, SumOfZeros
<1>. QED BY <1>2, <1>3 DEF Accounts

LEMMA SpecAccounts == Spec => []Accounts
<1>1. Init => Accounts
  BY InitAccounts
<1>2. Inv /\ Inv' /\ Accounts /\ [Next]_vars => Accounts'
  <2>. SUFFICES ASSUME Inv, Inv', Accounts, [Next]_vars PROVE Accounts'
    OBVIOUS
  <2>1. Typed /\ Typed'
    BY DEF Inv
  <2>2. ASSUME NEW c \in Client, Arrive(c) \/ Step(c) \/ Lose(c) PROVE Accounts'
    <3>1. \/ Arrive(c) \/ Acquire(c) \/ LookupExact(c) \/ LookupSemantic(c) \/ ReadRun(c)
          \/ FitBudget(c) \/ CheckFallback(c) \/ Fail(c) \/ Retry(c)
          \/ Succeed(c) \/ ChargeRun(c) \/ ChargeDay(c) \/ PutExact(c) \/ PutSemantic(c)
          \/ Lose(c)
      BY <2>2 DEF Step
    <3>2. CASE Moves(c) /\ UNCHANGED budgets /\ pc[c] \notin Unbooked
      BY <2>1, <3>2, MovesAccounts
    <3>. QED
      BY <2>1, <3>1, <3>2, EarlyMoves, CallMoves, SucceedAccounts, ChargeRunAccounts,
         ChargeDayAccounts, PutAccounts, LoseAccounts
  <2>3. CASE Restart
    BY <2>1, <2>3, RestartAccounts
  <2>4. CASE Midnight
    BY <2>1, <2>4, MidnightAccounts
  <2>5. CASE Tick \/ Expire \/ UNCHANGED vars
    <3>1. UNCHANGED <<pc, req, spentRun, spentDay, billed, interrupted>>
      BY <2>5 DEF Tick, Expire, vars, budgets
    <3>. QED BY <3>1, QuietAccounts
  <2>. QED BY <2>2, <2>3, <2>4, <2>5 DEF Next
<1>. QED BY <1>1, <1>2, SpecInv, PTL DEF Spec

(* What a run was charged is what its rows say plus the calls between charge   *)
(* and row; only a request that ended in between leaves the rows short.        *)
THEOREM LedgersBalance == Spec => []LedgerBalances
<1>1. ASSUME Typed, Accounts PROVE LedgerBalances
  <2>. DEFINE cost == [c \in Client |-> req[c].cost]
  <2>1. ASSUME NEW r
        PROVE  SumFunctionOnSet(cost, Unbilled(r)) = SumFunctionOnSet(Weight, RunClients(r))
    <3>. DEFINE rest == RunClients(r) \ Unbilled(r)
    <3>1. /\ RunClients(r) = Unbilled(r) \cup rest /\ Unbilled(r) \cap rest = {}
          /\ RunClients(r) \in SUBSET Client /\ Unbilled(r) \in SUBSET RunClients(r)
      BY DEF RunClients, Unbilled
    <3>2. IsFiniteSet(Unbilled(r)) /\ IsFiniteSet(rest) /\ IsFiniteSet(RunClients(r))
      BY <3>1, Finite, FS_Subset, FS_Difference
    <3>3. \A i \in RunClients(r) : Weight[i] \in Int
      BY <1>1, <3>1, WeightsAreCosts
    <3>4. \A i \in rest : Weight[i] = 0
      BY DEF RunClients, Unbilled, Weight, Unbooked
    <3>5. \A i \in Unbilled(r) : Weight[i] \in Int /\ cost[i] = Weight[i]
      BY <3>1, <3>3 DEF RunClients, Unbilled, Weight, Unbooked
    <3>6. SumFunctionOnSet(cost, Unbilled(r)) = SumFunctionOnSet(Weight, Unbilled(r))
      BY <3>2, <3>5, SumOfEquals
    <3>7. SumFunctionOnSet(Weight, rest) = 0
      BY <3>2, <3>4, SumOfZeros
    <3>8. SumFunctionOnSet(Weight, Unbilled(r)) \in Int
      BY <3>2, <3>5, SumInt
    <3>9. SumFunctionOnSet(Weight, Unbilled(r) \cup rest)
            = SumFunctionOnSet(Weight, Unbilled(r)) + SumFunctionOnSet(Weight, rest)
      <4>1. \A i \in Unbilled(r) \cup rest : Weight[i] \in Int
        BY <3>1, <3>3
      <4>. HIDE DEF rest
      <4>. QED BY <3>1, <3>2, <4>1, SumUnion
    <3>. HIDE DEF rest, cost
    <3>. QED BY <3>1, <3>6, <3>7, <3>8, <3>9
  <2>. QED BY <1>1, <2>1 DEF LedgerBalances, Accounts, Booked
<1>2. Inv => Typed
  BY DEF Inv
<1>. QED BY <1>1, <1>2, SpecInv, SpecAccounts, PTL

(* No call is counted against a workflow's day that is not counted against its *)
(* run, whenever the charge is cut in half.                                    *)
THEOREM DaysBehindRuns == Spec => []DayNeverAheadOfRuns
<1>1. ASSUME Typed, Accounts PROVE DayNeverAheadOfRuns
  <2>. SUFFICES ASSUME NEW w \in Workflow
                PROVE  spentDay[w] <= SumFunctionOnSet(spentRun, WorkflowRuns(w))
    BY DEF DayNeverAheadOfRuns, WorkflowRuns
  <2>1. spentDay[w] \in Nat
    BY <1>1 DEF Typed, TypeOK
  <2>2. spentDay[w] + SumFunctionOnSet(DayWeight, WorkflowClients(w))
          <= SumFunctionOnSet(spentRun, WorkflowRuns(w))
    BY <1>1 DEF Accounts, Covered
  <2>. QED BY <1>1, <2>1, <2>2, SumsAreInt
<1>2. Inv => Typed
  BY DEF Inv
<1>. QED BY <1>1, <1>2, SpecInv, SpecAccounts, PTL
=============================================================================
