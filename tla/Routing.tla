-------------------------------- MODULE Routing --------------------------------
(***************************************************************************)
(* From measurements to a route: E1's records are summarized               *)
(* (evaluation/e1_steps.py), made into a routing table of the models that  *)
(* have a price (evaluation/routing_table.py, gateway/pricing.py), and a   *)
(* gateway that loaded the table plans the models to try                   *)
(* (gateway/router.py).  One step class is modelled; a cost is an integer  *)
(* and a mean the pair of a sum and a count.                               *)
(***************************************************************************)
EXTENDS Integers, Sequences, FiniteSets, Functions

CONSTANTS
  ModelList,          \* configs/eval/e1.yaml: the models, in order
  CallCost,           \* costs a measurement may have
  Bar,                \* min_step_success in percent
  MaxMeasurements     \* bound of the model

ASSUME RoutingAssumption ==
  /\ ModelList \in Seq(Range(ModelList))
  /\ \A i, j \in DOMAIN ModelList : ModelList[i] = ModelList[j] => i = j
  /\ CallCost \subseteq Nat /\ Bar \in 0 .. 100 /\ MaxMeasurements \in Nat

VARIABLES
  measurements,  \* [model, success, cost], E1's records
  priced,        \* models with a price
  tableFile,     \* configs/routing_table.yaml: candidates in order; <<>> before E1
  planned,       \* the last plan: its models and whether none met the bar
  source         \* history: the measurements and prices the table was built from

routingVars == <<measurements, priced, tableFile, planned, source>>

Model == Range(ModelList)
Measurement == [model : Model, success : BOOLEAN, cost : CallCost]
Candidate == [model : Model, successes : Nat, trials : Nat \ {0}, cost : Nat]
NoPlan == [models |-> <<>>, below |-> FALSE]

RoutingTypeOK ==
  /\ measurements \in Seq(Measurement) /\ priced \subseteq Model
  /\ tableFile \in Seq(Candidate)
  /\ planned.models \in Seq(Model) /\ planned.below \in BOOLEAN
  /\ source.measurements \in Seq(Measurement) /\ source.priced \subseteq Model

RoutingInit ==
  /\ measurements = <<>> /\ priced \in SUBSET Model /\ tableFile = <<>> /\ planned = NoPlan
  /\ source = [measurements |-> <<>>, priced |-> {}]

-----------------------------------------------------------------------------
\* The members of a set in the order of a set of pairs.
InOrder(set, before) ==
  CHOOSE s \in [1 .. Cardinality(set) -> set] :
    \A i, j \in DOMAIN s : i < j => <<s[i], s[j]>> \in before

\* The entries at some places of a sequence, in its order.
Kept(seq, places) ==
  LET order == InOrder(places, {pair \in places \X places : pair[1] < pair[2]})
  IN  [n \in DOMAIN order |-> seq[order[n]]]

\* sorted, by a set of pairs, which keeps the order of equals.
Sorted(seq, less) ==
  LET before == {pair \in (DOMAIN seq) \X (DOMAIN seq) :
                   \/ <<seq[pair[1]], seq[pair[2]]>> \in less
                   \/ pair[1] < pair[2] /\ <<seq[pair[2]], seq[pair[1]]>> \notin less}
      order == InOrder(DOMAIN seq, before)
  IN  [n \in DOMAIN order |-> seq[order[n]]]

-----------------------------------------------------------------------------
\* E1: models without a price are skipped

Measure ==
  /\ Len(measurements) < MaxMeasurements
  /\ \E m \in Measurement : m.model \in priced /\ measurements' = Append(measurements, m)
  /\ UNCHANGED <<priced, tableFile, planned, source>>

\* An edit of configs/pricing.yaml, or the throughput of a self-hosted model is measured.
Reprice ==
  /\ \E m \in Model : priced' \in {priced \cup {m}, priced \ {m}} \ {priced}
  /\ UNCHANGED <<measurements, tableFile, planned, source>>

\* summarize
Of(model) == {i \in DOMAIN measurements : measurements[i].model = model}
Measured == Kept(ModelList, {i \in DOMAIN ModelList : Of(ModelList[i]) # {}})
Costs(records) == [i \in DOMAIN records |-> records[i].cost]
Summary(model) ==
  [model |-> model, trials |-> Cardinality(Of(model)),
   successes |-> Cardinality({i \in Of(model) : measurements[i].success}),
   cost |-> SumFunctionOnSet(Costs(measurements), Of(model))]

-----------------------------------------------------------------------------
\* build_routing_table, RoutingTable.load

Cheaper(c, d) == c.cost * d.trials < d.cost * c.trials
MoreSuccessful(c, d) == c.successes * d.trials > d.successes * c.trials

\* Mutant: cheaper in sum.
CheaperInSum(c, d) == c.cost < d.cost

ByMeanCost(c, d) == Cheaper(c, d)

SortedByCost(seq) ==
  Sorted(seq, {pair \in Range(seq) \X Range(seq) : ByMeanCost(pair[1], pair[2])})

BuildTable ==
  /\ measurements # <<>>
  /\ LET models == Kept(Measured, {i \in DOMAIN Measured : Measured[i] \in priced})
     IN  tableFile' = SortedByCost([i \in DOMAIN models |-> Summary(models[i])])
  /\ source' = [measurements |-> measurements, priced |-> priced]
  /\ planned' = NoPlan /\ UNCHANGED <<measurements, priced>>

Load == SortedByCost(tableFile)

-----------------------------------------------------------------------------
\* plan_route

Qualifies(c) == 100 * c.successes >= Bar * c.trials
BetterRanked(c, d) == MoreSuccessful(c, d) \/ (~MoreSuccessful(d, c) /\ Cheaper(c, d))
SortedBySuccess(seq) ==
  Sorted(seq, {pair \in Range(seq) \X Range(seq) : BetterRanked(pair[1], pair[2])})
ModelsOf(candidates) == [i \in DOMAIN candidates |-> candidates[i].model]

PlanRoute ==
  /\ tableFile # <<>>
  /\ planned' = LET qualifying == Kept(Load, {i \in DOMAIN Load : Qualifies(Load[i])})
                IN  IF qualifying # <<>> THEN [models |-> ModelsOf(qualifying), below |-> FALSE]
                    ELSE [models |-> ModelsOf(SortedBySuccess(Load)), below |-> TRUE]
  /\ UNCHANGED <<measurements, priced, tableFile, source>>

RoutingNext == Measure \/ Reprice \/ BuildTable \/ PlanRoute

RoutingSpec == RoutingInit /\ [][RoutingNext]_routingVars

-----------------------------------------------------------------------------
Trials(m) == {i \in DOMAIN source.measurements : source.measurements[i].model = m}
Successes(m) == {i \in Trials(m) : source.measurements[i].success}
Spent(m) == SumFunctionOnSet(Costs(source.measurements), Trials(m))
MeetsBar(m) == 100 * Cardinality(Successes(m)) >= Bar * Cardinality(Trials(m))
CostsMore(m, n) == Spent(m) * Cardinality(Trials(n)) > Spent(n) * Cardinality(Trials(m))
Candidates == {m \in source.priced : Trials(m) # {}}

(***************************************************************************)
(* "The cheapest candidate whose measured step success is at least         *)
(* min_step_success goes first": judged by the measurements themselves, a  *)
(* plan tries the models that meet the bar, none before one that costs     *)
(* less per call, or when none does all, none before one that succeeds     *)
(* more often.                                                             *)
(***************************************************************************)
PlanFollowsMeasurements ==
  planned # NoPlan =>
    /\ planned.below <=> \A m \in Candidates : ~MeetsBar(m)
    /\ Range(planned.models) = {m \in Candidates : planned.below \/ MeetsBar(m)}
    /\ \A i, j \in DOMAIN planned.models :
         LET m == planned.models[i]
             n == planned.models[j]
         IN  i < j => /\ m # n
                      /\ ~planned.below => ~CostsMore(m, n)
                      /\ planned.below => Cardinality(Successes(m)) * Cardinality(Trials(n))
                                            >= Cardinality(Successes(n)) * Cardinality(Trials(m))
=============================================================================
