------------------------------- MODULE Gateway -------------------------------
(***************************************************************************)
(* The gateway's request handler, GatewayService.complete                  *)
(* (gateway/service.py), for concurrent requests on one event loop, with   *)
(* the budget counters, the circuit breakers, the caches and the llm_calls *)
(* table they share.  One action is the code between two awaits: nothing   *)
(* else of the process runs inside it.  The counters and the caches live   *)
(* in Redis, and every access to them is an await.                         *)
(*                                                                         *)
(* A client is a caller working on one run: it has one request at a time   *)
(* and any number of them one after the other; several clients may work    *)
(* on one run.  Costs are natural numbers; a step class's models and their *)
(* order are the plans of the router; messages, wording, metrics and spans *)
(* are left out, and of an llm_calls row only its cost is kept.            *)
(***************************************************************************)
EXTENDS Breaker, FiniteSets, SequencesExt

CONSTANTS
  Client, Run, Workflow, Model, Key,
  RunOf,         \* the run a client works on
  WorkflowOf,    \* the workflow of a run
  KeyOf,         \* the exact-cache key of a client's requests
  Near,          \* keys whose stored prompt is within the semantic distance of a key
  UsesCache,     \* clients that send metadata cache = "on"
  UsesSemantic,  \* those whose step class is cacheable
  Plans,         \* model lists the planner can produce
  Adapted,       \* models whose provider has an adapter configured
  Estimate,      \* pre-call estimate of a model's cost
  Costs,         \* costs a call to a model can turn out to have
  Overrun,       \* most by which a cost exceeds its estimate
  RunLimit, DayLimit,  \* per_run_usd and per_workflow_daily_usd
  Retries

ASSUME GatewayAssumption ==
  /\ IsFiniteSet(Client) /\ IsFiniteSet(Run) /\ IsFiniteSet(Model) /\ Model # {}
  /\ RunOf \in [Client -> Run] /\ WorkflowOf \in [Run -> Workflow]
  /\ KeyOf \in [Client -> Key] /\ Near \in [Key -> SUBSET Key]
  /\ UsesCache \subseteq Client /\ UsesSemantic \subseteq UsesCache
  /\ Plans \subseteq Seq(Model) \ {<<>>} /\ Adapted \subseteq Model
  /\ Estimate \in [Model -> Nat] /\ Overrun \in Nat
  /\ Costs \in [Model -> SUBSET Nat]
  /\ \A m \in Model : \A usd \in Costs[m] : usd <= Estimate[m] + Overrun
  /\ RunLimit \in Nat /\ DayLimit \in Nat /\ Retries \in Nat

VARIABLES
  pc,          \* the await a client's request is suspended in
  req,         \* the local variables of its request
  spentRun,    \* counters budget:run:*
  spentDay,    \* today's counters budget:wf:*
  billed,      \* summed cost of each run's llm_calls rows
  breaker,     \* BreakerRegistry
  exact,       \* keys in the exact cache
  semantic,    \* keys in the semantic cache
  interrupted  \* history: some request ended without its response or error

budgets == <<spentRun, spentDay>>
caches == <<exact, semantic>>
vars == <<pc, req, budgets, billed, breaker, caches, interrupted>>

Awaiting == {"limiter", "exact_get", "semantic_get", "read_run", "read_day", "calling",
             "backoff", "charge_run", "charge_day", "exact_put", "semantic_put"}

(***************************************************************************)
(* plan is model_list, depth the index of the model being tried (0 until   *)
(* _fit_budget), try is try_index, seen the run's remaining budget as last *)
(* read, and cost the cost of the response.                                *)
(***************************************************************************)
RequestRecord ==
  [plan : Seq(Model), depth : Nat, try : 0 .. Retries, seen : Int, cost : Nat]
NoRequest == [plan |-> <<>>, depth |-> 0, try |-> 0, seen |-> 0, cost |-> 0]

TypeOK ==
  /\ pc \in [Client -> Awaiting \cup {"idle"}]
  /\ req \in [Client -> RequestRecord]
  /\ spentRun \in [Run -> Nat] /\ spentDay \in [Workflow -> Nat]
  /\ billed \in [Run -> Nat]
  /\ breaker \in [Model -> BreakerRecord]
  /\ exact \in SUBSET Key /\ semantic \in SUBSET Key
  /\ interrupted \in BOOLEAN

Init ==
  /\ pc = [c \in Client |-> "idle"]
  /\ req = [c \in Client |-> NoRequest]
  /\ spentRun = [r \in Run |-> 0]
  /\ spentDay = [w \in Workflow |-> 0]
  /\ billed = [r \in Run |-> 0]
  /\ breaker = [m \in Model |-> NewBreaker]
  /\ exact = {} /\ semantic = {}
  /\ interrupted = FALSE

-----------------------------------------------------------------------------

\* The request waits at the next await with locals r.
Suspend(c, phase, r) ==
  /\ pc' = [pc EXCEPT ![c] = phase]
  /\ req' = [req EXCEPT ![c] = r]
  /\ UNCHANGED <<billed, interrupted>>

\* _persist, always the last thing a request does: its row carries usd, unless the
\* database refuses it and the exception takes the place of the response.
Finish(c, usd) ==
  /\ pc' = [pc EXCEPT ![c] = "idle"]
  /\ req' = [req EXCEPT ![c] = NoRequest]
  /\ \/ billed' = [billed EXCEPT ![RunOf[c]] = @ + usd] /\ UNCHANGED interrupted
     \/ UNCHANGED billed /\ interrupted' = TRUE

WorkflowFor(c) == WorkflowOf[RunOf[c]]
Current(r) == r.plan[r.depth]

\* _metadata and _plan.  A request without metadata, for an unknown model or step
\* class, or without a routing table gets a 400 or 503 and leaves no trace at all.
Arrive(c) ==
  /\ pc[c] = "idle"
  /\ \E models \in Plans : Suspend(c, "limiter", [NoRequest EXCEPT !.plan = models])
  /\ UNCHANGED <<budgets, breaker, caches>>

\* rate_limiter.acquire returns, or gives up after max_wait_s with a 429.
Acquire(c) ==
  /\ pc[c] = "limiter"
  /\ \/ Suspend(c, IF c \in UsesCache THEN "exact_get" ELSE "read_run", req[c])
     \/ Finish(c, 0)
  /\ UNCHANGED <<budgets, breaker, caches>>

\* A cached response costs nothing, and its row says so.
ServeCached(c) == Finish(c, 0)

\* ExactCache.get: a response to the same model, messages and generation parameters.
ExactHit(c) == KeyOf[c] \in exact

LookupExact(c) ==
  /\ pc[c] = "exact_get"
  /\ IF ExactHit(c)
     THEN ServeCached(c)
     ELSE Suspend(c, IF c \in UsesSemantic THEN "semantic_get" ELSE "read_run", req[c])
  /\ UNCHANGED <<budgets, breaker, caches>>

\* RedisSemanticCache.get: one to a near prompt of the same step class and model.
SemanticHit(c) == semantic \cap Near[KeyOf[c]] # {}

LookupSemantic(c) ==
  /\ pc[c] = "semantic_get"
  /\ IF SemanticHit(c)
     THEN ServeCached(c)
     ELSE Suspend(c, "read_run", req[c])
  /\ UNCHANGED <<budgets, breaker, caches>>

\* BudgetTracker.spent reads the run's counter, then the workflow's for today.
ReadRun(c) ==
  /\ pc[c] = "read_run"
  /\ Suspend(c, "read_day", [req[c] EXCEPT !.seen = RunLimit - spentRun[RunOf[c]]])
  /\ UNCHANGED <<budgets, breaker, caches>>

\* Mutants: remaining() forgets the run's counter, or the workflow's.
RemainingOfDay(c) == DayLimit - spentDay[WorkflowFor(c)]
RemainingOfRun(c) == req[c].seen

Remaining(c) ==
  LET day == DayLimit - spentDay[WorkflowFor(c)]
  IN  IF req[c].seen <= day THEN req[c].seen ELSE day

-----------------------------------------------------------------------------

\* _fit_budget: the plan when its first model fits, else the models that fit by
\* estimate (a stable sort).
Cheaper(models, i, j) ==
  \/ Estimate[models[i]] < Estimate[models[j]]
  \/ Estimate[models[i]] = Estimate[models[j]] /\ i < j

FittedPlans(models, remaining) ==
  LET fitting == {i \in DOMAIN models : Estimate[models[i]] <= remaining}
      ranks == 1 .. Cardinality(fitting)
  IN  IF Estimate[models[1]] <= remaining THEN {models}
      ELSE {[i \in ranks |-> models[rank[i]]] :
              rank \in {f \in [ranks -> fitting] :
                          \A i, j \in ranks : i < j => Cheaper(models, f[i], f[j])}}

\* Mutant: the fallback loop does not advance to the next model.
SameModel(c, r) ==
  IF r.depth < Len(r.plan) THEN Suspend(c, "read_run", [r EXCEPT !.try = 0]) ELSE Finish(c, 0)

\* From a model that is out (no adapter, open circuit, failed, over budget) to the
\* budget check of the next one, or to the 502 after the last one.
NextModel(c, r) ==
  IF r.depth < Len(r.plan)
  THEN Suspend(c, "read_run", [r EXCEPT !.depth = @ + 1, !.try = 0])
  ELSE Finish(c, 0)

\* One iteration of _call_model's loop, up to the provider call.
Attempt(c, r) ==
  LET m == Current(r)
  IN  IF m \in Adapted
      THEN /\ breaker' = [breaker EXCEPT ![m] = AfterAllow(@)]
           /\ IF Admits(breaker[m]) THEN Suspend(c, "calling", r) ELSE NextModel(c, r)
      ELSE NextModel(c, r) /\ UNCHANGED breaker

\* The day's counter arrives.  The first time, the plan is fitted to the remaining
\* budget or refused with a 402.
FitBudget(c) ==
  /\ pc[c] = "read_day"
  /\ req[c].depth = 0
  /\ IF \A i \in DOMAIN req[c].plan : Estimate[req[c].plan[i]] > Remaining(c)
     THEN Finish(c, 0) /\ UNCHANGED breaker
     ELSE \E models \in FittedPlans(req[c].plan, Remaining(c)) :
             Attempt(c, [req[c] EXCEPT !.plan = models, !.depth = 1])
  /\ UNCHANGED <<budgets, caches>>

\* For a fallback, its own estimate is compared with what is left by then.
CheckFallback(c) ==
  /\ pc[c] = "read_day"
  /\ req[c].depth > 0
  /\ IF Estimate[Current(req[c])] > Remaining(c)
     THEN NextModel(c, req[c]) /\ UNCHANGED breaker
     ELSE Attempt(c, req[c])
  /\ UNCHANGED <<budgets, caches>>

-----------------------------------------------------------------------------

\* After charge(): the recorder, then the exact cache or the response.
AfterCharge(c, r) ==
  IF c \in UsesCache THEN Suspend(c, "exact_put", r) ELSE Finish(c, r.cost)

\* The provider answered: the cost is that of the tokens it reports, and nothing
\* is charged for a free response.
Succeed(c) ==
  /\ pc[c] = "calling"
  /\ breaker' = [breaker EXCEPT ![Current(req[c])] = AfterSuccess(@)]
  /\ \E usd \in Costs[Current(req[c])] :
        LET r == [req[c] EXCEPT !.cost = usd]
        IN  IF usd = 0 THEN AfterCharge(c, r) ELSE Suspend(c, "charge_run", r)
  /\ UNCHANGED <<budgets, caches>>

\* Mutant: retries are not counted.
FailUncounted(c) ==
  /\ pc[c] = "calling"
  /\ breaker' = [breaker EXCEPT ![Current(req[c])] = Refresh(AfterFailure(@))]
  /\ Suspend(c, "backoff", req[c]) \/ NextModel(c, req[c])
  /\ UNCHANGED <<budgets, caches>>

\* A timeout or a provider error: retried after a backoff when it is retryable.
Fail(c) ==
  /\ pc[c] = "calling"
  /\ breaker' = [breaker EXCEPT ![Current(req[c])] = Refresh(AfterFailure(@))]
  /\ \/ req[c].try < Retries /\ Suspend(c, "backoff", req[c])
     \/ NextModel(c, req[c])
  /\ UNCHANGED <<budgets, caches>>

Retry(c) ==
  /\ pc[c] = "backoff"
  /\ Attempt(c, [req[c] EXCEPT !.try = @ + 1])
  /\ UNCHANGED <<budgets, caches>>

\* Mutants: the counter is written from the value read before the call, not
\* incremented; the run's counter is left out.
ChargeRunFromRead(c) ==
  /\ pc[c] = "charge_run"
  /\ spentRun' = [spentRun EXCEPT ![RunOf[c]] = RunLimit - req[c].seen + req[c].cost]
  /\ Suspend(c, "charge_day", req[c])
  /\ UNCHANGED <<spentDay, breaker, caches>>

ChargeDayOnly(c) ==
  /\ pc[c] = "charge_run"
  /\ Suspend(c, "charge_day", req[c])
  /\ UNCHANGED <<spentRun, spentDay, breaker, caches>>

\* BudgetTracker.charge: two increments, the run's first.
ChargeRun(c) ==
  /\ pc[c] = "charge_run"
  /\ spentRun' = [spentRun EXCEPT ![RunOf[c]] = @ + req[c].cost]
  /\ Suspend(c, "charge_day", req[c])
  /\ UNCHANGED <<spentDay, breaker, caches>>

ChargeDay(c) ==
  /\ pc[c] = "charge_day"
  /\ spentDay' = [spentDay EXCEPT ![WorkflowFor(c)] = @ + req[c].cost]
  /\ AfterCharge(c, req[c])
  /\ UNCHANGED <<spentRun, breaker, caches>>

\* The semantic cache follows, unless the response has tool calls.
PutExact(c) ==
  /\ pc[c] = "exact_put"
  /\ exact' = exact \cup {KeyOf[c]}
  /\ \/ c \in UsesSemantic /\ Suspend(c, "semantic_put", req[c])
     \/ Finish(c, req[c].cost)
  /\ UNCHANGED <<budgets, breaker, semantic>>

PutSemantic(c) ==
  /\ pc[c] = "semantic_put"
  /\ semantic' = semantic \cup {KeyOf[c]}
  /\ Finish(c, req[c].cost)
  /\ UNCHANGED <<budgets, breaker, exact>>

-----------------------------------------------------------------------------

\* An exception the handler does not expect ends the request at its await: the
\* store or the database is unreachable, or the adapter cannot decode the answer.
Lose(c) ==
  /\ pc[c] \in Awaiting
  /\ pc' = [pc EXCEPT ![c] = "idle"]
  /\ req' = [req EXCEPT ![c] = NoRequest]
  /\ interrupted' = TRUE
  /\ UNCHANGED <<budgets, billed, breaker, caches>>

\* A restart: the breakers are in memory, the counters and caches in Redis.
Restart ==
  /\ \E c \in Client : pc[c] \in Awaiting
  /\ pc' = [c \in Client |-> "idle"]
  /\ req' = [c \in Client |-> NoRequest]
  /\ breaker' = [m \in Model |-> NewBreaker]
  /\ interrupted' = TRUE
  /\ UNCHANGED <<budgets, billed, caches>>

Tick ==
  /\ breaker' = [m \in Model |-> AfterTick(breaker[m])]
  /\ UNCHANGED <<pc, req, budgets, billed, caches, interrupted>>

\* _day() changes: the counters of the new day are absent from the store.
Midnight ==
  /\ spentDay' = [w \in Workflow |-> 0]
  /\ UNCHANGED <<pc, req, spentRun, billed, breaker, caches, interrupted>>

\* An entry's time to live is over.
Expire ==
  /\ \/ \E k \in exact : exact' = exact \ {k} /\ UNCHANGED semantic
     \/ \E k \in semantic : semantic' = semantic \ {k} /\ UNCHANGED exact
  /\ UNCHANGED <<pc, req, budgets, billed, breaker, interrupted>>

Step(c) ==
  \/ Acquire(c) \/ LookupExact(c) \/ LookupSemantic(c)
  \/ ReadRun(c) \/ FitBudget(c) \/ CheckFallback(c)
  \/ Succeed(c) \/ Fail(c) \/ Retry(c)
  \/ ChargeRun(c) \/ ChargeDay(c) \/ PutExact(c) \/ PutSemantic(c)

Next ==
  \/ \E c \in Client : Arrive(c) \/ Step(c) \/ Lose(c)
  \/ Restart \/ Tick \/ Midnight \/ Expire

\* The event loop resumes every request whose await is over, and every await ends:
\* the limiter's by max_wait_s, a provider call's by timeout_s.
Spec == Init /\ [][Next]_vars /\ \A c \in Client : WF_vars(Step(c))

-----------------------------------------------------------------------------

CostliestEstimate == Max({Estimate[m] : m \in Model})
RunClients(r) == {c \in Client : RunOf[c] = r}
WorkflowClients(w) == {c \in Client : WorkflowFor(c) = w}
MostOverspend(clients) ==
  LET n == Cardinality(clients) IN (n - 1) * CostliestEstimate + n * Overrun

(***************************************************************************)
(* DECISIONS.md D-007, "no run can overspend its budget", with what the    *)
(* unlocked read-call-charge sequence costs: a run's spend exceeds its     *)
(* limit by at most one estimate for every other client working on it,     *)
(* and by what the estimates of one call per client fell short.  A run     *)
(* with one client and pessimistic estimates never overspends.             *)
(***************************************************************************)
RunOverspendBounded ==
  \A c \in Client : spentRun[RunOf[c]] <= RunLimit + MostOverspend(RunClients(RunOf[c]))

\* The same for a workflow's day, across midnight too: a call that was admitted
\* yesterday is charged to today.
DayOverspendBounded ==
  \A c \in Client :
    spentDay[WorkflowFor(c)] <= DayLimit + MostOverspend(WorkflowClients(WorkflowFor(c)))

\* D-007 as written, of the runs that somebody works on.
NoRunOverspends == \A c \in Client : spentRun[RunOf[c]] <= RunLimit

(***************************************************************************)
(* Attribution and budget agree: what a run was charged is what its        *)
(* llm_calls rows say plus the calls between the charge and the row, and a *)
(* request that ends in between can only leave the rows short.             *)
(***************************************************************************)
Unbilled(r) ==
  {c \in RunClients(r) : pc[c] \in {"charge_day", "exact_put", "semantic_put"}}
LedgerBalances ==
  \A r \in Run :
    LET accounted == billed[r] + SumFunctionOnSet([c \in Client |-> req[c].cost], Unbilled(r))
    IN  accounted <= spentRun[r] /\ (interrupted \/ accounted = spentRun[r])

(***************************************************************************)
(* The run's counter is written first, so that a charge cut in half is     *)
(* never counted against the day without being counted against the run.    *)
(***************************************************************************)
DayNeverAheadOfRuns ==
  \A w \in Workflow :
    spentDay[w] <= SumFunctionOnSet(spentRun, {r \in Run : WorkflowOf[r] = w})

(***************************************************************************)
(* Every request ends: retries, fallbacks and budget re-reads run out.     *)
(***************************************************************************)
Answered == \A c \in Client : pc[c] # "idle" ~> pc[c] = "idle"
=============================================================================
