# Agent ROI Console in TLA+

A model of the console's control: the gateway's circuit breakers, budgets and
rate limits, the ROI guard, task runs on their three execution paths with the
tool calls they make, the sandbox and the live backends those calls write to,
the validators, and what evaluations, routing and ROI figures are computed
from. TLC checks the models on small instances; TLAPS proves the results listed
below for every value of the constants.

## 1. The system

| part | state | operations | shares with |
|---|---|---|---|
| circuit breaker (`gateway/breaker.py`) | state, failure deque, `_opened_at`, `_trial_in_flight`, per model, in memory | `allow`, `record_success`, `record_failure`, `state` | every request that calls the model, metrics, health |
| request handler (`gateway/service.py`) | locals of each request, suspended at its awaits | `complete` | all of the gateway's state |
| budgets (`gateway/budgets.py`) | two counters in Redis, per run and per workflow and UTC day | `remaining`, `charge` | every request of the run, of the workflow |
| caches (`gateway/cache.py`) | keys with a time to live | get, put | all requests, all replicas |
| rate limiter (`gateway/ratelimit.py`, `store.py`) | two token buckets per workflow, in memory or Redis | `acquire`, `take_tokens` | all requests of the workflow, all replicas |
| routing (`gateway/router.py`, `pricing.py`, `evaluation/routing_table.py`) | a table file, prices | `build_routing_table`, `load`, `plan_route` | E1's results, the request handler |
| ROI guard (`guard/`) | row of `workflow_state`, rows of `guard_actions` | `evaluate_workflow`, `run_forever` | run and resume endpoints, runner |
| run and resume endpoints (`api/routers/workflows.py`) | lock of `RunnerHolder` | `run_workflow`, `resume_workflow` | guard row |
| API rate limit (`api/rate_limit.py`) | hits per address | `check` | all requests, in threads |
| task runner, paths, MCP client (`runner/`, `paths/`) | row of `runs`, step traces, `tool_calls` rows, one workspace | `run`, tool and LLM calls | gateway (HTTP), connector servers (MCP) |
| connector servers (`mcp_servers/common.py`, servers) | key table in SQLite | `idempotent_write`, `logged_read` | processes of their own |
| sandbox (`sandbox/store.py`, `backends/`) | SQLite tables and sequences | reset, reads, writes | runner, connector servers |
| live backends (`backends/twenty.py`, `slack.py`, `notion.py`) | workspaces at the services, channel caches | reset, writes, snapshot | runner, servers, other people |
| validators (`validators/`) | none | `run_validators` | end states of both modes |
| evaluations (`evaluation/`) | checkpoint files, results files | batch programs | runner, gateway, guard, routing |
| ROI figures (`roi/`) | none | `summarize_runs`, break-even, grid | guard, API, E3 |
| queries, adapters, definitions, front end, scripts | little or none | | |

How they interact: the API process runs the endpoints, the guard and the runner
on one event loop, with synchronous endpoints in threads. The runner calls the
gateway over HTTP and the connector servers over MCP. The gateway is one event
loop per replica; its replicas share Redis. The connector servers' idempotency
table and the sandbox file are shared by threads and processes; the live
workspaces also by people.

What is hard: a request's reads, provider call and charges are separate awaits,
so every concurrent request acts on stale budgets and breaker states; a breaker
hears of outcomes long after it admitted the call; the guard writes its state,
its log and its alert in three steps, beside a resume in another thread and
requests waiting for a lock; a backend may apply a write and still raise; a
call outlives the run that sent it, and reaches a workspace that is being
reset; a reset of a live workspace is many requests; clocks of the services, of
replicas and of threads disagree; processes die anywhere, in the middle of a
line too. `PROJECT.json` lists these hazards at their lines.

What makes each part correct:

- breaker: trips on the windowed count, one trial at a time, never stuck;
- gateway: spend stays near its limits, charges and rows agree, every request ends;
- limits: a bucket or a window lets no more through than its rate, whatever the
  clocks and the order of calls;
- guard: a pause is decided on new runs, the log explains the row, a paused
  workflow runs nothing, a pause is alerted;
- idempotent writes: one write and one result per key, no call waits for ever;
- runs: judged on their own work, in the order of their plan, ended by one outcome;
- workspaces: a reset leaves the fixtures and nothing else of the console's,
  and never touches what is not the console's;
- evaluations, routing, ROI: every figure is computed from all of the
  measurements it claims, and the figures agree with each other.

## 2. Modules

Components with interleavings of their own and a specification each:

| module | models | state and actions |
|---|---|---|
| `Breaker` | one `CircuitBreaker` as a record and operators | each method holds the object's lock, so it is one update. Times are kept as ages, which is all the code compares |
| `BreakerPromise` | what the breaker promises | abstract specification: closed or tripped, a tally per age, one trial |
| `CircuitBreaker` | concurrent provider calls around one breaker | `Allow`, `Succeed`, `Fail`, `Escape`, `ReadState`, `Tick`. Refines `BreakerPromise` (`KeepsPromise`) |
| `Gateway` | `GatewayService.complete` for concurrent requests | extends `Breaker`. One action is the code between two awaits; `pc` names the await, `req` holds the locals. `Restart` is the process, `Midnight` the day's key |
| `Guard` | one workflow: guard, run endpoint, resume endpoint, restart | an evaluation is `Evaluate`, `Save`, `Record`, `Notify`; it holds the event loop up to `Record` (`LoopFree`), but not against `Resume`, which runs in a thread |
| `Idempotency` | one key of `IdempotencyStore` and the calls that carry it | one action per SQL statement; `Apply` and `Raise` are the backend. Refines `WritePromise` (`KeepsWritePromise`) |
| `WritePromise` | what an idempotent write promises | abstract specification: no table, no polling; a call answers in one step, with the result that is kept, with that of its own write, or with an error |
| `ToolCalls` | `McpToolbox.call`, servers and workspace, for all keys of a run | a write is known by its key. `Send`, `Serve`, `Close` are a call; `Abandon` leaves it with the server, which may still perform it (`ServeStray`). `Write` takes a call for one step, as `WritePromise` does and `Idempotency` refines it |
| `TaskRun` | `TaskRunner.run` and the graphs of the three paths | composes `ToolCalls`. `ctx` is the graph's state, one node per action: `PipelineNode`, `PlanNode`, `ExecuteNode`, `AgentNode`, `CallNode`, and the answers `LlmAnswer`, `ToolAnswer`. `Reset`, `Insert`, `Conclude` begin and end a run, `Break` is any exception outside `PathError` or the end of the process, `Alert` the guard's notifier |

Components that share no state, specified separately and put side by side in
`Components`:

| module | models | state and actions |
|---|---|---|
| `Sandbox` | the SQLite sandbox between the runner and three servers | one action per transaction: ids are taken in one, rows inserted in the next. `ResetTables`, `LookForContainer`, `CreateContainer`, `TakeFixtureId`, `InsertFixture` are a reset; `Look`, `Check`, `Take`, `Insert`, `Position`, `AppendBlocks`, `ReadContact`, `WriteContact` the calls |
| `LiveCrm` | the reset of a shared Twenty workspace and `log_activity` | one action per request (`Query`, `Perform`); `GiveUp` and `Arrive` are a timed-out request that is performed later. Twenty's own rules are in `Performed` |
| `LiveChannels` | live Slack and Notion: reset, calls, snapshot | services stamp what is written; the runner's clock is off by `skew`. The channel caches of both processes may be partial (`LookupFails`) |
| `Evaluation` | checkpointed loops of E1 and E2 and their results file | the file is a sequence of lines, a line the records on it; `Crash` may leave a part of a line or of the results |
| `GatewayLimits` | `WorkflowRateLimiter.acquire` over both stores | `TakeRequest`, `TakeEstimate`, `PollPassed`; on Redis a call brings its replica's clock and keys expire |
| `ApiLimits` | `SlidingWindowRateLimiter` under concurrent threads | a thread reads the clock, then waits for the lock (`RequestArrives`, `CheckRequest`). A client's hits are counted by their time; only the `Retry-After` header would tell their order |
| `Verdicts` | `run_validators` over the end states of both modes | the same writes, converted as the sandbox and as the live services return them |
| `Routing` | measurements, the table built of them, `plan_route` | prices come and go between the steps (`Reprice`) |
| `Roi` | `task_roi`, `summarize_runs`, break-even figures, sensitivity grid | exact arithmetic on small numbers; rates and minutes are fractions |

Theorems are in modules of their own: `CircuitBreakerProofs`, `GatewayProofs`,
`TaskRunProofs`, `IdempotencyProofs`, `GuardProofs`, `ComponentProofs`
(`GatewayLimits`, `ApiLimits`, `Evaluation`, `Roi`, `Routing`) and
`ConnectorProofs` (`LiveChannels`, `LiveCrm`, `Sandbox`, `Verdicts`, and
`Components` as a whole).
`GatewayLemmas` holds what several of them need: the breaker's methods, sums
and the least counterexample. `MCCircuitBreaker`, `MCGateway`, `MCGuard`, `MCIdempotency`, `MCTaskRun` and
`MCComponents` give the constants their values.

`map` in `PROJECT.json` names the source lines of every definition.
Definitions whose comment begins with "Mutant" are broken variants of the
definition after them; no specification uses them. Putting one in its place
must make a named property fail, which shows that the property notices.

History variables, which no guard reads: `abandoned` and the kind of a call in
`CircuitBreaker`; `billed` (the sums of the rows) and `interrupted` in
`Gateway`; `torn`, `alert` and the judged runs of a log row in `Guard`;
`effects`, `slips` and `returned` in `Idempotency`; `judged` in `TaskRun`;
`touched` in `Sandbox`; `loose` and `disturbed` in `LiveCrm`; `seen` and the
`since` of messages and pages in `LiveChannels`; `measured` in `Evaluation`
(where it also numbers the records); `paid` and `excess` in `GatewayLimits`;
`admitted` and `cleared` in `ApiLimits`; `source` in `Routing`.

## 3. Runs

| run | instance | shows |
|---|---|---|
| `breaker` | 3 callers, calls of up to 3 ticks, threshold 3, window 2, cool-down 2 | outcomes arrive in every later state: the deque stays sorted, the flag means one trial, late calls are old, the breaker implements its promise, a refusal ends unless a trial was abandoned |
| `breaker_leak` | 2 callers | **violated**: a trial that ends in an exception nobody records makes the breaker refuse for ever |
| `gateway_one_run` | 2 clients on one run; three models, one without adapter; 1 retry; limit 2 | a run's overspend is bounded, the ledger balances, every request is answered |
| `gateway_two_runs` | 2 runs of one workflow, one client with caches; daily limit 2 | the day's overspend is bounded, the day is never ahead of its runs |
| `gateway_overspend` | as `gateway_one_run` | **violated**: D-007's "no run can overspend its budget" |
| `guard` | windows of 2 runs, 4 runs, 3 actions, 1 scheduler, 1 resume thread | pauses judge new runs, the log tells the state |
| `guard_paused_run` | windows of 1 run | **violated**: a request waiting for the lock runs in a paused workflow |
| `guard_alert` | windows of 1 run | **violated**: a pause whose evaluation or notifier fails is never alerted |
| `idempotency` | 4 calls, 2 resets, live and sandbox | one write but for slips, one result until the first reset, the promise of `WritePromise`, calls end |
| `idempotency_twice` | 2 calls, no reset | **violated**: a write that raised after its effect is written again |
| `task_run` | 2 runs in a row on any path, 1 alert; plans good and bad, turns that ask twice | see below |
| `components` | each module of the second table | see below |

`task_run` checks, over runs whose models and tools fail, whose plans are bad,
which break off anywhere and whose last write may arrive in the next run:

- `EndStateIsOwn`: the validators judge the run's own writes, each completed
  write there, a step's at most once, each surplus one from a call that failed;
  what is not its own is an alert or the late write of a broken run;
- `LedgerCoversWorkspace`: every write has its `tool_calls` row;
- `StoredKeysHaveEffects`: no stored key swallows a write that is not there;
- `PlanFollowed`: the planning call comes first, then the plan in its order, a
  step when all it reads is there, all inside LangGraph's recursion limit;
- `NoCallAfterFailure`, `RunsEnd`.

`components` explores one component at a time: they share no state, so a
behaviour of all of them violates a property only if one of its components
does. It checks

- sandbox: `ResetCanonical` (a reset no server wrote into gives the same rows
  and ids every time, and its refs resolve even if one did), `BlocksInOrder`,
  `FieldsStay`;
- Twenty: `NothingLeaks` (wherever a reset stops, the next one finds what it
  left), `ResetLeavesFixtures` (and other people's records stay);
- Slack and Notion: `SnapshotIsRun` (a run is judged on all it wrote and on
  nothing from before its reset, as far as the clocks agree);
- evaluations: `ResultsComplete` (one record per work item whatever crashed, at
  most two measurements lost per crash, and what the guard reads is complete);
- limits: `BucketKeepsRate`, `ClientsWithinLimit`;
- validators: `SameVerdictInBothModes`;
- routing: `PlanFollowsMeasurements`; ROI: `BreakEvenMeansZero`.

Why the bounds are enough.

- Breaker, gateway, guard, idempotency: three callers are a trial, a late call
  and one that asks meanwhile. A call may outlast a cool-down (3 ticks against
  2), so that late outcomes meet every state. Two clients are the least that
  can race for a budget; with three models a plan skips, falls back and is
  re-ordered. Four runs are one window before and one after a downgrade; the
  third action is what follows a pause. Four calls are a writer, a waiter, one
  that takes over a released key and a late replay; a second reset meets what
  the first one left behind. Bounds: `MaxRuns`, `MaxWaiting`, `MaxActions`
  (`Guard`), `MaxResets` (`Idempotency`); ages in `Breaker` stop at the largest
  value the code tells apart. Costs need no bound, since the budgets bound them.
- Task runs: `MaxRuns` = 2 is a run and its heir, `MaxAlerts` = 1 a writer that
  is no run. `MaxPlanSteps` = 3 and `MaxTurns` = 2 are reached by the plans and
  turns given, which hold one plan for each thing `validate_plan` rejects.
- Sandbox: `MaxResets` = 2 and `MaxCalls` = 3 let calls of one run reach the
  next one's reset on all three servers; `BlockCount` = 2 tells order from
  presence. Two channels, a thread and a company with a person and an
  opportunity give every kind of reference.
- Twenty: `CrmRuns` = 3 is a reset, one that stops, and one that cleans up;
  `CrmCalls` = 2, `CrmLate` = 1; `BatchSize` and `PageSize` = 1 make every
  batch and every page a request or an answer of its own.
- Slack and Notion: `ChannelRuns` = 2, `ChannelWrites` = 3; `Skews` -1 to 1 is a
  clock behind, right and ahead; `Minute` = 3 puts writes of two runs in one
  minute.
- Evaluation: 2 tasks, 2 repeats; `MaxCrashes` = 2 lets one crash damage what
  another left, `MaxStarts` = 4 ends all the same.
- Limits: two callers, `MaxAcquires` = 2, `MaxTime` = 6 (a bucket is empty and
  full again, a key expires), `ReplicaSkews` 0 and 1; `Limit` = 2 in a
  `RateWindow` of 3 with `Lag` = 1, up to `MaxClock` = 4 and `MaxRequests` = 6; one tracked
  client of two (`MaxTrackedClients`) makes the table overflow.
- Verdicts: `MaxWrites` = 3 after the fixture's thread is a message, a page and
  a block, or a reply, or two notes. Routing: `MaxMeasurements` = 3 of two
  models makes means differ from sums. ROI: `MaxRoiRuns` = 3.

`idempotency`, `task_run` and `components` do not check for deadlock: when the
bounded calls, runs or writes are over, nothing is left to do.

## 4. Fairness and assumptions

- `CircuitBreaker`: time passes and every provider call returns, because
  `asyncio.wait_for` ends it at `timeout_s`. No request is assumed to arrive.
- `Gateway`: every await of a request ends (the limiter by `max_wait_s`, a call
  by `timeout_s`, Redis by its answer or an exception) and the event loop
  resumes the request. Weak fairness of one client's next step, none of
  arrivals.
- `Guard`: the scheduler loops for ever (`run_forever`), and an evaluation it
  began goes on. No fairness of runs, resumes or restarts. `PauseIsAlerted`
  fails although all this is granted.
- `Idempotency`: threads run, and a waiting call gives up at its deadline.
- `TaskRun`: the event loop goes on with the run it is at (`Proceed`), the
  gateway answers within the client's 300 s, and a server answers a call
  (`Serve`). Neither new runs, nor alerts, nor that a late write arrives.

Fairness matters to liveness only: no theorem uses it.

Assumptions beyond the code: `TtlSlack` (the clocks of replicas agree within the
60 s a bucket's key outlives its refill), `Lag` (no thread waits longer for the
rate limiter's lock), `Sandbox` (a run makes one call at a time, as the paths
do). Taken from the data the code is given: the clients, runs, models, tasks
and variants are finitely many, each model is listed once; fixtures of the
sandbox have names of their own, the vocabulary of texts has a phrase, and every fixture refers to earlier ones only
(in Twenty to those of other kinds, an opportunity to a company); the step ids
of a plan differ from the planning step's, and an agent's from each other.
`SnapshotIsRun` states which of its parts need the runner's clock not to
be ahead of the services', and which not to be behind.

## 5. Proofs

TLAPS proves, for any number of callers, clients, models, keys and any limits:

- **Breaker.** `TypeCorrect`, `DequeSorted`, `OneTrial`, `LateCallsAreOld`.
  The properties are not inductive: that the deque is pruned from its left is
  only right when it is oldest first, and that the flag means a trial needs
  that normal calls exist only in the closed state. The invariant adds `Sound`
  (the deque is sorted, below the threshold and inside the window's ages),
  `NormalOnlyWhenClosed` and `OpenCallsPredate`: what is in flight while the
  circuit is open began before it opened. `GatewayLemmas` shows that each
  method keeps `Sound`.
  `TrialAlone` adds the assumption `CallTimeout < HalfOpenAfter` and concludes
  that in half-open only the trial is in flight. The shipped configuration has
  `timeout_s: 30` and `half_open_after_s: 30` (`configs/gateway.yaml`), one
  tick short of it: a call may end just as the breaker half-opens.
  `BreakerKeepsPromise` is the refinement of `BreakerPromise`, method by method.
  The promise keeps a tally where the code keeps a deque, so each step needs
  what an append, a prune and an ageing of the deque do to the number of its
  entries of every age, and that a half-open breaker has cooled down
  (`HalfOpenCooled`).
- **Gateway.** `TypeCorrect`, `RunsBounded`, `DaysBounded`,
  `SequentialRunsNeverOverspend`. The bound on the overspend is a counting
  argument. For a set of clients, the counter plus what they are committed to
  (a call in flight at its estimate and shortfall, a charge not written yet)
  stays below the limit plus what the other clients may add; whoever passes the
  check has read a counter that was no larger than it is now. `Bounded` states
  it once for both counters. `SequentialRunsNeverOverspend` assumes one client
  per run and estimates that are never short. `LedgersBalance` and
  `DaysBehindRuns` add up shares: a run's counter is what its rows bill and what
  its clients have charged and not billed yet, or more once a request was cut
  off (`Booked`); a day's counter is at
  most what its runs were charged, less what a client has still to add to it
  (`Covered`). A step moves one client's share and one counter by the same amount.
- **Idempotent writes.** `OneResult`: the invariant adds who owns the row. As
  long as the workspace and the keys are at one (`Whole`: no reset is under way
  and none ran beside a write), at most one call is between its claim and the
  end of its write, and the row is pending meanwhile (`OneOwner`). `OneWrite` is
  a count that holds through resets and slips too: the writes made, and the
  calls that are about to write or to delete the row, are no more than the
  slips, and one more while there is a row. `TypeCorrect` counts the calls that
  may still write.
  `WritesKeepPromise` is the refinement of `WritePromise`, step by step. A write
  takes effect before its result is stored, and its call may still fail in
  between, so a write no call has answered for yet (`Unanswered`) does not count
  for the promise: it is made by the step that completes it, or by the one with
  which its call fails. A claim is lost in the promise when the row is
  pending and no call holds it. The step that ends a reset decides whether the
  promise goes on (no call was under way) or is void.
- **Task runs.** `TypeCorrect`, `LedgerCovers`, `StoredEffects` and
  `FailureIsFinal`, over `TaskRun` with `ToolCalls`. The invariant adds that a call in flight is the present
  run's (`CallIsOwn`), that what is still with a server comes from runs that
  broke off (`StraysAreBroken`), that rows follow runs (`RowsFollow`), and that
  an agent's calls are what is left of one of its turns (`Good`), without which
  the step ids of a call would not be typed. `CallNode` does not look at the
  error, so `FailureIsFinal` needs that a failed turn left no calls
  (`NothingLeft`).
  `PlanIsFollowed` needs to know where in its plan a run is (`InOrder`): its
  outputs are those of the first steps and of no other, and an agent's calls
  were made before the place it has reached.
  `EndStateOwn` ties the workspace to the traces. `TracesTell`: the traced tool
  calls are of different steps, and a call in flight is the current step's.
  `WorkIsOwn`: a step of the run has written at most once, what is written is
  traced or just answered, what was answered with success is written, and the
  rest is an alert or a broken run's. The bounds on the number of writes are
  then injections from steps to records and back.
- **Guard.** `TypeCorrect`, `PauseOnNewRuns`, `LogAccounts`. What is logged was
  decided earlier, so the invariant follows a decision through its three
  transactions: one evaluation at a time is between them (`LoopAlone`), no run
  finishes meanwhile, its offset counts all the runs it judged
  (`DecisionCounts`), and since a downgrade the offset has kept them out of the
  window (`OffsetCountsDowngrade`), because the run that finishes is always the
  last one that began (`ActiveIsLast`). `FirstFew` gives the window's size by the
  pigeonhole principle. `PauseIsHeld` is about steps: only a resume call's step
  ends a pause, and the offset of judged runs never goes back. It needs that a
  decision not saved yet was taken from a row that is still not paused, and
  stores the count of finished runs as it still is (`DecidedIsCurrent`), which
  no stored offset exceeds (`OffsetIsReached`). `PauseHolds` is stated beside its
  proof; no run of the project checks it.
- **Rate limits.** `RateKept`: what the bound lacks is the room a bucket has for
  the replica with the fastest clock. It is never negative, and a bucket that
  granted anything has that much less (`RoomIsLeft`); a key expires only after
  its bucket has refilled (`TtlFills`), provided that the clocks agree within the
  60 s a key outlives that time, which is `LimitsAssumption`.
- **API rate limit.** `RunsAreLimited`. The table may be cleared when it is
  full, so the hits it holds say little alone. `AdmittedAreHeld` counts, from
  every time on: what a client was admitted to since is at most `Limit` for every
  clearing since, and the hits still held from `Lag` before it on. A thread that waited for the lock has
  a time at most `Lag` old, which is why the window loses `Lag`.
- **Slack and Notion.** `SnapshotsAreRuns`: nothing is written for a run before
  its workspace is filled (`NothingBeforeFilled`) nor after it was looked at
  (`SeenIsOver`); what it writes is newer than its start and hangs on its thread
  (`WrittenAfterStart`), the start tells what came before it as far as the
  clocks do (`StartTells`), and the pages of earlier runs are on the list of
  those to trash until they are (`OldPagesGo`).
- **Twenty.** `NothingIsLost` and `ResetsLeaveFixtures`, from one invariant,
  `CrmInv`. An id is used once, and the lists a reset works through hold records
  of one kind. A late request may still destroy what is on its list (`Doomed`),
  so an opportunity or a note that a call was answered for must not hang on
  that: until it is destroyed itself it leads to a company or a person that this
  reset or the next still finds (`SafeOpportunities`, `SafeNotes`, `SafePeople`).
  While nothing disturbs the reset its lists hold every marked record, and then
  its refs are the records of the fixtures (`Undisturbed`).
- **Sandbox.** `ResetsAreCanonical`, `BlocksStayInOrder`, `UpdatesMerge`.
  `SandboxSound` is the part they share: types, a call's arguments fit its place
  (`CallsFit`), refs follow the fixtures (`RefsFollow`, `RefsResolve`). In a
  reset that nobody wrote into, a sequence has counted the fixtures of its kind
  (`Canonical`). The position of a block is read one transaction before it is
  used, and a reset may come between; every block then still lies below
  `BlockCount` times the appends that are done, and the one in progress above
  all blocks of its page (`BlocksSound`). An update has read every field that is
  set on its contact, whose id is its own (`FieldsSound`).
- **Validators.** `VerdictsAgree`: a reply in the sandbox and a live one name the
  same parent because threads are one level deep (`FlatThreads`), and what a page
  holds fits its schema (`SoundPages`); end states alike in that pass every
  validator alike.
- **Evaluations.** `CrashesCostTwo` counts what a crash may cost with a
  potential (`CostsTwo`): the measurements repeated, those due to be because
  their record is lost (`Due`), and the records that the next append would spoil
  because the last line has no newline (`Spoils`) are at most twice the crashes.
- **Routing.** `PlansFollowMeasurements`: a table tells each candidate once, with
  the means of its own measurements (`Tells`). The code sorts means and the
  property compares them by cross products, so the order has to be shown strict;
  that a finite strict order can be listed, and that a stable sort and a filter
  keep the entries, are lemmas about arrangements.
- **ROI.** `FiguresOfRunsAgree`: all figures are linear in the number of
  successes, once the sum over the runs is split into those that succeeded and
  those that did not; break-even and net return then have the same sign.

- **Types of the components.** `ComponentsTypesHold`: all modules of the second
  table keep their types, side by side. A behaviour of `Components` moves one
  component, and the others stay in an initial state, so each module's own
  types, which the proofs above have from their invariants, hold of its part.

A sum or an arrangement is defined over a whole finite set, and the library's
induction theorems cannot be instantiated with an operator. Where a proof goes
through such a set one element at a time, it takes the smallest counterexample
instead: the set of the sizes at which the statement fails is a set of numbers,
and has a least one (`Smallest` in `GatewayLemmas`).

The assumptions on the constants are the named `ASSUME`s of the modules; TLC
evaluates them in every run. They say what the configuration and the data are
(thresholds and limits are natural numbers, fixtures refer to earlier ones, the
vocabulary of texts has a phrase), that the bounds of the models are natural
numbers, and what section 4 adds beyond the code.

Every safety property that a passing run checks is a theorem. Only
model-checked is liveness (`RefusalEnds`, `Answered`, `CallsEnd`, `RunsEnd`),
which is out of the prover's reach under fairness.

## 6. Findings

The five violated runs are disagreements between the code and its own
documentation; `PROJECT.json` quotes the lines. In short: an adapter exception
outside `ProviderError` wedges a half-open breaker; concurrent requests of one
run overspend its budget; a queued request runs in a paused workflow; a pause's
alert is sent at most once and may be lost; a write that raises after its
effect is repeated.

Noticed while modelling, without a run of their own:

- `evaluation/e4_gateway.py` constructs `RedisSemanticCache` with a `name` and
  calls `drop()`; `gateway/cache.py` has neither.
- A plan with `"inputs": null` raises `TypeError` in
  `paths/planner_executor.py`, which is no `PathError`: the row stays RUNNING
  (`Break` in `TaskRun`).
- `HttpGatewayClient.chat` parses the body before it looks at the status, so an
  error that is not JSON ends the run likewise.
- `run_validators` catches `TemplateRenderError`, `TypeError` and `ValueError`
  only.
- A note of Twenty whose link was never created is out of reach of every later
  reset (`loose` in `LiveCrm`), and a live snapshot reads the notes of the
  whole workspace.
- `write_results` replaces the file in place: after a crash in it the guard's
  evaluation raises until the file is written again (`damaged` in
  `Evaluation`).

## 7. Not modelled, and the plan

Left out for good, because no decision depends on their state: HTTP and MCP
wiring, YAML, template rendering and prompts, provider wire formats, tool
schemas, floating-point rounding, embeddings and cache keys (a request's
equality and nearness are constants of `Gateway`), report rendering, the
generated task data, the fixed scenarios of E4 and E5, read-only queries, the
front end, the scripts.

Left out of modelled parts: the loop over several workflows of the guard and
its fallback to older runs when no result is read; replies to a reply's `ts` in
Slack; properties that a task would expect to be empty, which only live pages
report; notes of other people that mention a task's phrase; `update_contact` of
Twenty, one request that the service merges; the share of routed calls in E2's
summary; expiry of budget counters.

Planned, most important first:

1. `Guard` over two workflows, whose evaluations share one round, and `Guard`
   composed with `TaskRun` in live mode, where the keys outlive a reset.
2. `ToolCalls` shown to refine `WritePromise` for each key as a theorem; today
   its `Write` is only written as the promise's steps.
