-------------------------------- MODULE TaskRun --------------------------------
(***************************************************************************)
(* Task runs (TaskRunner.run, runner/runner.py) on the three execution     *)
(* paths (paths/pipeline.py, planner_executor.py, react.py), one after the *)
(* other, with the tool calls of ToolCalls and the guard's alerts beside   *)
(* them.  One action is the code between two awaits; a path's LangGraph    *)
(* graph runs one node at a time, and ctx holds its state.                 *)
(*                                                                         *)
(* Prompts, contents and costs are left out: an answer of the gateway is a *)
(* refusal, or what the path makes of it.  A step names the earlier steps  *)
(* its templates or placeholders read (needs).                             *)
(***************************************************************************)
EXTENDS ToolCalls, FiniteSets, SequencesExt

CONSTANTS
  MaxRuns, MaxAlerts,  \* bounds of the model: runs, alerts in one workspace
  Guard,         \* the guard's id as a caller
  AlertStep, AlertText,
  Pipeline,      \* the workflow's declared steps
  Plans,         \* JSON plans the planner model may write
  Turns,         \* tool-call lists an agent turn may end with
  MaxPlanSteps, MaxTurns,
  PlanStep,      \* step id of the planning call
  TurnStep(_),   \* step id of an agent turn
  CallStep(_, _) \* step id of a tool call, by turn and index

RunId == 1 .. MaxRuns
Path == {"pipeline", "planner_executor", "react"}
Step == [id : StepId, type : {"llm", "tool", "transform"}, tool : Tool, args : Arg,
         needs : SUBSET StepId, json : BOOLEAN]
ToolCall == [tool : Tool, args : Arg, valid : BOOLEAN]

\* WorkflowDefinition.check_steps: unique step ids, some tool and some llm step.
UniqueIds(steps) == \A i, j \in DOMAIN steps : steps[i].id = steps[j].id => i = j

\* The places of the calls in an agent's turns.
CallIndex == UNION {{i - 1 : i \in DOMAIN asked} : asked \in Turns}

ASSUME TaskRunAssumption ==
  /\ MaxRuns \in Nat /\ MaxAlerts \in Nat /\ Caller = RunId \cup {Guard} /\ Guard \notin RunId
  /\ {AlertStep, PlanStep} \subseteq StepId /\ AlertText \subseteq Arg
  /\ Pipeline \in Seq(Step) /\ UniqueIds(Pipeline)
  /\ \A type \in {"tool", "llm"} : \E i \in DOMAIN Pipeline : Pipeline[i].type = type
  /\ Plans \subseteq Seq([step : Step, sound : BOOLEAN])
  /\ Turns \subseteq Seq(ToolCall)
  /\ MaxPlanSteps \in Nat /\ MaxTurns \in Nat
  /\ \A turn \in 1 .. MaxTurns : TurnStep(turn) \in StepId
  \* "exec_<id>" is never "plan", nor is react_turn_<t>_call_<n> twice the same.
  /\ \A raw \in Plans : \A i \in DOMAIN raw : raw[i].step.id # PlanStep
  /\ \A t, u \in 1 .. MaxTurns, n, m \in CallIndex :
       /\ CallStep(t, n) \in StepId
       /\ CallStep(t, n) = CallStep(u, m) => t = u /\ n = m

VARIABLES
  run,      \* the latest run
  at,       \* where it is suspended: "wiped" in the reset, "ready" at its next node
  ctx,      \* state of its path
  traces,   \* its step traces
  rows,     \* status of each run's row
  judged    \* history: the end state and the traces the last run was judged on

pathVars == <<run, at, ctx, traces>>
vars == <<toolVars, pathVars, rows, judged>>

\* Why a path stopped.
Reason == {"none", "template_error", "transform_error", "empty_output", "invalid_json",
           "invalid_plan", "unresolved_placeholder", "max_iterations", "gateway_error",
           "tool_error"}

\* Outputs are known by the ids of their steps; nodes counts the graph's nodes run.
Context ==
  [path : Path, plan : Seq(Step), pos : Nat, outputs : SUBSET StepId,
   turn : Nat, calls : Seq(ToolCall), index : Nat, done : BOOLEAN,
   current : Step, error : Reason, nodes : Nat]

Trace == [id : StepId, kind : {"llm", "tool", "transform"}, status : {"completed", "failed"},
          write : BOOLEAN]

NewContext(path) ==
  [path |-> path, plan |-> IF path = "pipeline" THEN Pipeline ELSE <<>>, pos |-> 0,
   outputs |-> {}, turn |-> 0, calls |-> <<>>, index |-> 0, done |-> FALSE,
   current |-> Pipeline[1], error |-> "none", nodes |-> 0]

NotJudged == [state |-> <<>>, traces |-> <<>>]

TypeOK ==
  /\ ToolsTypeOK
  /\ run \in 0 .. MaxRuns
  /\ at \in {"idle", "wiped", "ready", "llm", "tool"}
  /\ ctx \in Context /\ traces \in Seq(Trace)
  /\ rows \in [RunId -> {"none", "RUNNING", "COMPLETED", "FAILED"}]
  /\ judged \in [state : Seq(Key), traces : Seq(Trace)]
  /\ call # NoCall <=> at = "tool"

Init ==
  /\ ToolsInit
  /\ run = 0 /\ at = "idle" /\ ctx = NewContext("pipeline") /\ traces = <<>>
  /\ rows = [r \in RunId |-> "none"]
  /\ judged = NotJudged

-----------------------------------------------------------------------------
\* Building blocks

\* WorkflowDefinition.tool_list
ToolList == {Pipeline[i].tool : i \in {j \in DOMAIN Pipeline : Pipeline[j].type = "tool"}}

Failed(c, reason) == [c EXCEPT !.error = reason]
Output(c) == [c EXCEPT !.outputs = @ \cup {c.current.id}]
Entered(c) == [c EXCEPT !.nodes = @ + 1]

\* The path goes on with context c, or waits for the gateway or a server.
GoOn(c) == at' = "ready" /\ ctx' = c
AskGateway(c) == at' = "llm" /\ ctx' = c /\ UNCHANGED <<traces, toolVars>>
CallTool(c) ==
  /\ at' = "tool" /\ ctx' = c
  /\ Send(run, c.current.id, c.current.tool, c.current.args)
  /\ UNCHANGED traces

Traced(c, status) ==
  Append(traces, [id |-> c.current.id, kind |-> c.current.type, status |-> status,
                  write |-> c.current.type = "tool" /\ c.current.tool \in WriteTool])

\* A run starts with backends.reset; the row is inserted after it.
Reset(path) ==
  /\ at = "idle" /\ run < MaxRuns
  /\ run' = run + 1 /\ at' = "wiped" /\ ctx' = NewContext(path) /\ judged' = NotJudged
  /\ Wipe
  /\ UNCHANGED <<traces, rows>>

Insert ==
  /\ at = "wiped"
  /\ Clear
  /\ rows' = [rows EXCEPT ![run] = "RUNNING"]
  /\ at' = "ready"
  /\ UNCHANGED <<run, ctx, traces, judged>>

-----------------------------------------------------------------------------
\* Pipeline: one node for each declared step, in order

\* execute_step: templates that read a missing output fail, a transform runs here.
ExecuteStep(c) ==
  LET step == c.current
      render == step.needs \subseteq c.outputs
  IN  \/ /\ step.needs # {}
         /\ GoOn(Failed(c, "template_error")) /\ UNCHANGED <<traces, toolVars>>
      \/ render /\ step.type = "llm" /\ AskGateway(c)
      \/ render /\ step.type = "tool" /\ CallTool(c)
      \/ /\ render /\ step.type = "transform"
         /\ \/ GoOn(Output(c)) /\ traces' = Traced(c, "completed")
            \/ GoOn(Failed(c, "transform_error")) /\ traces' = Traced(c, "failed")
         /\ UNCHANGED toolVars

\* Mutant: a node does not look at the error of the nodes before it.
PipelineNodeBlind ==
  /\ at = "ready" /\ ctx.path = "pipeline" /\ ctx.pos < Len(ctx.plan)
  /\ ExecuteStep(Entered([ctx EXCEPT !.pos = @ + 1, !.current = ctx.plan[ctx.pos + 1]]))
  /\ UNCHANGED <<run, rows, judged>>

PipelineNode ==
  /\ at = "ready" /\ ctx.path = "pipeline" /\ ctx.pos < Len(ctx.plan)
  /\ LET c == Entered([ctx EXCEPT !.pos = @ + 1, !.current = ctx.plan[ctx.pos + 1]])
     IN  IF ctx.error # "none"
         THEN GoOn(c) /\ UNCHANGED <<traces, toolVars>>
         ELSE ExecuteStep(c)
  /\ UNCHANGED <<run, rows, judged>>

-----------------------------------------------------------------------------
\* Planner-executor: one planning call, then the plan's steps

\* Mutant: duplicate step ids are accepted.
ValidPlanWithDuplicates(plan) ==
  /\ plan # <<>> /\ Len(plan) <= MaxPlanSteps
  /\ \A i \in DOMAIN plan :
       /\ plan[i].type = "tool" => plan[i].tool \in ToolList
       /\ plan[i].needs \subseteq {plan[j].id : j \in 1 .. i - 1}

\* validate_plan: size, unique ids, allowed tools, references to earlier steps only.
ValidPlan(plan) ==
  /\ plan # <<>> /\ Len(plan) <= MaxPlanSteps /\ UniqueIds(plan)
  /\ \A i \in DOMAIN plan :
       /\ plan[i].type = "tool" => plan[i].tool \in ToolList
       /\ plan[i].needs \subseteq {plan[j].id : j \in 1 .. i - 1}

StepsOf(raw) == [i \in DOMAIN raw |-> raw[i].step]

PlanNode ==
  /\ at = "ready" /\ ctx.path = "planner_executor" /\ ctx.plan = <<>> /\ ctx.error = "none"
  /\ AskGateway(Entered([ctx EXCEPT !.current =
       [Pipeline[1] EXCEPT !.id = PlanStep, !.type = "llm", !.json = TRUE]]))
  /\ UNCHANGED <<run, rows, judged>>

\* execute: the next step is the one after as many as there are outputs.  A
\* placeholder may name a field its step's output does not have.
ExecuteNode ==
  /\ at = "ready" /\ ctx.path = "planner_executor" /\ ctx.error = "none"
  /\ Cardinality(ctx.outputs) < Len(ctx.plan)
  /\ LET step == ctx.plan[Cardinality(ctx.outputs) + 1]
         c == Entered([ctx EXCEPT !.current = step])
     IN  \/ step.type = "llm" /\ AskGateway(c)
         \/ step.type = "tool" /\ CallTool(c)
         \/ /\ step.type = "tool" /\ step.needs # {}
            /\ GoOn(Failed(c, "unresolved_placeholder")) /\ UNCHANGED <<traces, toolVars>>
  /\ UNCHANGED <<run, rows, judged>>

-----------------------------------------------------------------------------
\* ReAct: agent turns and the tool calls they ask for

AgentNode ==
  /\ at = "ready" /\ ctx.path = "react" /\ ctx.error = "none" /\ ~ctx.done /\ ctx.calls = <<>>
  /\ LET c == Entered(ctx)
     IN  IF ctx.turn >= MaxTurns
         THEN GoOn(Failed(c, "max_iterations")) /\ UNCHANGED <<traces, toolVars>>
         ELSE AskGateway([c EXCEPT !.turn = @ + 1, !.current =
                [Pipeline[1] EXCEPT !.id = TurnStep(ctx.turn + 1), !.type = "llm"]])
  /\ UNCHANGED <<run, rows, judged>>

\* One call of the turn: arguments that are no object, and tools that are not the
\* workflow's, are answered to the agent without a call.
CallNode ==
  /\ at = "ready" /\ ctx.path = "react" /\ ctx.calls # <<>>
  /\ LET asked == Head(ctx.calls)
         c == [ctx EXCEPT !.calls = Tail(@), !.index = @ + 1, !.current =
                 [Pipeline[1] EXCEPT !.id = CallStep(ctx.turn, ctx.index), !.type = "tool",
                                     !.tool = asked.tool, !.args = asked.args]]
     IN  \/ ~asked.valid /\ GoOn(c) /\ UNCHANGED <<traces, toolVars>>
         \/ /\ asked.valid /\ asked.tool \notin ToolList
            /\ GoOn(c) /\ traces' = Traced(c, "failed") /\ UNCHANGED toolVars
         \/ asked.valid /\ asked.tool \in ToolList /\ CallTool(c)
  /\ UNCHANGED <<run, rows, judged>>

-----------------------------------------------------------------------------
\* Answers

\* What each path makes of a completion.
AfterCompletion(c) ==
  CASE c.path = "pipeline" ->
         {Output(c), Failed(c, IF c.current.json THEN "invalid_json" ELSE "empty_output")}
    [] c.path = "planner_executor" /\ c.current.id = PlanStep ->
         {Failed(c, "invalid_plan")} \cup
         {IF ValidPlan(StepsOf(raw)) THEN [c EXCEPT !.plan = StepsOf(raw)]
          ELSE Failed(c, "invalid_plan") :
            raw \in {p \in Plans : \A i \in DOMAIN p : p[i].sound}}
    [] c.path = "planner_executor" /\ c.current.id # PlanStep ->
         {Output(c)} \cup (IF c.current.json THEN {Failed(c, "invalid_json")} ELSE {})
    [] c.path = "react" ->
         {IF asked = <<>> THEN [c EXCEPT !.done = TRUE]
          ELSE Entered([c EXCEPT !.calls = asked, !.index = 0]) : asked \in Turns}

\* HttpGatewayClient.chat: the gateway is out of reach, or answers with an error.
GatewayFails == GoOn(Failed(ctx, "gateway_error")) /\ traces' = Traced(ctx, "failed")

\* llm_step: a completion, or a gateway error that ends the path.
LlmAnswer ==
  /\ at = "llm"
  /\ \/ \E c \in AfterCompletion(ctx) : GoOn(c) /\ traces' = Traced(ctx, "completed")
     \/ GatewayFails
  /\ UNCHANGED <<run, rows, judged, toolVars>>

\* tool_step: the error of a tool ends the pipeline or the plan, and is shown to the
\* agent in the other path.
ToolAnswer ==
  /\ at = "tool"
  /\ Close
  /\ traces' = Traced(ctx, IF call.answer = "ok" THEN "completed" ELSE "failed")
  /\ GoOn(IF ctx.path = "react" THEN ctx
          ELSE IF call.answer = "ok" THEN Output(ctx) ELSE Failed(ctx, "tool_error"))
  /\ UNCHANGED <<run, rows, judged>>

-----------------------------------------------------------------------------
\* The end of a run

\* Mutant: after the plan failed, the graph still waits for the outputs.
EndedIgnoringError(c) ==
  CASE c.path = "pipeline" -> c.pos = Len(c.plan)
    [] c.path = "planner_executor" ->
         c.plan # <<>> /\ Cardinality(c.outputs) >= Len(c.plan)
    [] c.path = "react" -> c.error # "none" \/ c.done

Ended(c) ==
  CASE c.path = "pipeline" -> c.pos = Len(c.plan)
    [] c.path = "planner_executor" ->
         c.error # "none" \/ (c.plan # <<>> /\ Cardinality(c.outputs) >= Len(c.plan))
    [] c.path = "react" -> c.error # "none" \/ c.done

\* The locals of the run are gone.
Leave == at' = "idle" /\ ctx' = NewContext("pipeline") /\ traces' = <<>> /\ UNCHANGED run

\* The snapshot, the validators and the finished row with its step traces.
Conclude ==
  /\ at = "ready" /\ Ended(ctx)
  /\ \E passed \in BOOLEAN :
       rows' = [rows EXCEPT ![run] = IF ctx.error = "none" /\ passed THEN "COMPLETED" ELSE "FAILED"]
  /\ judged' = [state |-> workspace, traces |-> traces]
  /\ Leave
  /\ UNCHANGED toolVars

\* An exception that is no PathError (the database, a lost session, a plan whose
\* shape raises TypeError) or the end of the process; a row stays RUNNING.
Break ==
  /\ at # "idle"
  /\ Leave /\ Abandon
  /\ UNCHANGED <<rows, judged>>

\* The guard posts a pause alert through the runner's toolbox.
Alert ==
  /\ Len(SelectSeq(workspace, LAMBDA k : k.run = Guard)) < MaxAlerts
  /\ \E text \in AlertText : Post(Guard, AlertStep, text)
  /\ UNCHANGED <<pathVars, rows, judged>>

Serving == (Serve \/ ServeStray) /\ UNCHANGED <<pathVars, rows, judged>>

Proceed ==
  \/ Insert \/ PipelineNode \/ PlanNode \/ ExecuteNode \/ AgentNode \/ CallNode
  \/ LlmAnswer \/ ToolAnswer \/ Conclude

Next ==
  \/ \E path \in Path : Reset(path)
  \/ Proceed \/ Serving \/ Break \/ Alert

\* The event loop goes on, the gateway answers within the client's 300 s, and a
\* server answers (a call that waits for a key gives up at its deadline).
Spec ==
  Init /\ [][Next]_vars /\ WF_vars(Proceed) /\ WF_vars(Serve /\ UNCHANGED <<pathVars, rows, judged>>)

-----------------------------------------------------------------------------

Writes(steps, status) == {i \in DOMAIN steps : steps[i].write /\ steps[i].status \in status}

(***************************************************************************)
(* What the validators read is the work of the run they judge: a step has  *)
(* written at most once, each write its traces call completed is there, a  *)
(* replay never stands for two of them, every other write of its own comes *)
(* from a call that failed, and what is not its own is an alert or a late  *)
(* write of a broken run.                                                  *)
(***************************************************************************)
EndStateIsOwn ==
  LET state == judged.state
      steps == judged.traces
      own == {i \in DOMAIN state : state[i].run = run}
  IN  /\ \A i, j \in own : state[i].step = state[j].step => i = j
      /\ \A i \in Writes(steps, {"completed"}) : \E j \in own : state[j].step = steps[i].id
      /\ Cardinality(Writes(steps, {"completed"})) <= Cardinality(own)
      /\ Cardinality(own) <= Cardinality(Writes(steps, {"completed", "failed"}))
      /\ \A i \in DOMAIN state :
           state[i].run \in {run, Guard} \/ rows[state[i].run] \in {"none", "RUNNING"}

(***************************************************************************)
(* Every write in the workspace has its tool_calls row, unless its answer  *)
(* is on the way or its run broke off.                                     *)
(***************************************************************************)
LedgerCoversWorkspace ==
  \A i \in DOMAIN workspace :
    LET k == workspace[i]
    IN  \/ \E row \in ledger : row.run = k.run /\ row.step = k.step
        \/ call # NoCall /\ call.key = k
        \/ k.run # Guard /\ rows[k.run] \in {"none", "RUNNING"} /\ (k.run < run \/ at = "idle")

(***************************************************************************)
(* A stored key swallows the next write under it, so every stored key must *)
(* have its write in the workspace: except inside a reset, or after one    *)
(* that broke off before the keys were cleared.                            *)
(***************************************************************************)
StoredKeysHaveEffects ==
  run > 0 /\ rows[run] # "none" => \A k \in stored : \E i \in DOMAIN workspace : workspace[i] = k

(***************************************************************************)
(* The planning call comes first; then the plan is executed in its order,  *)
(* each step once, and a step only when all it reads has been produced;    *)
(* and no run is ended by LangGraph's recursion limit, which is set from   *)
(* the plan size and the turn limit.                                       *)
(***************************************************************************)
PlanFollowed ==
  /\ ctx.path = "planner_executor" =>
       /\ Len(traces) <= Len(ctx.plan) + 1
       /\ \A i \in DOMAIN traces :
            traces[i].id = IF i = 1 THEN PlanStep ELSE ctx.plan[i - 1].id
       /\ at \in {"llm", "tool"} /\ ctx.current.id # PlanStep =>
            ctx.current.needs \subseteq ctx.outputs
       /\ ctx.nodes <= 2 * MaxPlanSteps + 5
  /\ ctx.path = "react" => ctx.nodes <= 2 * MaxTurns + 5

(***************************************************************************)
(* llm_step: "budget_exhausted halts the run".  A run whose path failed,   *)
(* for whatever reason, makes no further call.                             *)
(***************************************************************************)
NoCallAfterFailure ==
  [][at = "ready" /\ ctx.error # "none" => at' \in {"ready", "idle"}]_vars

(***************************************************************************)
(* Every run ends: turns, plans and pipelines run out on every path.       *)
(***************************************************************************)
RunsEnd == at # "idle" ~> at = "idle"
=============================================================================
