---------------------------- MODULE TaskRunProofs ----------------------------
(***************************************************************************)
(* Type correctness of task runs, what ties the workspace to the key table *)
(* and to the tool ledger, that plans are followed and that the validators *)
(* judge a run by its own writes, for any number of runs, any workflow and *)
(* whatever the models answer.                                             *)
(***************************************************************************)
EXTENDS TaskRun, FiniteSetTheorems, TLAPS

-----------------------------------------------------------------------------
\* The inductive invariant

\* A path's context: an agent's calls are what is left of one of its turns.
Good(c) ==
  /\ c \in Context /\ IsFiniteSet(c.outputs) /\ c.turn \in 0 .. MaxTurns
  /\ c.calls # <<>> =>
       /\ c.turn >= 1
       /\ \E asked \in Turns : c.index + Len(c.calls) = Len(asked)

\* Rows follow the runs, and a run on its way has one that says so.
RowsFollow ==
  /\ at # "idle" => run \in RunId
  /\ at \in {"ready", "llm", "tool"} => rows[run] = "RUNNING"
  /\ \A r \in RunId : r > run => rows[r] = "none"
  /\ at = "llm" /\ ctx.path = "react" => ctx.turn >= 1

\* A call in flight is the present run's.
CallIsOwn == call # NoCall => call.key.run = run

Broken(r) ==
  /\ r # Guard /\ r <= run
  /\ rows[r] \in {"none", "RUNNING"} /\ (r < run \/ at = "idle")

\* What is still with a server comes from runs that broke off.
StraysAreBroken == \A key \in stray : Broken(key.run)

Typed == TypeOK /\ Good(ctx) /\ RowsFollow

IInv == Typed /\ CallIsOwn /\ StraysAreBroken /\ LedgerCoversWorkspace /\ StoredKeysHaveEffects

-----------------------------------------------------------------------------
\* Building blocks

LEMMA PipelineStarts == Pipeline \in Seq(Step) /\ Pipeline[1] \in Step
<1>1. PICK i \in DOMAIN Pipeline : Pipeline[i].type = "tool"
  BY TaskRunAssumption
<1>2. Pipeline \in Seq(Step)
  BY TaskRunAssumption
<1> QED BY <1>1, <1>2

LEMMA NewIsGood == ASSUME NEW path \in Path PROVE Good(NewContext(path))
<1>1. NewContext(path) \in Context
  <2>1. (IF path = "pipeline" THEN Pipeline ELSE <<>>) \in Seq(Step)
    BY PipelineStarts
  <2>2. <<>> \in Seq(ToolCall) /\ Pipeline[1] \in Step
    BY PipelineStarts
  <2>3. "none" \in Reason
    BY DEF Reason
  <2>4. {} \in SUBSET StepId /\ FALSE \in BOOLEAN /\ 0 \in Nat
    OBVIOUS
  <2> QED BY <2>1, <2>2, <2>3, <2>4 DEF NewContext, Context
<1>2. MaxTurns \in Nat
  BY TaskRunAssumption
<1> QED BY <1>1, <1>2, FS_EmptySet DEF Good, NewContext

LEMMA TracedTyped ==
  ASSUME NEW c \in Context, traces \in Seq(Trace), NEW status \in {"completed", "failed"}
  PROVE  Traced(c, status) \in Seq(Trace)
<1>1. c.current \in Step
  BY DEF Context
<1>2. [id |-> c.current.id, kind |-> c.current.type, status |-> status,
       write |-> c.current.type = "tool" /\ c.current.tool \in WriteTool] \in Trace
  BY <1>1 DEF Step, Trace
<1> QED BY <1>2 DEF Traced

\* Contexts stay good when their error, outputs or nodes change.
LEMMA KeepGood ==
  ASSUME NEW c, Good(c)
  PROVE  /\ Good(Entered(c)) /\ Good(Output(c))
         /\ \A reason \in Reason : Good(Failed(c, reason))
<1>1. c \in Context
  BY DEF Good
<1>2. c.current.id \in StepId
  BY <1>1 DEF Context, Step
<1>3. Good(Entered(c))
  BY <1>1 DEF Good, Context, Entered
<1>4. Good(Output(c))
  <2>1. Output(c) = [c EXCEPT !.outputs = c.outputs \cup {c.current.id}]
    BY DEF Output
  <2>2. IsFiniteSet(c.outputs \cup {c.current.id})
    BY FS_AddElement DEF Good
  <2>3. Output(c) \in Context /\ Output(c).outputs = c.outputs \cup {c.current.id}
    BY <1>1, <1>2, <2>1 DEF Context
  <2>4. Output(c).turn = c.turn /\ Output(c).calls = c.calls /\ Output(c).index = c.index
    BY <1>1, <2>1 DEF Context
  <2> QED BY <2>2, <2>3, <2>4 DEF Good
<1>5. \A reason \in Reason : Good(Failed(c, reason))
  BY <1>1 DEF Good, Context, Failed
<1> QED BY <1>3, <1>4, <1>5

LEMMA Moved ==
  ASSUME NEW c \in Context, NEW step \in Step, NEW n \in Nat
  PROVE  /\ [c EXCEPT !.pos = n, !.current = step] =
              [[c EXCEPT !.pos = n] EXCEPT !.current = step]
         /\ [c EXCEPT !.turn = n, !.current = step] =
              [[c EXCEPT !.turn = n] EXCEPT !.current = step]
  OBVIOUS

\* A context with another step at hand.
LEMMA CurrentChanges ==
  ASSUME NEW c, Good(c), NEW step \in Step
  PROVE  Good([c EXCEPT !.current = step])
  BY DEF Good, Context

LEMMA InitIInv == Init => IInv
<1> SUFFICES ASSUME Init PROVE IInv
  OBVIOUS
<1>1. Good(ctx)
  BY NewIsGood DEF Init, Path
<1>2. TypeOK
  BY <1>1, TaskRunAssumption
     DEF Good, Init, ToolsInit, TypeOK, ToolsTypeOK, RunId, NotJudged
<1>3. RowsFollow
  BY DEF Init, RowsFollow
<1> QED BY <1>1, <1>2, <1>3 DEF Init, ToolsInit, IInv, Typed, CallIsOwn, StraysAreBroken,
           LedgerCoversWorkspace, StoredKeysHaveEffects

-----------------------------------------------------------------------------
\* What a write does

HasEffects == \A key \in stored : \E i \in DOMAIN workspace : workspace[i] = key

LEMMA WriteKeeps ==
  ASSUME ToolsTypeOK, NEW key \in Key, NEW answer, Write(key, answer)
  PROVE  /\ workspace' \in Seq(Key) /\ stored' \in SUBSET Key
         /\ HasEffects => HasEffects'
         /\ \A i \in DOMAIN workspace' :
              workspace'[i] = key \/ \E j \in DOMAIN workspace : workspace[j] = workspace'[i]
<1>1. workspace \in Seq(Key) /\ stored \in SUBSET Key
  BY DEF ToolsTypeOK
<1>2. CASE UNCHANGED <<workspace, stored>>
  BY <1>1, <1>2 DEF HasEffects
<1>3. CASE workspace' = Append(workspace, key) /\ stored' \in {stored, stored \cup {key}}
  <2>1. /\ workspace' \in Seq(Key) /\ Len(workspace') = Len(workspace) + 1
        /\ workspace'[Len(workspace) + 1] = key
        /\ \A i \in 1 .. Len(workspace) : workspace'[i] = workspace[i]
    BY <1>1, <1>3
  <2>2. DOMAIN workspace = 1 .. Len(workspace) /\ DOMAIN workspace' = 1 .. Len(workspace) + 1
    BY <1>1, <2>1
  <2>3. HasEffects => HasEffects'
    <3> SUFFICES ASSUME HasEffects, NEW k \in stored'
                 PROVE  \E i \in DOMAIN workspace' : workspace'[i] = k
      BY DEF HasEffects
    <3>1. CASE k = key
      BY <1>1, <2>1, <2>2, <3>1
    <3>2. CASE k # key
      <4>1. PICK i \in DOMAIN workspace : workspace[i] = k
        BY <1>3, <3>2 DEF HasEffects
      <4> QED BY <1>1, <2>1, <2>2, <4>1
    <3> QED BY <3>1, <3>2
  <2>4. \A i \in DOMAIN workspace' :
          workspace'[i] = key \/ \E j \in DOMAIN workspace : workspace[j] = workspace'[i]
    BY <1>1, <2>1, <2>2
  <2> QED BY <1>1, <1>3, <2>1, <2>3, <2>4
<1> QED BY <1>2, <1>3 DEF Write

-----------------------------------------------------------------------------
\* A path's node

PathStep == UNCHANGED <<run, rows, judged>>

\* The path goes on to its next node, without a call.
LEMMA GoesOn ==
  ASSUME IInv, at \in {"ready", "llm"}, NEW c, Good(c), GoOn(c), traces' \in Seq(Trace),
         UNCHANGED toolVars, PathStep
  PROVE  IInv'
<1>1. TypeOK'
  BY DEF IInv, Typed, TypeOK, ToolsTypeOK, Good, GoOn, PathStep, toolVars
<1>2. Good(ctx') /\ RowsFollow'
  BY DEF IInv, Typed, RowsFollow, GoOn, PathStep
<1>3. CallIsOwn' /\ StraysAreBroken'
  BY DEF IInv, CallIsOwn, StraysAreBroken, Broken, GoOn, PathStep, toolVars
<1>4. LedgerCoversWorkspace'
  BY DEF IInv, LedgerCoversWorkspace, GoOn, PathStep, toolVars
<1>5. StoredKeysHaveEffects'
  BY DEF IInv, StoredKeysHaveEffects, PathStep, toolVars
<1> QED BY <1>1, <1>2, <1>3, <1>4, <1>5 DEF IInv, Typed, Good

\* It waits for the gateway.
LEMMA AsksGateway ==
  ASSUME IInv, at = "ready", NEW c, Good(c), c.path = "react" => c.turn >= 1,
         AskGateway(c), PathStep
  PROVE  IInv'
<1>1. TypeOK'
  BY DEF IInv, Typed, TypeOK, ToolsTypeOK, Good, AskGateway, PathStep, toolVars
<1>2. Good(ctx') /\ RowsFollow'
  BY DEF IInv, Typed, RowsFollow, AskGateway, PathStep
<1>3. CallIsOwn' /\ StraysAreBroken'
  BY DEF IInv, CallIsOwn, StraysAreBroken, Broken, AskGateway, PathStep, toolVars
<1>4. LedgerCoversWorkspace'
  BY DEF IInv, LedgerCoversWorkspace, AskGateway, PathStep, toolVars
<1>5. StoredKeysHaveEffects'
  BY DEF IInv, StoredKeysHaveEffects, AskGateway, PathStep, toolVars
<1> QED BY <1>1, <1>2, <1>3, <1>4, <1>5 DEF IInv, Typed, Good

\* It waits for a tool, for which it has no call in flight yet.
LEMMA CallsTool ==
  ASSUME IInv, at = "ready", NEW c, Good(c), CallTool(c), PathStep
  PROVE  IInv'
<1>1. /\ c.current \in Step /\ run \in RunId /\ run \in Caller
      /\ KeyOf(run, c.current.id, c.current.args) \in Key
  BY TaskRunAssumption DEF IInv, Typed, RowsFollow, Good, Context, Step, KeyOf, Key
<1>2. /\ call' = [key |-> KeyOf(run, c.current.id, c.current.args), tool |-> c.current.tool,
                  answer |-> "none"]
      /\ call' \in Call /\ call' # NoCall
  BY <1>1, ToolAssumption DEF CallTool, Send, Call, Answer, Step
<1>3. call = NoCall
  BY DEF IInv, Typed, TypeOK
<1>4. TypeOK'
  BY <1>2 DEF IInv, Typed, TypeOK, ToolsTypeOK, Good, CallTool, Send, PathStep
<1>5. Good(ctx') /\ RowsFollow'
  BY DEF IInv, Typed, RowsFollow, CallTool, PathStep
<1>6. CallIsOwn' /\ StraysAreBroken'
  BY <1>2 DEF IInv, CallIsOwn, StraysAreBroken, Broken, CallTool, Send, PathStep, KeyOf
<1>7. LedgerCoversWorkspace'
  BY <1>3 DEF IInv, LedgerCoversWorkspace, CallTool, Send, PathStep
<1>8. StoredKeysHaveEffects'
  BY DEF IInv, StoredKeysHaveEffects, CallTool, Send, PathStep
<1> QED BY <1>4, <1>5, <1>6, <1>7, <1>8 DEF IInv, Typed, Good

-----------------------------------------------------------------------------
\* The nodes

LEMMA ReadyIsTyped ==
  ASSUME IInv
  PROVE  /\ ctx \in Context /\ Good(ctx) /\ traces \in Seq(Trace)
         /\ \A c \in Context, status \in {"completed", "failed"} :
              Traced(c, status) \in Seq(Trace)
<1>1. traces \in Seq(Trace) /\ Good(ctx)
  BY DEF IInv, Typed, TypeOK
<1> QED BY <1>1, TracedTyped DEF Good

LEMMA PipelineKeeps == ASSUME IInv, PipelineNode PROVE IInv'
<1> DEFINE c == Entered([ctx EXCEPT !.pos = @ + 1, !.current = ctx.plan[ctx.pos + 1]])
<1>1. Good(ctx) /\ ctx \in Context
  BY ReadyIsTyped
<1>2. ctx.plan[ctx.pos + 1] \in Step
  BY <1>1 DEF PipelineNode, Context
<1>3. Good([ctx EXCEPT !.pos = @ + 1, !.current = ctx.plan[ctx.pos + 1]])
  <2>1. ctx.pos + 1 \in Nat
    BY <1>1 DEF Context
  <2>2. Good([ctx EXCEPT !.pos = ctx.pos + 1])
    BY <1>1, <2>1 DEF Good, Context
  <2> QED BY <1>1, <1>2, <2>1, <2>2, CurrentChanges, Moved
<1>4. Good(c) /\ c \in Context /\ Good(Output(c)) /\ \A reason \in Reason : Good(Failed(c, reason))
  BY <1>3, KeepGood DEF Good
<1>5. c.path = "pipeline"
  BY <1>1 DEF PipelineNode, Entered, Context
<1>6. PathStep /\ at = "ready"
  BY DEF PipelineNode, PathStep
<1>7. CASE GoOn(c) /\ UNCHANGED <<traces, toolVars>>
  BY <1>4, <1>6, <1>7, GoesOn, ReadyIsTyped
<1>8. CASE ExecuteStep(c)
  <2>1. CASE GoOn(Failed(c, "template_error")) /\ UNCHANGED <<traces, toolVars>>
    <3>1. Good(Failed(c, "template_error"))
      BY <1>4 DEF Reason
    <3> QED BY <1>6, <2>1, <3>1, GoesOn, ReadyIsTyped
  <2>2. CASE AskGateway(c)
    BY <1>4, <1>5, <1>6, <2>2, AsksGateway
  <2>3. CASE CallTool(c)
    BY <1>4, <1>6, <2>3, CallsTool
  <2>4. CASE GoOn(Output(c)) /\ traces' = Traced(c, "completed") /\ UNCHANGED toolVars
    BY <1>4, <1>6, <2>4, GoesOn, ReadyIsTyped
  <2>5. CASE GoOn(Failed(c, "transform_error")) /\ traces' = Traced(c, "failed") /\ UNCHANGED toolVars
    <3>1. Good(Failed(c, "transform_error"))
      BY <1>4 DEF Reason
    <3> QED BY <1>4, <1>6, <2>5, <3>1, GoesOn, ReadyIsTyped
  <2> QED BY <1>8, <2>1, <2>2, <2>3, <2>4, <2>5 DEF ExecuteStep
<1> QED BY <1>7, <1>8 DEF PipelineNode

LEMMA PlanKeeps == ASSUME IInv, PlanNode PROVE IInv'
<1> DEFINE step == [Pipeline[1] EXCEPT !.id = PlanStep, !.type = "llm", !.json = TRUE]
           c == Entered([ctx EXCEPT !.current = step])
<1>1. Good(ctx) /\ ctx \in Context
  BY ReadyIsTyped
<1>2. step \in Step
  BY PipelineStarts, TaskRunAssumption DEF Step
<1>3. Good([ctx EXCEPT !.current = step])
  BY <1>1, <1>2 DEF Good, Context
<1>4. Good(c) /\ c.path = "planner_executor"
  BY <1>1, <1>3, KeepGood DEF PlanNode, Entered, Context
<1> QED BY <1>4, AsksGateway DEF PlanNode, PathStep

LEMMA ExecuteKeeps == ASSUME IInv, ExecuteNode PROVE IInv'
<1> DEFINE step == ctx.plan[Cardinality(ctx.outputs) + 1]
           c == Entered([ctx EXCEPT !.current = step])
<1>1. Good(ctx) /\ ctx \in Context /\ PathStep /\ at = "ready"
  BY ReadyIsTyped DEF ExecuteNode, PathStep
<1>2. CASE step \in Step
  <2>1. Good([ctx EXCEPT !.current = step])
    BY <1>1, <1>2 DEF Good, Context
  <2>2. Good(c) /\ c.path = "planner_executor"
    BY <1>1, <2>1, KeepGood DEF ExecuteNode, Entered, Context
  <2>3. Good(Failed(c, "unresolved_placeholder"))
    BY <2>2, KeepGood DEF Reason
  <2>4. CASE AskGateway(c)
    BY <1>1, <2>2, <2>4, AsksGateway
  <2>5. CASE CallTool(c)
    BY <1>1, <2>2, <2>5, CallsTool
  <2>6. CASE GoOn(Failed(c, "unresolved_placeholder")) /\ UNCHANGED <<traces, toolVars>>
    BY <1>1, <2>3, <2>6, GoesOn, ReadyIsTyped
  <2> QED BY <2>4, <2>5, <2>6 DEF ExecuteNode
<1>3. step \in Step
  <2>1. Cardinality(ctx.outputs) \in Nat
    BY <1>1, FS_CardinalityType DEF Good
  <2> QED BY <1>1, <2>1 DEF ExecuteNode, Context
<1> QED BY <1>2, <1>3

LEMMA AgentKeeps == ASSUME IInv, AgentNode PROVE IInv'
<1> DEFINE c == Entered(ctx)
           step == [Pipeline[1] EXCEPT !.id = TurnStep(ctx.turn + 1), !.type = "llm"]
           d == [c EXCEPT !.turn = @ + 1, !.current = step]
<1>1. Good(ctx) /\ ctx \in Context /\ PathStep /\ at = "ready" /\ ctx.calls = <<>>
  BY ReadyIsTyped DEF AgentNode, PathStep
<1>2. Good(c) /\ c \in Context /\ c.turn = ctx.turn /\ c.calls = <<>>
  BY <1>1, KeepGood DEF Good, Context, Entered
<1>3. CASE ctx.turn >= MaxTurns
  <2>1. Good(Failed(c, "max_iterations"))
    BY <1>2, KeepGood DEF Reason
  <2> QED BY <1>1, <1>3, <2>1, GoesOn, ReadyIsTyped DEF AgentNode
<1>4. CASE ~(ctx.turn >= MaxTurns)
  <2>1. ctx.turn + 1 \in 1 .. MaxTurns
    BY <1>1, <1>4, TaskRunAssumption DEF Good
  <2>2. step \in Step
    BY <2>1, PipelineStarts, TaskRunAssumption DEF Step
  <2>3. Good([c EXCEPT !.turn = ctx.turn + 1])
    BY <1>2, <2>1 DEF Good, Context
  <2>4. Good([[c EXCEPT !.turn = ctx.turn + 1] EXCEPT !.current = step])
    BY <2>2, <2>3, CurrentChanges
  <2>5. d = [[c EXCEPT !.turn = ctx.turn + 1] EXCEPT !.current = step] /\ d.turn >= 1
    BY <1>2, <2>1, <2>2, Moved DEF Context
  <2>6. AskGateway(d)
    BY <1>4 DEF AgentNode
  <2> QED BY <1>1, <2>4, <2>6, <2>5, AsksGateway
<1> QED BY <1>3, <1>4

LEMMA CallKeeps == ASSUME IInv, CallNode PROVE IInv'
<1> DEFINE asked == Head(ctx.calls)
           step == [Pipeline[1] EXCEPT !.id = CallStep(ctx.turn, ctx.index), !.type = "tool",
                                       !.tool = asked.tool, !.args = asked.args]
           c == [ctx EXCEPT !.calls = Tail(@), !.index = @ + 1, !.current = step]
<1>1. Good(ctx) /\ ctx \in Context /\ PathStep /\ at = "ready" /\ ctx.calls # <<>>
  BY ReadyIsTyped DEF CallNode, PathStep
<1>2. ctx.calls \in Seq(ToolCall) /\ ctx.index \in Nat /\ ctx.turn \in 1 .. MaxTurns
  BY <1>1, TaskRunAssumption DEF Good, Context
<1>3. PICK turn \in Turns : ctx.index + Len(ctx.calls) = Len(turn)
  BY <1>1 DEF Good
<1>4. asked \in ToolCall /\ Tail(ctx.calls) \in Seq(ToolCall)
      /\ Len(Tail(ctx.calls)) = Len(ctx.calls) - 1 /\ Len(ctx.calls) \in Nat \ {0}
  BY <1>1, <1>2
<1>5. CallStep(ctx.turn, ctx.index) \in StepId
  <2>1. turn \in Seq(ToolCall)
    BY TaskRunAssumption
  <2>2. ctx.index + 1 \in DOMAIN turn /\ (ctx.index + 1) - 1 = ctx.index
    BY <1>2, <1>3, <1>4, <2>1
  <2>3. ctx.index \in {i - 1 : i \in DOMAIN turn}
    BY <2>2
  <2>4. ctx.index \in CallIndex
    BY <2>3 DEF CallIndex
  <2> QED BY <1>2, <2>4, TaskRunAssumption
<1>6. step \in Step
  BY <1>4, <1>5, PipelineStarts DEF Step, ToolCall
<1>7. Good([ctx EXCEPT !.calls = Tail(@), !.index = @ + 1])
  <2>1. ctx.index + 1 + Len(Tail(ctx.calls)) = Len(turn)
    BY <1>2, <1>3, <1>4
  <2> DEFINE d == [ctx EXCEPT !.calls = Tail(@), !.index = @ + 1]
  <2>2. ctx.index + 1 \in Nat
    BY <1>2
  <2>3. /\ d \in Context /\ d.calls = Tail(ctx.calls) /\ d.index = ctx.index + 1
        /\ d.turn = ctx.turn /\ d.outputs = ctx.outputs
    <3> HIDE DEF c, step, asked
    <3>1. Tail(ctx.calls) \in Seq(ToolCall)
      BY <1>4
    <3>2. ctx \in Context
      BY <1>1
    <3>3. d = [ctx EXCEPT !.calls = Tail(ctx.calls), !.index = ctx.index + 1]
      OBVIOUS
    <3> HIDE DEF d
    <3> QED BY <3>1, <3>2, <3>3, <2>2 DEF Context
  <2> HIDE DEF c, step, asked, d
  <2>4. Good(d)
    BY <1>1, <1>2, <2>1, <2>3 DEF Good
  <2> QED BY <2>4 DEF d
<1>8. Good(c) /\ c \in Context
  <2>1. c = [[ctx EXCEPT !.calls = Tail(@), !.index = @ + 1] EXCEPT !.current = step]
    OBVIOUS
  <2> QED BY <1>6, <1>7, <2>1, CurrentChanges DEF Good
<1>9. CASE GoOn(c) /\ traces' \in {traces, Traced(c, "failed")} /\ UNCHANGED toolVars
  BY <1>1, <1>8, <1>9, GoesOn, ReadyIsTyped
<1>10. CASE CallTool(c)
  BY <1>1, <1>8, <1>10, CallsTool
<1> QED BY <1>9, <1>10 DEF CallNode

-----------------------------------------------------------------------------
\* Answers

LEMMA StepsTyped ==
  ASSUME NEW raw \in Plans
  PROVE  StepsOf(raw) \in Seq(Step)
<1>1. raw \in Seq([step : Step, sound : BOOLEAN])
  BY TaskRunAssumption
<1> DEFINE Raw == [step : Step, sound : BOOLEAN]
<1>2. DOMAIN raw = 1 .. Len(raw) /\ Len(raw) \in Nat /\ \A i \in DOMAIN raw : raw[i] \in Raw
  <2>1. raw \in Seq(Raw)
    BY <1>1
  <2> HIDE DEF Raw
  <2> QED BY <2>1
<1>3. \A i \in DOMAIN raw : raw[i].step \in Step
  BY <1>2
<1> QED BY <1>2, <1>3 DEF StepsOf

LEMMA CompletionGood ==
  ASSUME NEW c, Good(c), c.path = "react" => c.turn >= 1, NEW d \in AfterCompletion(c)
  PROVE  Good(d)
<1>1. c \in Context
  BY DEF Good
<1>2. Good(Output(c)) /\ \A reason \in Reason : Good(Failed(c, reason))
  BY KeepGood
<1>3. CASE c.path = "pipeline"
  <2>1. d \in {Output(c), Failed(c, IF c.current.json THEN "invalid_json" ELSE "empty_output")}
    BY <1>3 DEF AfterCompletion
  <2> QED BY <1>2, <2>1 DEF Reason
<1>4. CASE c.path = "planner_executor" /\ c.current.id = PlanStep
  <2>1. \/ d = Failed(c, "invalid_plan")
        \/ \E raw \in Plans : d = [c EXCEPT !.plan = StepsOf(raw)]
    BY <1>4 DEF AfterCompletion
  <2>2. ASSUME NEW raw \in Plans PROVE Good([c EXCEPT !.plan = StepsOf(raw)])
    BY <1>1, StepsTyped DEF Good, Context
  <2> QED BY <1>2, <2>1, <2>2 DEF Reason
<1>5. CASE c.path = "planner_executor" /\ c.current.id # PlanStep
  <2>1. d \in {Output(c), Failed(c, "invalid_json")}
    BY <1>5 DEF AfterCompletion
  <2> QED BY <1>2, <2>1 DEF Reason
<1>6. CASE c.path = "react"
  <2>1. \/ d = [c EXCEPT !.done = TRUE]
        \/ \E asked \in Turns : d = Entered([c EXCEPT !.calls = asked, !.index = 0])
    BY <1>6 DEF AfterCompletion
  <2>2. Good([c EXCEPT !.done = TRUE])
    BY <1>1 DEF Good, Context
  <2>3. ASSUME NEW asked \in Turns
        PROVE  Good(Entered([c EXCEPT !.calls = asked, !.index = 0]))
    <3> DEFINE e == [c EXCEPT !.calls = asked, !.index = 0]
    <3>1. asked \in Seq(ToolCall)
      BY TaskRunAssumption
    <3>2. /\ e \in Context /\ e.calls = asked /\ e.index = 0
          /\ e.turn = c.turn /\ e.outputs = c.outputs
      BY <1>1, <3>1 DEF Context
    <3> HIDE DEF e
    <3>3. e.index + Len(e.calls) = Len(asked)
      BY <3>1, <3>2
    <3>4. Good(e)
      BY <1>6, <3>2, <3>3 DEF Good
    <3>5. Good(Entered(e))
      BY <3>4, KeepGood
    <3> QED BY <3>5 DEF e
  <2> QED BY <2>1, <2>2, <2>3
<1>7. c.path \in Path
  BY <1>1 DEF Context
<1> QED BY <1>3, <1>4, <1>5, <1>6, <1>7 DEF Path

LEMMA LlmAnswerKeeps == ASSUME IInv, LlmAnswer PROVE IInv'
<1>1. Good(ctx) /\ ctx \in Context /\ PathStep /\ at = "llm" /\ UNCHANGED toolVars
  BY ReadyIsTyped DEF LlmAnswer, PathStep
<1>2. ctx.path = "react" => ctx.turn >= 1
  BY <1>1 DEF IInv, Typed, RowsFollow
<1>3. ASSUME NEW c \in AfterCompletion(ctx), GoOn(c), traces' = Traced(ctx, "completed")
      PROVE  IInv'
  <2>1. Good(c)
    BY <1>1, <1>2, CompletionGood
  <2> QED BY <1>1, <1>3, <2>1, GoesOn, ReadyIsTyped
<1>4. CASE GatewayFails
  <2>1. Good(Failed(ctx, "gateway_error"))
    BY <1>1, KeepGood DEF Reason
  <2> QED BY <1>1, <1>4, <2>1, GoesOn, ReadyIsTyped DEF GatewayFails
<1> QED BY <1>3, <1>4 DEF LlmAnswer

\* The answer is recorded, so its write stays covered.
LEMMA ToolAnswerKeeps == ASSUME IInv, ToolAnswer PROVE IInv'
<1> DEFINE status == IF call.answer = "ok" THEN "completed" ELSE "failed"
           d == IF ctx.path = "react" THEN ctx
                ELSE IF call.answer = "ok" THEN Output(ctx) ELSE Failed(ctx, "tool_error")
           row == Recorded(call.key, call.answer)
<1>1. /\ Good(ctx) /\ ctx \in Context /\ PathStep /\ at = "tool" /\ GoOn(d)
      /\ traces' = Traced(ctx, status)
  BY ReadyIsTyped DEF ToolAnswer, PathStep
<1>2. /\ call # NoCall /\ call.answer # "none" /\ call' = NoCall /\ ledger' = ledger \cup {row}
      /\ UNCHANGED <<workspace, stored, stray>>
  BY DEF ToolAnswer, Close
<1>3. call \in Call /\ call.key \in Key /\ row \in LedgerRow
  BY <1>2 DEF IInv, Typed, TypeOK, ToolsTypeOK, Call, Answer, Recorded, Key, LedgerRow
<1>4. Good(d)
  BY <1>1, KeepGood DEF Reason
<1>5. traces' \in Seq(Trace)
  BY <1>1, ReadyIsTyped
<1> HIDE DEF d, status
<1>6. TypeOK'
  BY <1>1, <1>2, <1>3, <1>4, <1>5 DEF IInv, Typed, TypeOK, ToolsTypeOK, Good, GoOn, PathStep
<1>7. Good(ctx') /\ RowsFollow'
  BY <1>1, <1>4 DEF IInv, Typed, RowsFollow, GoOn, PathStep
<1>8. CallIsOwn' /\ StraysAreBroken'
  BY <1>1, <1>2 DEF IInv, CallIsOwn, StraysAreBroken, Broken, GoOn, PathStep
<1>9. LedgerCoversWorkspace'
  <2> SUFFICES ASSUME NEW i \in DOMAIN workspace
               PROVE  \/ \E r \in ledger' : r.run = workspace[i].run /\ r.step = workspace[i].step
                      \/ /\ workspace[i].run # Guard /\ rows[workspace[i].run] \in {"none", "RUNNING"}
                         /\ workspace[i].run < run
    BY <1>1, <1>2 DEF LedgerCoversWorkspace, GoOn, PathStep
  <2>1. CASE call.key = workspace[i]
    <3>1. row.run = call.key.run /\ row.step = call.key.step
      BY DEF Recorded
    <3>2. row \in ledger'
      BY <1>2
    <3> HIDE DEF row
    <3> QED BY <2>1, <3>1, <3>2
  <2>2. CASE call.key # workspace[i]
    BY <1>1, <1>2, <2>2 DEF IInv, LedgerCoversWorkspace
  <2> QED BY <2>1, <2>2
<1>10. StoredKeysHaveEffects'
  BY <1>1, <1>2 DEF IInv, StoredKeysHaveEffects, PathStep
<1> QED BY <1>6, <1>7, <1>8, <1>9, <1>10 DEF IInv, Typed

-----------------------------------------------------------------------------
\* Runs, servers, the guard

LEMMA ResetKeeps == ASSUME IInv, NEW path \in Path, Reset(path) PROVE IInv'
<1>1. /\ at = "idle" /\ run < MaxRuns /\ run' = run + 1 /\ at' = "wiped" /\ ctx' = NewContext(path)
      /\ judged' = NotJudged /\ workspace' = <<>> /\ ledger' = {}
      /\ UNCHANGED <<stored, call, stray, traces, rows>>
  BY DEF Reset, Wipe
<1>2. run \in 0 .. MaxRuns /\ MaxRuns \in Nat /\ run' \in RunId /\ call = NoCall
  BY <1>1, TaskRunAssumption DEF IInv, Typed, TypeOK, RunId
<1>3. Good(ctx')
  BY <1>1, NewIsGood
<1>4. TypeOK'
  BY <1>1, <1>2, <1>3 DEF IInv, Typed, TypeOK, ToolsTypeOK, Good, NotJudged, RunId
<1>5. RowsFollow'
  BY <1>1, <1>2 DEF IInv, Typed, RowsFollow, RunId
<1>6. CallIsOwn' /\ StraysAreBroken'
  <2>1. ASSUME NEW key \in stray PROVE Broken(key.run)'
    <3>1. key.run \in RunId
      BY TaskRunAssumption DEF IInv, Typed, TypeOK, ToolsTypeOK, Key, StraysAreBroken, Broken
    <3> QED BY <1>1, <1>2, <3>1 DEF IInv, StraysAreBroken, Broken, RunId
  <2> QED BY <1>1, <1>2, <2>1 DEF CallIsOwn, StraysAreBroken
<1>7. LedgerCoversWorkspace'
  BY <1>1 DEF LedgerCoversWorkspace
<1>8. StoredKeysHaveEffects'
  BY <1>1, <1>2 DEF IInv, Typed, RowsFollow, StoredKeysHaveEffects, RunId
<1> QED BY <1>3, <1>4, <1>5, <1>6, <1>7, <1>8 DEF IInv, Typed

LEMMA WriterIsRun ==
  ASSUME ToolsTypeOK, NEW i \in DOMAIN workspace, workspace[i].run # Guard
  PROVE  workspace[i].run \in RunId
<1>1. workspace[i] \in Key
  BY DEF ToolsTypeOK
<1> QED BY <1>1, TaskRunAssumption DEF Key

LEMMA InsertKeeps == ASSUME IInv, Insert PROVE IInv'
<1>1. /\ at = "wiped" /\ at' = "ready" /\ stored' = {}
      /\ rows' = [rows EXCEPT ![run] = "RUNNING"]
      /\ UNCHANGED <<workspace, call, stray, ledger, run, ctx, traces, judged>>
  BY DEF Insert, Clear
<1>2. run \in RunId /\ call = NoCall /\ rows \in [RunId -> {"none", "RUNNING", "COMPLETED", "FAILED"}]
  BY <1>1 DEF IInv, Typed, TypeOK, RowsFollow
<1>3. TypeOK' /\ Good(ctx')
  BY <1>1, <1>2 DEF IInv, Typed, TypeOK, ToolsTypeOK
<1>4. RowsFollow'
  BY <1>1, <1>2 DEF IInv, Typed, RowsFollow, RunId
<1>5. \A r \in RunId : r < run => rows'[r] = rows[r]
  BY <1>1, <1>2 DEF RunId
<1>6. CallIsOwn' /\ StraysAreBroken'
  <2>1. ASSUME NEW key \in stray PROVE Broken(key.run)'
    <3>1. key.run \in RunId
      BY TaskRunAssumption DEF IInv, Typed, TypeOK, ToolsTypeOK, Key, StraysAreBroken, Broken
    <3> QED BY <1>1, <1>5, <3>1 DEF IInv, StraysAreBroken, Broken
  <2> QED BY <1>1, <1>2, <2>1 DEF CallIsOwn, StraysAreBroken
<1>7. LedgerCoversWorkspace'
  <2> SUFFICES ASSUME NEW i \in DOMAIN workspace,
                      ~\E r \in ledger : r.run = workspace[i].run /\ r.step = workspace[i].step
               PROVE  /\ workspace[i].run # Guard /\ rows'[workspace[i].run] \in {"none", "RUNNING"}
                      /\ workspace[i].run < run
    BY <1>1 DEF LedgerCoversWorkspace
  <2>1. /\ workspace[i].run # Guard /\ rows[workspace[i].run] \in {"none", "RUNNING"}
        /\ workspace[i].run < run
    BY <1>1, <1>2 DEF IInv, LedgerCoversWorkspace
  <2>2. workspace[i].run \in RunId
    BY <2>1, WriterIsRun DEF IInv, Typed, TypeOK
  <2> QED BY <1>5, <2>1, <2>2
<1>8. StoredKeysHaveEffects'
  BY <1>1 DEF StoredKeysHaveEffects
<1> QED BY <1>3, <1>4, <1>6, <1>7, <1>8 DEF IInv, Typed

LEMMA ConcludeKeeps == ASSUME IInv, Conclude PROVE IInv'
<1>1. PICK status \in {"COMPLETED", "FAILED"} : rows' = [rows EXCEPT ![run] = status]
  BY DEF Conclude
<1>2. /\ at = "ready" /\ at' = "idle" /\ ctx' = NewContext("pipeline") /\ traces' = <<>>
      /\ judged' = [state |-> workspace, traces |-> traces]
      /\ UNCHANGED <<workspace, stored, call, stray, ledger, run>>
  BY DEF Conclude, Leave, toolVars
<1>3. /\ run \in RunId /\ call = NoCall /\ rows[run] = "RUNNING"
      /\ rows \in [RunId -> {"none", "RUNNING", "COMPLETED", "FAILED"}]
  BY <1>2 DEF IInv, Typed, TypeOK, RowsFollow
<1>4. Good(ctx')
  BY <1>2, NewIsGood DEF Path
<1>5. TypeOK'
  BY <1>1, <1>2, <1>3, <1>4 DEF IInv, Typed, TypeOK, ToolsTypeOK, Good
<1>6. RowsFollow'
  BY <1>1, <1>2, <1>3 DEF IInv, Typed, RowsFollow, RunId
<1>7. \A r \in RunId : r < run => rows'[r] = rows[r]
  BY <1>1, <1>3 DEF RunId
<1>8. CallIsOwn' /\ StraysAreBroken'
  <2>1. ASSUME NEW key \in stray PROVE Broken(key.run)'
    <3>1. key.run \in RunId
      BY TaskRunAssumption DEF IInv, Typed, TypeOK, ToolsTypeOK, Key, StraysAreBroken, Broken
    <3> QED BY <1>2, <1>7, <3>1 DEF IInv, StraysAreBroken, Broken
  <2> QED BY <1>2, <1>3, <2>1 DEF CallIsOwn, StraysAreBroken
<1>9. LedgerCoversWorkspace'
  <2> SUFFICES ASSUME NEW i \in DOMAIN workspace,
                      ~\E r \in ledger : r.run = workspace[i].run /\ r.step = workspace[i].step
               PROVE  /\ workspace[i].run # Guard /\ rows'[workspace[i].run] \in {"none", "RUNNING"}
                      /\ workspace[i].run < run
    BY <1>2 DEF LedgerCoversWorkspace
  <2>1. /\ workspace[i].run # Guard /\ rows[workspace[i].run] \in {"none", "RUNNING"}
        /\ workspace[i].run < run
    BY <1>2, <1>3 DEF IInv, LedgerCoversWorkspace
  <2>2. workspace[i].run \in RunId
    BY <2>1, WriterIsRun DEF IInv, Typed, TypeOK
  <2> QED BY <1>7, <2>1, <2>2
<1>10. StoredKeysHaveEffects'
  BY <1>2, <1>3 DEF IInv, StoredKeysHaveEffects
<1> QED BY <1>4, <1>5, <1>6, <1>8, <1>9, <1>10 DEF IInv, Typed

\* What a run leaves behind when it breaks off, it leaves as a broken run.
LEMMA BreakKeeps == ASSUME IInv, Break PROVE IInv'
<1>1. /\ at # "idle" /\ at' = "idle" /\ ctx' = NewContext("pipeline") /\ traces' = <<>>
      /\ call' = NoCall /\ UNCHANGED <<workspace, stored, ledger, run, rows, judged>>
      /\ stray' = IF call # NoCall /\ call.answer = "none" /\ call.tool \in WriteTool
                  THEN stray \cup {call.key} ELSE stray
  BY DEF Break, Leave, Abandon
<1>2. run \in RunId
  BY <1>1 DEF IInv, Typed, RowsFollow
<1>3. Good(ctx')
  BY <1>1, NewIsGood DEF Path
<1>4. call # NoCall => call.key \in Key /\ call.key.run = run /\ rows[run] = "RUNNING"
  BY DEF IInv, Typed, TypeOK, ToolsTypeOK, RowsFollow, CallIsOwn, Call
<1>5. TypeOK'
  BY <1>1, <1>3, <1>4 DEF IInv, Typed, TypeOK, ToolsTypeOK, Good
<1>6. RowsFollow'
  BY <1>1 DEF IInv, Typed, RowsFollow
<1>7. run # Guard /\ run <= run
  BY <1>2, TaskRunAssumption DEF RunId
<1>8. CallIsOwn' /\ StraysAreBroken'
  <2>1. ASSUME NEW key \in stray' PROVE Broken(key.run)'
    <3>1. CASE key \in stray
      BY <1>1, <3>1 DEF IInv, StraysAreBroken, Broken
    <3>2. CASE call # NoCall /\ key = call.key
      BY <1>1, <1>4, <1>7, <3>2 DEF Broken
    <3> QED BY <1>1, <2>1, <3>1, <3>2
  <2> QED BY <1>1, <2>1 DEF CallIsOwn, StraysAreBroken
<1>9. LedgerCoversWorkspace'
  <2> SUFFICES ASSUME NEW i \in DOMAIN workspace,
                      ~\E r \in ledger : r.run = workspace[i].run /\ r.step = workspace[i].step
               PROVE  workspace[i].run # Guard /\ rows[workspace[i].run] \in {"none", "RUNNING"}
    BY <1>1 DEF LedgerCoversWorkspace
  <2>1. CASE call # NoCall /\ call.key = workspace[i]
    BY <1>4, <1>7, <2>1
  <2> QED BY <2>1 DEF IInv, LedgerCoversWorkspace
<1>10. StoredKeysHaveEffects'
  BY <1>1 DEF IInv, StoredKeysHaveEffects
<1> QED BY <1>3, <1>5, <1>6, <1>8, <1>9, <1>10 DEF IInv, Typed

\* Writes of a server, whoever sent them.
LEMMA WrittenKeeps ==
  ASSUME IInv, NEW key \in Key, NEW answer, Write(key, answer),
         UNCHANGED <<run, at, rows>>, ledger \subseteq ledger',
         call = NoCall <=> call' = NoCall, call # NoCall => call'.key = call.key,
         \/ call # NoCall /\ call.key = key
         \/ Broken(key.run)
         \/ \E row \in ledger' : row.run = key.run /\ row.step = key.step
  PROVE  LedgerCoversWorkspace' /\ StoredKeysHaveEffects'
<1>1. /\ HasEffects => HasEffects'
      /\ \A i \in DOMAIN workspace' :
           workspace'[i] = key \/ \E j \in DOMAIN workspace : workspace[j] = workspace'[i]
  BY WriteKeeps DEF IInv, Typed, TypeOK
<1>2. StoredKeysHaveEffects'
  BY <1>1 DEF IInv, StoredKeysHaveEffects, HasEffects
<1>3. LedgerCoversWorkspace'
  <2> DEFINE Covered(k) ==
        \/ \E row \in ledger' : row.run = k.run /\ row.step = k.step
        \/ call' # NoCall /\ call'.key = k
        \/ k.run # Guard /\ rows[k.run] \in {"none", "RUNNING"} /\ (k.run < run \/ at = "idle")
  <2>1. \A j \in DOMAIN workspace : Covered(workspace[j])
    BY DEF IInv, LedgerCoversWorkspace
  <2>2. Covered(key)
    BY DEF Broken
  <2> HIDE DEF Covered
  <2>3. \A i \in DOMAIN workspace' : Covered(workspace'[i])
    BY <1>1, <2>1, <2>2
  <2> QED BY <2>3 DEF LedgerCoversWorkspace, Covered
<1> QED BY <1>2, <1>3

LEMMA ServingKeeps == ASSUME IInv, Serving PROVE IInv'
<1>1. UNCHANGED <<run, at, ctx, traces, rows, judged, ledger>>
  BY DEF Serving, pathVars, Serve, ServeStray
<1>2. CASE Serve
  <2>1. PICK answer \in {"ok", "error"} :
          /\ call' = [call EXCEPT !.answer = answer]
          /\ IF call.tool \in WriteTool
             THEN Write(call.key, answer)
             ELSE UNCHANGED <<workspace, stored>>
    BY <1>2 DEF Serve
  <2>2. call # NoCall /\ call \in Call /\ call.key \in Key /\ UNCHANGED stray
    BY <1>2 DEF Serve, IInv, Typed, TypeOK, ToolsTypeOK, Call
  <2>3. call' \in Call /\ call'.key = call.key
    BY <2>1, <2>2 DEF Call, Answer
  <2>4. call' # NoCall
    BY <2>3, ToolAssumption
  <2>5. CASE Write(call.key, answer)
    <3>1. workspace' \in Seq(Key) /\ stored' \in SUBSET Key
      BY <2>2, <2>5, WriteKeeps DEF IInv, Typed, TypeOK
    <3>2. Typed' /\ CallIsOwn' /\ StraysAreBroken'
      BY <1>1, <2>2, <2>3, <2>4, <3>1
         DEF IInv, Typed, TypeOK, ToolsTypeOK, RowsFollow, CallIsOwn, StraysAreBroken, Broken
    <3>3. LedgerCoversWorkspace' /\ StoredKeysHaveEffects'
      BY <1>1, <2>2, <2>3, <2>4, <2>5, WrittenKeeps
    <3> QED BY <3>2, <3>3 DEF IInv
  <2>6. CASE UNCHANGED <<workspace, stored>>
    <3>1. Typed' /\ CallIsOwn' /\ StraysAreBroken'
      BY <1>1, <2>2, <2>3, <2>4, <2>6
         DEF IInv, Typed, TypeOK, ToolsTypeOK, RowsFollow, CallIsOwn, StraysAreBroken, Broken
    <3>2. LedgerCoversWorkspace' /\ StoredKeysHaveEffects'
      BY <1>1, <2>2, <2>3, <2>4, <2>6 DEF IInv, LedgerCoversWorkspace, StoredKeysHaveEffects
    <3> QED BY <3>1, <3>2 DEF IInv
  <2> QED BY <2>1, <2>5, <2>6
<1>3. CASE ServeStray
  <2>1. PICK key \in stray, answer \in {"ok", "error"} : stray' = stray \ {key} /\ Write(key, answer)
    BY <1>3 DEF ServeStray
  <2>2. key \in Key /\ Broken(key.run) /\ call' = call
    BY <1>3 DEF ServeStray, IInv, Typed, TypeOK, ToolsTypeOK, StraysAreBroken
  <2>3. workspace' \in Seq(Key) /\ stored' \in SUBSET Key
    BY <2>1, <2>2, WriteKeeps DEF IInv, Typed, TypeOK
  <2>4. Typed' /\ CallIsOwn' /\ StraysAreBroken'
    BY <1>1, <2>1, <2>2, <2>3
       DEF IInv, Typed, TypeOK, ToolsTypeOK, RowsFollow, CallIsOwn, StraysAreBroken, Broken
  <2>5. LedgerCoversWorkspace' /\ StoredKeysHaveEffects'
    BY <1>1, <2>1, <2>2, WrittenKeeps
  <2> QED BY <2>4, <2>5 DEF IInv
<1> QED BY <1>2, <1>3 DEF Serving

LEMMA AlertKeeps == ASSUME IInv, Alert PROVE IInv'
<1>1. PICK text \in AlertText, answer \in {"ok", "error"} :
        /\ Write(KeyOf(Guard, AlertStep, text), answer)
        /\ ledger' = ledger \cup {Recorded(KeyOf(Guard, AlertStep, text), answer)}
        /\ UNCHANGED <<call, stray>>
  BY DEF Alert, Post
<1> DEFINE key == KeyOf(Guard, AlertStep, text)
           row == Recorded(key, answer)
<1>2. UNCHANGED <<run, at, ctx, traces, rows, judged>>
  BY DEF Alert, pathVars
<1>3. key \in Key /\ row \in LedgerRow /\ row.run = key.run /\ row.step = key.step
  BY TaskRunAssumption DEF KeyOf, Key, Recorded, LedgerRow
<1> HIDE DEF key, row
<1>4. Write(key, answer) /\ ledger' = ledger \cup {row}
  BY <1>1 DEF key, row
<1>5. workspace' \in Seq(Key) /\ stored' \in SUBSET Key
  BY <1>3, <1>4, WriteKeeps DEF IInv, Typed, TypeOK
<1>6. Typed' /\ CallIsOwn' /\ StraysAreBroken'
  BY <1>1, <1>2, <1>3, <1>4, <1>5
     DEF IInv, Typed, TypeOK, ToolsTypeOK, RowsFollow, CallIsOwn, StraysAreBroken, Broken
<1>7. LedgerCoversWorkspace' /\ StoredKeysHaveEffects'
  BY <1>1, <1>2, <1>3, <1>4, WrittenKeeps
<1> QED BY <1>6, <1>7 DEF IInv

-----------------------------------------------------------------------------

LEMMA NextIInv == IInv /\ [Next]_vars => IInv'
<1> SUFFICES ASSUME IInv, [Next]_vars PROVE IInv'
  OBVIOUS
<1>1. CASE UNCHANGED vars
  BY <1>1 DEF vars, toolVars, pathVars, IInv, Typed, TypeOK, ToolsTypeOK, RowsFollow, CallIsOwn,
              StraysAreBroken, Broken, LedgerCoversWorkspace, StoredKeysHaveEffects
<1>2. ASSUME NEW path \in Path, Reset(path) PROVE IInv'
  BY <1>2, ResetKeeps
<1>3. CASE Proceed
  BY <1>3, InsertKeeps, PipelineKeeps, PlanKeeps, ExecuteKeeps, AgentKeeps, CallKeeps,
     LlmAnswerKeeps, ToolAnswerKeeps, ConcludeKeeps DEF Proceed
<1>4. CASE Serving
  BY <1>4, ServingKeeps
<1>5. CASE Break
  BY <1>5, BreakKeeps
<1>6. CASE Alert
  BY <1>6, AlertKeeps
<1> QED BY <1>1, <1>2, <1>3, <1>4, <1>5, <1>6 DEF Next

LEMMA AlwaysIInv == Spec => []IInv
  BY InitIInv, NextIInv, PTL DEF Spec

(***************************************************************************)
(* Type correctness: PathContext, StepTrace and the tables keep the values *)
(* their classes declare, on every path and whatever a model answers.      *)
(***************************************************************************)
THEOREM TypeCorrect == Spec => []TypeOK
<1>1. IInv => TypeOK
  BY DEF IInv, Typed
<1> QED BY AlwaysIInv, <1>1, PTL

(***************************************************************************)
(* The tool ledger (McpToolbox.call): every write in the workspace has its *)
(* tool_calls row, or its answer is on the way, or its run broke off.      *)
(***************************************************************************)
THEOREM LedgerCovers == Spec => []LedgerCoversWorkspace
<1>1. IInv => LedgerCoversWorkspace
  BY DEF IInv
<1> QED BY AlwaysIInv, <1>1, PTL

(***************************************************************************)
(* The key table of a sandbox (idempotent_write, ConnectorBackends.reset): *)
(* once the row of the present run is there, every stored key has its      *)
(* write in the workspace, so that no replay stands for a lost write.      *)
(***************************************************************************)
THEOREM StoredEffects == Spec => []StoredKeysHaveEffects
<1>1. IInv => StoredKeysHaveEffects
  BY DEF IInv
<1> QED BY AlwaysIInv, <1>1, PTL

-----------------------------------------------------------------------------
\* No call after a failure

\* An agent's turn that failed left no calls, and only a path without an error
\* waits for an answer.  The graphs of the other paths look at the error.
NothingLeft ==
  ctx.path = "react" =>
    /\ ctx.error # "none" => ctx.calls = <<>> /\ at \notin {"llm", "tool"}
    /\ at = "llm" => ctx.calls = <<>>

LEMMA NewHasNothing ==
  ASSUME NEW path \in Path
  PROVE  NewContext(path).error = "none" /\ NewContext(path).calls = <<>>
  BY DEF NewContext

LEMMA EnteredKeeps ==
  ASSUME NEW c \in Context
  PROVE  /\ Entered(c) \in Context /\ Entered(c).path = c.path
         /\ Entered(c).error = c.error /\ Entered(c).calls = c.calls
  BY DEF Entered, Context

LEMMA PipelineLeft == ASSUME IInv, PipelineNode PROVE NothingLeft'
<1> DEFINE c == Entered([ctx EXCEPT !.pos = @ + 1, !.current = ctx.plan[ctx.pos + 1]])
<1>1. ctx \in Context /\ ctx.path = "pipeline" /\ at = "ready"
  BY DEF IInv, Typed, TypeOK, PipelineNode
<1>2. GoOn(c) \/ ExecuteStep(c)
  BY DEF PipelineNode
<1>3. c.path = "pipeline"
  BY <1>1 DEF Entered, Context
<1>4. /\ Output(c).path = c.path
      /\ \A reason : Failed(c, reason).path = c.path
  BY <1>1 DEF Entered, Context, Output, Failed
<1> HIDE DEF c
<1>5. ctx'.path = "pipeline"
  BY <1>2, <1>3, <1>4 DEF ExecuteStep, GoOn, AskGateway, CallTool
<1> QED BY <1>5 DEF NothingLeft

LEMMA PlanLeft == ASSUME IInv, PlanNode \/ ExecuteNode PROVE NothingLeft'
<1>1. ctx \in Context /\ ctx.path = "planner_executor"
  BY DEF IInv, Typed, TypeOK, PlanNode, ExecuteNode
<1>2. CASE PlanNode
  <2>1. ctx'.path = "planner_executor"
    BY <1>1, <1>2 DEF PlanNode, AskGateway, Entered, Context
  <2> QED BY <2>1 DEF NothingLeft
<1>3. CASE ExecuteNode
  <2> DEFINE c == Entered([ctx EXCEPT !.current = ctx.plan[Cardinality(ctx.outputs) + 1]])
  <2>1. c.path = "planner_executor" /\ \A reason : Failed(c, reason).path = "planner_executor"
    BY <1>1 DEF Entered, Context, Failed
  <2>2. AskGateway(c) \/ CallTool(c) \/ GoOn(Failed(c, "unresolved_placeholder"))
    BY <1>3 DEF ExecuteNode
  <2> HIDE DEF c
  <2>3. ctx'.path = "planner_executor"
    BY <2>1, <2>2 DEF AskGateway, CallTool, GoOn
  <2> QED BY <2>3 DEF NothingLeft
<1> QED BY <1>2, <1>3

LEMMA AgentLeft == ASSUME IInv, AgentNode PROVE NothingLeft'
<1>1. ctx \in Context /\ ctx.calls = <<>> /\ ctx.error = "none"
  BY DEF IInv, Typed, TypeOK, AgentNode
<1> DEFINE c == Entered(ctx)
<1>2. c \in Context /\ c.calls = <<>> /\ c.error = "none"
  BY <1>1, EnteredKeeps
<1> HIDE DEF c
<1>3. CASE GoOn(Failed(c, "max_iterations"))
  <2>1. ctx'.calls = <<>> /\ at' = "ready"
    BY <1>2, <1>3 DEF GoOn, Failed, Context
  <2> QED BY <2>1 DEF NothingLeft
<1>4. CASE AskGateway([c EXCEPT !.turn = @ + 1, !.current =
                        [Pipeline[1] EXCEPT !.id = TurnStep(ctx.turn + 1), !.type = "llm"]])
  <2>1. ctx'.calls = <<>> /\ ctx'.error = "none"
    BY <1>2, <1>4 DEF AskGateway, Context
  <2> QED BY <2>1 DEF NothingLeft
<1> QED BY <1>3, <1>4 DEF AgentNode, c

LEMMA CallLeft == ASSUME IInv, NothingLeft, CallNode PROVE NothingLeft'
<1>1. ctx \in Context /\ ctx.error = "none" /\ ctx.path = "react"
  BY DEF IInv, Typed, TypeOK, CallNode, NothingLeft
<1> DEFINE step == [Pipeline[1] EXCEPT !.id = CallStep(ctx.turn, ctx.index), !.type = "tool",
                     !.tool = Head(ctx.calls).tool, !.args = Head(ctx.calls).args]
           c == [ctx EXCEPT !.calls = Tail(@), !.index = @ + 1, !.current = step]
<1>2. c.error = "none"
  BY <1>1 DEF Context
<1>3. GoOn(c) \/ CallTool(c)
  BY DEF CallNode
<1> HIDE DEF c
<1>4. ctx'.error = "none" /\ at' # "llm"
  BY <1>2, <1>3 DEF GoOn, CallTool
<1> QED BY <1>4 DEF NothingLeft

LEMMA LlmAnswerLeft == ASSUME IInv, NothingLeft, LlmAnswer PROVE NothingLeft'
<1>1. ctx \in Context /\ at = "llm" /\ ctx.path \in Path
  BY DEF IInv, Typed, TypeOK, LlmAnswer, Context
<1>2. at' = "ready"
  BY DEF LlmAnswer, GoOn, GatewayFails
<1>3. CASE ctx.path = "react"
  <2>1. ctx.error = "none" /\ ctx.calls = <<>>
    BY <1>1, <1>3 DEF NothingLeft
  <2>2. CASE GatewayFails
    <3>1. ctx'.calls = <<>>
      BY <1>1, <2>1, <2>2 DEF GatewayFails, GoOn, Failed, Context
    <3> QED BY <1>2, <3>1 DEF NothingLeft
  <2>3. ASSUME NEW d \in AfterCompletion(ctx), GoOn(d) PROVE NothingLeft'
    <3>1. \/ d = [ctx EXCEPT !.done = TRUE]
          \/ \E asked \in Turns : d = Entered([ctx EXCEPT !.calls = asked, !.index = 0])
      BY <1>3 DEF AfterCompletion
    <3>2. d.error = "none"
      BY <1>1, <2>1, <3>1 DEF Context, Entered
    <3> QED BY <1>2, <2>3, <3>2 DEF GoOn, NothingLeft
  <2> QED BY <2>2, <2>3 DEF LlmAnswer
<1>4. CASE ctx.path # "react"
  <2>1. /\ \A reason : Failed(ctx, reason).path = ctx.path
        /\ Output(ctx).path = ctx.path
        /\ \A plan : [ctx EXCEPT !.plan = plan].path = ctx.path
    BY <1>1 DEF Failed, Output, Context
  <2>2. ASSUME NEW d \in AfterCompletion(ctx) PROVE d.path = ctx.path
    <3>1. CASE ctx.path = "pipeline"
      BY <2>1, <3>1 DEF AfterCompletion
    <3>2. CASE ctx.path = "planner_executor" /\ ctx.current.id = PlanStep
      BY <2>1, <3>2 DEF AfterCompletion
    <3>3. CASE ctx.path = "planner_executor" /\ ctx.current.id # PlanStep
      BY <2>1, <3>3 DEF AfterCompletion
    <3> QED BY <1>1, <1>4, <3>1, <3>2, <3>3 DEF Path
  <2>3. ctx'.path = ctx.path
    BY <2>1, <2>2 DEF LlmAnswer, GoOn, GatewayFails
  <2> QED BY <1>4, <2>3 DEF NothingLeft
<1> QED BY <1>3, <1>4

LEMMA ToolAnswerLeft == ASSUME IInv, NothingLeft, ToolAnswer PROVE NothingLeft'
<1>1. ctx \in Context /\ at = "tool" /\ at' = "ready"
  BY DEF IInv, Typed, TypeOK, ToolAnswer, GoOn
<1>2. CASE ctx.path = "react"
  BY <1>1, <1>2 DEF ToolAnswer, GoOn, NothingLeft
<1>3. CASE ctx.path # "react"
  <2>1. Output(ctx).path = ctx.path /\ Failed(ctx, "tool_error").path = ctx.path
    BY <1>1 DEF Output, Failed, Context
  <2>2. ctx'.path = ctx.path
    BY <1>3, <2>1 DEF ToolAnswer, GoOn
  <2> QED BY <1>3, <2>2 DEF NothingLeft
<1> QED BY <1>2, <1>3

LEMMA NothingLeftStep == IInv /\ NothingLeft /\ [Next]_vars => NothingLeft'
<1> SUFFICES ASSUME IInv, NothingLeft, [Next]_vars PROVE NothingLeft'
  OBVIOUS
<1>1. CASE UNCHANGED vars \/ Serving \/ Alert
  <2>1. UNCHANGED <<at, ctx>>
    BY <1>1 DEF vars, Serving, Alert, pathVars
  <2> QED BY <2>1 DEF NothingLeft
<1>2. ASSUME NEW path \in Path, Reset(path) PROVE NothingLeft'
  BY <1>2, NewHasNothing DEF Reset, NothingLeft
<1>3. CASE Conclude \/ Break
  <2>1. at' = "idle" /\ ctx' = NewContext("pipeline") /\ "pipeline" \in Path
    BY <1>3 DEF Conclude, Break, Leave, Path
  <2> QED BY <2>1, NewHasNothing DEF NothingLeft
<1>4. CASE Insert
  BY <1>4 DEF Insert, NothingLeft
<1>5. CASE PipelineNode \/ PlanNode \/ ExecuteNode \/ AgentNode \/ CallNode
  BY <1>5, PipelineLeft, PlanLeft, AgentLeft, CallLeft
<1>6. CASE LlmAnswer \/ ToolAnswer
  BY <1>6, LlmAnswerLeft, ToolAnswerLeft
<1> QED BY <1>1, <1>2, <1>3, <1>4, <1>5, <1>6 DEF Next, Proceed

LEMMA FailedStops ==
  ASSUME IInv, NothingLeft, [Next]_vars, at = "ready", ctx.error # "none"
  PROVE  at' \in {"ready", "idle"}
<1>1. CASE UNCHANGED vars \/ Serving \/ Alert
  BY <1>1 DEF vars, Serving, Alert, pathVars
<1>2. ~Insert /\ ~LlmAnswer /\ ~ToolAnswer /\ \A path \in Path : ~Reset(path)
  BY DEF Insert, LlmAnswer, ToolAnswer, Reset
<1>3. ~PlanNode /\ ~ExecuteNode /\ ~AgentNode
  BY DEF PlanNode, ExecuteNode, AgentNode
<1>4. ~CallNode
  BY DEF CallNode, NothingLeft
<1>5. CASE PipelineNode
  BY <1>5 DEF PipelineNode, GoOn
<1>6. CASE Conclude \/ Break
  BY <1>6 DEF Conclude, Break, Leave
<1> QED BY <1>1, <1>2, <1>3, <1>4, <1>5, <1>6 DEF Next, Proceed

(***************************************************************************)
(* llm_step's "budget_exhausted halts the run", for every error, path,     *)
(* plan and answer: a run whose path failed makes no further call.         *)
(***************************************************************************)
THEOREM FailureIsFinal == Spec => NoCallAfterFailure
<1>1. Init => NothingLeft
  BY NewHasNothing DEF Init, NothingLeft, Path
<1>2. IInv /\ NothingLeft /\ [Next]_vars =>
        [at = "ready" /\ ctx.error # "none" => at' \in {"ready", "idle"}]_vars
  BY FailedStops
<1> QED BY AlwaysIInv, <1>1, <1>2, NothingLeftStep, PTL DEF Spec, NoCallAfterFailure
-----------------------------------------------------------------------------
\* A run follows its plan

Waiting == at \in {"llm", "tool"}

\* The steps whose tool calls the traces tell of.
ToolIds(steps) == {steps[i].id : i \in {j \in DOMAIN steps : steps[j].kind = "tool"}}

IdsTo(steps, n) == {steps[i].id : i \in 1 .. n}

\* A path waits for what its step is, and for nothing after an error; what it has
\* called without one, it has the output of.
StepsCounted ==
  /\ Waiting => ctx.current.type = at /\ ctx.error = "none"
  /\ ctx.path # "react" /\ ctx.error = "none" => ToolIds(traces) \subseteq ctx.outputs

\* Pipeline: outputs are of nodes passed, and the current step is the last of them.
PipelineInOrder ==
  ctx.path = "pipeline" =>
    /\ ctx.plan = Pipeline /\ ctx.pos <= Len(Pipeline)
    /\ ctx.outputs \subseteq IdsTo(Pipeline, IF Waiting THEN ctx.pos - 1 ELSE ctx.pos)
    /\ Waiting => ctx.pos >= 1 /\ ctx.current = Pipeline[ctx.pos]

\* Planner-executor: the first n steps have been executed, and the traces are of the
\* planning call and of them.
Planned(c, n) ==
  /\ n = Cardinality(c.outputs) /\ c.outputs = IdsTo(c.plan, n)
  /\ c.plan # <<>> =>
       ValidPlan(c.plan) /\ \A i \in DOMAIN c.plan : c.plan[i].id # PlanStep

PlanInOrder ==
  ctx.path = "planner_executor" => \E n \in 0 .. Len(ctx.plan) :
    /\ Planned(ctx, n)
    /\ Waiting => IF ctx.plan = <<>> THEN at = "llm" /\ ctx.current.id = PlanStep
                  ELSE n < Len(ctx.plan) /\ ctx.current = ctx.plan[n + 1]
    /\ \A i \in DOMAIN traces :
         traces[i].id = IF i = 1 THEN PlanStep ELSE ctx.plan[i - 1].id
    /\ IF ctx.error = "none" THEN Len(traces) = IF ctx.plan = <<>> THEN 0 ELSE n + 1
       ELSE Len(traces) <= Len(ctx.plan) + 1
    /\ ctx.nodes <= n + (IF ctx.plan = <<>> THEN 0 ELSE 1)
                      + (IF Waiting \/ ctx.error # "none" THEN 1 ELSE 0)

\* ReAct: the calls made are those before the agent's place in its turns, and a turn
\* takes two nodes.
MadeBefore(ids, turn, index) ==
  \A id \in ids : \E t \in 1 .. MaxTurns, n \in CallIndex :
    id = CallStep(t, n) /\ (t < turn \/ (t = turn /\ n < index))

CallsDone == IF at = "llm" THEN 0 ELSE IF at = "tool" THEN ctx.index - 1 ELSE ctx.index

TurnsInOrder ==
  ctx.path = "react" =>
    /\ MadeBefore(ToolIds(traces), ctx.turn, CallsDone)
    /\ at = "tool" => /\ ctx.turn >= 1 /\ ctx.index >= 1 /\ ctx.index - 1 \in CallIndex
                      /\ ctx.current.id = CallStep(ctx.turn, ctx.index - 1)
    /\ ctx.nodes <= 2 * ctx.turn + (IF ctx.error = "none" THEN 0 ELSE 1)
    /\ at = "llm" => ctx.nodes < 2 * ctx.turn

InOrder == StepsCounted /\ PipelineInOrder /\ PlanInOrder /\ TurnsInOrder

\* A run begins without traces.
NothingTraced == at \in {"idle", "wiped"} => traces = <<>>

-----------------------------------------------------------------------------
\* What the building blocks change

SamePlace(c, d) ==
  /\ c.path = d.path /\ c.plan = d.plan /\ c.pos = d.pos
  /\ c.turn = d.turn /\ c.index = d.index /\ c.current = d.current

LEMMA Blocks ==
  ASSUME NEW c \in Context
  PROVE  /\ SamePlace(Entered(c), c) /\ Entered(c).outputs = c.outputs
         /\ Entered(c).error = c.error /\ Entered(c).nodes = c.nodes + 1
         /\ SamePlace(Output(c), c) /\ Output(c).outputs = c.outputs \cup {c.current.id}
         /\ Output(c).error = c.error /\ Output(c).nodes = c.nodes
         /\ \A reason : /\ SamePlace(Failed(c, reason), c) /\ Failed(c, reason).error = reason
                        /\ Failed(c, reason).outputs = c.outputs
                        /\ Failed(c, reason).nodes = c.nodes
  BY DEF Context, Entered, Output, Failed, SamePlace

LEMMA TraceAdded ==
  ASSUME NEW c \in Context, traces \in Seq(Trace), NEW status \in {"completed", "failed"},
         NEW new, new = Traced(c, status)
  PROVE  /\ Len(new) = Len(traces) + 1 /\ DOMAIN new = 1 .. Len(traces) + 1
         /\ DOMAIN traces = 1 .. Len(traces) /\ Len(traces) \in Nat
         /\ \A i \in 1 .. Len(traces) : new[i] = traces[i]
         /\ new[Len(traces) + 1].id = c.current.id
         /\ new[Len(traces) + 1].kind = c.current.type
         /\ new[Len(traces) + 1].status = status
         /\ new[Len(traces) + 1].write <=> c.current.type = "tool" /\ c.current.tool \in WriteTool
<1> DEFINE t == [id |-> c.current.id, kind |-> c.current.type, status |-> status,
                 write |-> c.current.type = "tool" /\ c.current.tool \in WriteTool]
<1>1. c.current \in Step
  BY DEF Context
<1>2. t \in Trace
  BY <1>1 DEF Step, Trace
<1>3. new = Append(traces, t)
  BY DEF Traced
<1>4. /\ t.id = c.current.id /\ t.kind = c.current.type /\ t.status = status
      /\ t.write <=> c.current.type = "tool" /\ c.current.tool \in WriteTool
  OBVIOUS
<1> HIDE DEF t
<1> QED BY <1>2, <1>3, <1>4

\* A trace adds its step to the tool calls if it is of one.
LEMMA ToolIdsGrow ==
  ASSUME NEW c \in Context, traces \in Seq(Trace), NEW status \in {"completed", "failed"},
         NEW new, new = Traced(c, status)
  PROVE  /\ c.current.type = "tool" => ToolIds(new) = ToolIds(traces) \cup {c.current.id}
         /\ c.current.type # "tool" => ToolIds(new) = ToolIds(traces)
<1>1. /\ DOMAIN new = 1 .. Len(traces) + 1 /\ DOMAIN traces = 1 .. Len(traces)
      /\ Len(traces) \in Nat /\ \A i \in 1 .. Len(traces) : new[i] = traces[i]
      /\ new[Len(traces) + 1].id = c.current.id /\ new[Len(traces) + 1].kind = c.current.type
  BY TraceAdded
<1> QED BY <1>1 DEF ToolIds

LEMMA IdsGrow ==
  ASSUME NEW steps, NEW n \in Nat
  PROVE  IdsTo(steps, n + 1) = IdsTo(steps, n) \cup {steps[n + 1].id}
  BY DEF IdsTo

\* A path's node keeps the other paths' part.
LEMMA OtherPaths ==
  ASSUME ctx'.path \in Path
  PROVE  /\ ctx'.path # "pipeline" => PipelineInOrder'
         /\ ctx'.path # "planner_executor" => PlanInOrder'
         /\ ctx'.path # "react" => TurnsInOrder'
  BY DEF PipelineInOrder, PlanInOrder, TurnsInOrder

\* The pipeline's order, from the place its node leaves it at.
LEMMA PipelineAt ==
  ASSUME NEW n \in 0 .. Len(Pipeline), ctx'.path = "pipeline", ctx'.plan = Pipeline,
         ctx'.pos = n, Waiting' => n >= 1 /\ ctx'.current = Pipeline[n] /\ ctx'.current.type = at'
                                   /\ ctx'.error = "none",
         ctx'.outputs \subseteq IdsTo(Pipeline, IF Waiting' THEN n - 1 ELSE n),
         ctx'.error = "none" => ToolIds(traces') \subseteq ctx'.outputs
  PROVE  InOrder'
<1>1. PipelineInOrder'
  BY DEF PipelineInOrder, Waiting
<1>2. StepsCounted'
  BY DEF StepsCounted, Waiting
<1>3. PlanInOrder' /\ TurnsInOrder'
  BY OtherPaths DEF Path
<1> QED BY <1>1, <1>2, <1>3 DEF InOrder

LEMMA PipelineOrder == ASSUME IInv, InOrder, PipelineNode PROVE InOrder'
<1> DEFINE c == Entered([ctx EXCEPT !.pos = @ + 1, !.current = ctx.plan[ctx.pos + 1]])
<1>1. /\ ctx \in Context /\ ctx.path = "pipeline" /\ at = "ready" /\ ctx.pos < Len(ctx.plan)
      /\ traces \in Seq(Trace)
  BY DEF IInv, Typed, TypeOK, PipelineNode
<1>2. ctx.pos \in Nat /\ Pipeline \in Seq(Step) /\ ctx.plan = Pipeline
  BY <1>1, PipelineStarts DEF InOrder, PipelineInOrder, Context
<1>3. ctx.outputs \subseteq IdsTo(Pipeline, ctx.pos)
  BY <1>1 DEF InOrder, PipelineInOrder, Waiting
<1>4. ctx.error = "none" => ToolIds(traces) \subseteq ctx.outputs
  BY <1>1 DEF InOrder, StepsCounted
<1>5. PICK n \in Nat : n = ctx.pos + 1
  BY <1>2
<1>6. n \in 0 .. Len(Pipeline) /\ n >= 1 /\ ctx.pos = n - 1 /\ Len(Pipeline) \in Nat
  BY <1>1, <1>2, <1>5
<1>7. /\ IdsTo(Pipeline, n) = IdsTo(Pipeline, n - 1) \cup {Pipeline[n].id}
  BY <1>2, <1>5, <1>6, IdsGrow
<1>8. /\ c \in Context /\ c.path = "pipeline" /\ c.plan = Pipeline /\ c.pos = n
      /\ c.current = Pipeline[n] /\ c.outputs = ctx.outputs /\ c.error = ctx.error
  <2>1. Pipeline[n] \in Step
    BY <1>2, <1>6
  <2> DEFINE d == [ctx EXCEPT !.pos = n, !.current = Pipeline[n]]
  <2>2. /\ d \in Context /\ d.path = "pipeline" /\ d.plan = Pipeline /\ d.pos = n
        /\ d.current = Pipeline[n] /\ d.outputs = ctx.outputs /\ d.error = ctx.error
    BY <1>1, <1>2, <2>1 DEF Context
  <2>3. c = Entered(d)
    BY <1>2, <1>5
  <2> HIDE DEF c, d
  <2>4. Entered(d) \in Context
    BY <2>2, EnteredKeeps
  <2> QED BY <2>2, <2>3, <2>4, Blocks DEF SamePlace
<1> HIDE DEF c
<1>9. CASE GoOn(c) /\ ctx.error # "none" /\ UNCHANGED traces
  <2>1. ctx' = c /\ ~Waiting'
    BY <1>9 DEF GoOn, Waiting
  <2> QED BY <1>3, <1>6, <1>7, <1>8, <1>9, <2>1, PipelineAt
<1>10. CASE ExecuteStep(c) /\ ctx.error = "none"
  <2>1. ASSUME NEW d, SamePlace(d, c), ctx' = d, at' = "ready",
               d.outputs \subseteq IdsTo(Pipeline, n),
               d.error = "none" => ToolIds(traces') \subseteq d.outputs
        PROVE  InOrder'
    <3>1. ~Waiting'
      BY <2>1 DEF Waiting
    <3> QED BY <1>6, <1>8, <2>1, <3>1, PipelineAt DEF SamePlace
  <2>2. ASSUME ctx' = c, at' = c.current.type, Waiting', UNCHANGED traces PROVE InOrder'
    BY <1>3, <1>4, <1>6, <1>8, <1>10, <2>2, PipelineAt
  <2>3. CASE GoOn(Failed(c, "template_error")) /\ UNCHANGED <<traces, toolVars>>
    BY <1>3, <1>6, <1>7, <1>8, <2>1, <2>3, Blocks DEF GoOn
  <2>4. CASE c.current.type = "llm" /\ AskGateway(c)
    BY <2>2, <2>4 DEF AskGateway, Waiting
  <2>5. CASE c.current.type = "tool" /\ CallTool(c)
    BY <2>2, <2>5 DEF CallTool, Waiting
  <2>6. CASE /\ c.current.type = "transform" /\ GoOn(Output(c)) /\ traces' = Traced(c, "completed")
    <3>1. ToolIds(traces') = ToolIds(traces)
      BY <1>1, <1>8, <2>6, ToolIdsGrow
    <3>2. Output(c).outputs = ctx.outputs \cup {Pipeline[n].id} /\ SamePlace(Output(c), c)
      BY <1>8, Blocks
    <3> QED BY <1>3, <1>4, <1>6, <1>7, <1>10, <2>1, <2>6, <3>1, <3>2 DEF GoOn
  <2>7. CASE GoOn(Failed(c, "transform_error"))
    BY <1>3, <1>6, <1>7, <1>8, <2>1, <2>7, Blocks DEF GoOn
  <2> QED BY <1>10, <2>3, <2>4, <2>5, <2>6, <2>7 DEF ExecuteStep
<1> QED BY <1>9, <1>10 DEF PipelineNode, c

\* The same for a plan: its traces, their number and the nodes run.
TracesOfPlan(c, steps, n) ==
  /\ \A i \in DOMAIN steps : steps[i].id = IF i = 1 THEN PlanStep ELSE c.plan[i - 1].id
  /\ IF c.error = "none" THEN Len(steps) = IF c.plan = <<>> THEN 0 ELSE n + 1
     ELSE Len(steps) <= Len(c.plan) + 1

LEMMA PlanAt ==
  ASSUME ctx'.path = "planner_executor", NEW n \in 0 .. Len(ctx'.plan), Planned(ctx', n),
         Waiting' => /\ ctx'.current.type = at' /\ ctx'.error = "none"
                     /\ IF ctx'.plan = <<>> THEN at' = "llm" /\ ctx'.current.id = PlanStep
                        ELSE n < Len(ctx'.plan) /\ ctx'.current = ctx'.plan[n + 1],
         TracesOfPlan(ctx', traces', n),
         ctx'.error = "none" => ToolIds(traces') \subseteq ctx'.outputs,
         ctx'.nodes <= n + (IF ctx'.plan = <<>> THEN 0 ELSE 1)
                         + (IF Waiting' \/ ctx'.error # "none" THEN 1 ELSE 0)
  PROVE  InOrder'
<1>1. PlanInOrder'
  BY DEF PlanInOrder, Waiting, Planned, TracesOfPlan
<1>2. StepsCounted'
  BY DEF StepsCounted, Waiting
<1>3. PipelineInOrder' /\ TurnsInOrder'
  BY OtherPaths DEF Path
<1> QED BY <1>1, <1>2, <1>3 DEF InOrder

\* Where the plan is when one of its nodes begins, or an answer arrives.
LEMMA PlanIs ==
  ASSUME IInv, InOrder, ctx.path = "planner_executor"
  PROVE  \E n \in 0 .. Len(ctx.plan) :
           /\ n \in Nat /\ Planned(ctx, n) /\ TracesOfPlan(ctx, traces, n)
           /\ Waiting => /\ ctx.current.type = at /\ ctx.error = "none"
                         /\ IF ctx.plan = <<>> THEN at = "llm" /\ ctx.current.id = PlanStep
                            ELSE n < Len(ctx.plan) /\ ctx.current = ctx.plan[n + 1]
           /\ ctx.error = "none" => ToolIds(traces) \subseteq ctx.outputs
           /\ ctx.nodes <= n + (IF ctx.plan = <<>> THEN 0 ELSE 1)
                             + (IF Waiting \/ ctx.error # "none" THEN 1 ELSE 0)
  BY DEF InOrder, PlanInOrder, StepsCounted, TracesOfPlan

LEMMA PlanOrder == ASSUME IInv, InOrder, PlanNode PROVE InOrder'
<1> DEFINE step == [Pipeline[1] EXCEPT !.id = PlanStep, !.type = "llm", !.json = TRUE]
           d == [ctx EXCEPT !.current = step]
           c == Entered(d)
<1>1. /\ ctx \in Context /\ ctx.path = "planner_executor" /\ at = "ready" /\ ctx.error = "none"
      /\ ctx.plan = <<>> /\ ~Waiting
  BY DEF IInv, Typed, TypeOK, PlanNode, Waiting
<1>2. PICK n \in 0 .. Len(ctx.plan) :
        /\ n \in Nat /\ Planned(ctx, n) /\ TracesOfPlan(ctx, traces, n)
        /\ ToolIds(traces) \subseteq ctx.outputs /\ ctx.nodes <= n
  BY <1>1, PlanIs DEF Context
<1>3. step \in Step /\ step.id = PlanStep /\ step.type = "llm"
  BY PipelineStarts, TaskRunAssumption DEF Step
<1>4. d \in Context /\ d.path = ctx.path /\ d.plan = ctx.plan /\ d.outputs = ctx.outputs
      /\ d.error = ctx.error /\ d.current = step /\ d.nodes = ctx.nodes
  <2> HIDE DEF step
  <2> QED BY <1>1, <1>3 DEF Context
<1>5. c.path = ctx.path /\ c.plan = ctx.plan /\ c.outputs = ctx.outputs
      /\ c.error = ctx.error /\ c.current = step /\ c.nodes = ctx.nodes + 1
  <2> HIDE DEF d, step
  <2> QED BY <1>4, Blocks DEF SamePlace
<1>6. ctx' = c /\ at' = "llm" /\ UNCHANGED traces
  BY DEF PlanNode, AskGateway
<1> HIDE DEF c, d, step
<1>7. Planned(ctx', n) /\ TracesOfPlan(ctx', traces', n)
  BY <1>2, <1>5, <1>6 DEF Planned, TracesOfPlan
<1>8. ctx'.nodes <= n + 0 + 1 /\ Waiting'
  BY <1>1, <1>2, <1>5, <1>6 DEF Context, Waiting
<1> QED BY <1>1, <1>2, <1>3, <1>5, <1>6, <1>7, <1>8, PlanAt

LEMMA ExecuteOrder == ASSUME IInv, InOrder, ExecuteNode PROVE InOrder'
<1>1. /\ ctx \in Context /\ ctx.path = "planner_executor" /\ at = "ready" /\ ctx.error = "none"
      /\ ~Waiting /\ ctx.nodes \in Nat /\ ctx.plan \in Seq(Step)
  BY DEF IInv, Typed, TypeOK, ExecuteNode, Waiting, Context
<1>2. PICK n \in 0 .. Len(ctx.plan) :
        /\ n \in Nat /\ Planned(ctx, n) /\ TracesOfPlan(ctx, traces, n)
        /\ ToolIds(traces) \subseteq ctx.outputs
        /\ ctx.nodes <= n + (IF ctx.plan = <<>> THEN 0 ELSE 1)
  BY <1>1, PlanIs
<1>3. n = Cardinality(ctx.outputs) /\ n < Len(ctx.plan) /\ ctx.plan # <<>>
  BY <1>1, <1>2 DEF ExecuteNode, Planned
<1> DEFINE step == ctx.plan[n + 1]
           d == [ctx EXCEPT !.current = step]
           c == Entered(d)
<1>4. step \in Step
  BY <1>1, <1>2, <1>3
<1>5. d \in Context /\ d.path = ctx.path /\ d.plan = ctx.plan /\ d.outputs = ctx.outputs
      /\ d.error = ctx.error /\ d.current = step /\ d.nodes = ctx.nodes
  <2> HIDE DEF step
  <2> QED BY <1>1, <1>4 DEF Context
<1>6. c \in Context /\ c.path = ctx.path /\ c.plan = ctx.plan /\ c.outputs = ctx.outputs
      /\ c.error = ctx.error /\ c.current = step /\ c.nodes = ctx.nodes + 1
  <2> HIDE DEF d, step
  <2> QED BY <1>5, Blocks, EnteredKeeps DEF SamePlace
<1>7. \/ step.type = "llm" /\ AskGateway(c)
      \/ step.type = "tool" /\ CallTool(c)
      \/ GoOn(Failed(c, "unresolved_placeholder")) /\ UNCHANGED <<traces, toolVars>>
  BY <1>3 DEF ExecuteNode
<1> HIDE DEF c, d, step
<1>8. ASSUME ctx' = c, at' = step.type, Waiting', UNCHANGED traces PROVE InOrder'
  <2>1. Planned(ctx', n) /\ TracesOfPlan(ctx', traces', n)
    BY <1>2, <1>6, <1>8 DEF Planned, TracesOfPlan
  <2>2. ctx'.nodes <= n + 1 + 1
    BY <1>1, <1>2, <1>3, <1>6, <1>8
  <2> QED BY <1>1, <1>2, <1>3, <1>6, <1>8, <2>1, <2>2, PlanAt DEF step
<1>9. CASE GoOn(Failed(c, "unresolved_placeholder")) /\ UNCHANGED <<traces, toolVars>>
  <2>1. /\ ctx'.path = c.path /\ ctx'.plan = c.plan /\ ctx'.outputs = c.outputs
        /\ ctx'.error = "unresolved_placeholder" /\ ctx'.nodes = c.nodes /\ ~Waiting'
        /\ UNCHANGED traces
    BY <1>6, <1>9, Blocks DEF GoOn, SamePlace, Waiting
  <2>2. Planned(ctx', n)
    BY <1>2, <1>6, <2>1 DEF Planned
  <2>3. Len(traces) <= Len(ctx.plan) + 1
    BY <1>1, <1>2, <1>3 DEF TracesOfPlan
  <2>4. TracesOfPlan(ctx', traces', n)
    BY <1>1, <1>2, <1>6, <2>1, <2>3 DEF TracesOfPlan
  <2>5. ctx'.nodes <= n + 1 + 1
    BY <1>1, <1>2, <1>3, <1>6, <2>1
  <2> QED BY <1>1, <1>2, <1>3, <1>6, <2>1, <2>2, <2>5, <2>4, PlanAt
<1>10. CASE step.type = "llm" /\ AskGateway(c)
  BY <1>8, <1>10 DEF AskGateway, Waiting
<1>11. CASE step.type = "tool" /\ CallTool(c)
  BY <1>8, <1>11 DEF CallTool, Waiting
<1> QED BY <1>7, <1>9, <1>10, <1>11

LEMMA TurnsAt ==
  ASSUME ctx'.path = "react",
         MadeBefore(ToolIds(traces'), ctx'.turn, CallsDone'),
         Waiting' => ctx'.current.type = at' /\ ctx'.error = "none",
         at' = "tool" => /\ ctx'.turn >= 1 /\ ctx'.index >= 1 /\ ctx'.index - 1 \in CallIndex
                         /\ ctx'.current.id = CallStep(ctx'.turn, ctx'.index - 1),
         ctx'.nodes <= 2 * ctx'.turn + (IF ctx'.error = "none" THEN 0 ELSE 1),
         at' = "llm" => ctx'.nodes < 2 * ctx'.turn
  PROVE  InOrder'
<1>1. MadeBefore(ToolIds(traces), ctx.turn, CallsDone)'
  BY DEF MadeBefore, ToolIds
<1>2. TurnsInOrder'
  BY <1>1 DEF TurnsInOrder
<1>3. StepsCounted'
  BY DEF StepsCounted, Waiting
<1>4. PipelineInOrder' /\ PlanInOrder'
  BY OtherPaths DEF Path
<1> QED BY <1>2, <1>3, <1>4 DEF InOrder

LEMMA IndexesAreNats == CallIndex \subseteq Nat
<1> SUFFICES ASSUME NEW asked \in Turns, NEW i \in DOMAIN asked PROVE i - 1 \in Nat
  BY DEF CallIndex
<1>1. asked \in Seq(ToolCall)
  BY TaskRunAssumption
<1> QED BY <1>1

\* What was made before a place was made before every later one.
LEMMA MadeEarlier ==
  ASSUME NEW ids, NEW t \in Nat, NEW n \in Int, NEW u \in Nat, NEW m \in Int,
         t < u \/ (t = u /\ n <= m), MadeBefore(ids, t, n)
  PROVE  MadeBefore(ids, u, m)
<1> SUFFICES ASSUME NEW id \in ids
             PROVE  \E r \in 1 .. MaxTurns, k \in CallIndex :
                      id = CallStep(r, k) /\ (r < u \/ (r = u /\ k < m))
  BY DEF MadeBefore
<1>1. PICK r \in 1 .. MaxTurns, k \in CallIndex :
        id = CallStep(r, k) /\ (r < t \/ (r = t /\ k < n))
  BY DEF MadeBefore
<1>2. k \in Nat /\ r \in Nat
  BY IndexesAreNats
<1>3. r < u \/ (r = u /\ k < m)
  BY <1>1, <1>2
<1> QED BY <1>1, <1>3

LEMMA AgentOrder == ASSUME IInv, InOrder, AgentNode PROVE InOrder'
<1> DEFINE c == Entered(ctx)
           step == [Pipeline[1] EXCEPT !.id = TurnStep(ctx.turn + 1), !.type = "llm"]
           d == [c EXCEPT !.turn = @ + 1, !.current = step]
<1>1. /\ ctx \in Context /\ Good(ctx) /\ ctx.path = "react" /\ at = "ready" /\ ctx.error = "none"
      /\ ctx.turn \in Nat /\ ctx.index \in Nat /\ ctx.nodes \in Nat
  BY DEF IInv, Typed, TypeOK, AgentNode, Context
<1>2. MadeBefore(ToolIds(traces), ctx.turn, ctx.index) /\ ctx.nodes <= 2 * ctx.turn
  BY <1>1 DEF InOrder, TurnsInOrder, CallsDone
<1>3. c \in Context /\ SamePlace(c, ctx) /\ c.nodes = ctx.nodes + 1 /\ c.error = "none"
  BY <1>1, EnteredKeeps, Blocks
<1> HIDE DEF c
<1>4. CASE ctx.turn >= MaxTurns
  <2>1. GoOn(Failed(c, "max_iterations")) /\ UNCHANGED traces
    BY <1>4 DEF AgentNode, c
  <2>2. /\ ctx'.path = "react" /\ ctx'.turn = ctx.turn /\ ctx'.index = ctx.index
        /\ ctx'.nodes = ctx.nodes + 1 /\ ctx'.error = "max_iterations" /\ at' = "ready" /\ ~Waiting'
    BY <1>1, <1>3, <2>1, Blocks DEF GoOn, SamePlace, Waiting
  <2>3. ctx'.nodes <= 2 * ctx'.turn + 1
    BY <1>1, <1>2, <2>2
  <2> QED BY <1>2, <2>1, <2>2, <2>3, TurnsAt DEF CallsDone
<1>5. CASE ~(ctx.turn >= MaxTurns)
  <2>1. ctx.turn + 1 \in 1 .. MaxTurns
    BY <1>1, <1>5, TaskRunAssumption DEF Good
  <2>2. step \in Step /\ step.type = "llm"
    BY <2>1, PipelineStarts, TaskRunAssumption DEF Step
  <2> HIDE DEF step
  <2>3. /\ d.path = c.path /\ d.turn = c.turn + 1 /\ d.current = step /\ d.nodes = c.nodes
        /\ d.error = c.error
    BY <1>3 DEF Context
  <2>4. ctx' = d /\ at' = "llm" /\ UNCHANGED traces
    BY <1>5 DEF AgentNode, AskGateway, c, step
  <2> HIDE DEF d
  <2>5. /\ ctx'.path = "react" /\ ctx'.turn = ctx.turn + 1 /\ ctx'.nodes = ctx.nodes + 1
        /\ ctx'.error = "none" /\ ctx'.current = step
    BY <1>1, <1>3, <2>3, <2>4 DEF SamePlace
  <2>6. MadeBefore(ToolIds(traces), ctx.turn + 1, 0)
    BY <1>1, <1>2, MadeEarlier
  <2>7. CallsDone' = 0 /\ at' # "tool"
    BY <2>4 DEF CallsDone
  <2>8. ctx.nodes + 1 < 2 * (ctx.turn + 1)
    BY <1>1, <1>2
  <2>9. ctx.nodes + 1 <= 2 * (ctx.turn + 1) + 0
    BY <1>1, <1>2
  <2> QED BY <2>2, <2>4, <2>5, <2>6, <2>8, <2>9, <2>7, TurnsAt
<1> QED BY <1>4, <1>5

\* The agent's next call, and what becomes of it.
LEMMA NextCall ==
  ASSUME IInv, NothingLeft, InOrder, CallNode
  PROVE  /\ at = "ready" /\ ctx.turn \in 1 .. MaxTurns /\ ctx.index \in CallIndex
         /\ MadeBefore(ToolIds(traces), ctx.turn, ctx.index)
         /\ \E c \in Context :
              /\ c.path = "react" /\ c.turn = ctx.turn /\ c.index = ctx.index + 1
              /\ c.current.type = "tool" /\ c.current.id = CallStep(ctx.turn, ctx.index)
              /\ c.nodes = ctx.nodes /\ c.error = "none"
              /\ \/ GoOn(c) /\ UNCHANGED <<traces, toolVars>>
                 \/ GoOn(c) /\ traces' = Traced(c, "failed") /\ UNCHANGED toolVars
                 \/ CallTool(c)
<1> DEFINE asked == Head(ctx.calls)
           step == [Pipeline[1] EXCEPT !.id = CallStep(ctx.turn, ctx.index), !.type = "tool",
                                       !.tool = asked.tool, !.args = asked.args]
           c == [ctx EXCEPT !.calls = Tail(@), !.index = @ + 1, !.current = step]
<1>1. /\ ctx \in Context /\ Good(ctx) /\ ctx.path = "react" /\ at = "ready" /\ ctx.calls # <<>>
      /\ ctx.error = "none" /\ ctx.index \in Nat /\ ctx.nodes \in Nat /\ ctx.turn \in Nat
      /\ ctx.calls \in Seq(ToolCall) /\ traces \in Seq(Trace)
  BY DEF IInv, Typed, TypeOK, CallNode, NothingLeft, Context
<1>2. MadeBefore(ToolIds(traces), ctx.turn, ctx.index) /\ ctx.nodes <= 2 * ctx.turn
  BY <1>1 DEF InOrder, TurnsInOrder, CallsDone
<1>3. ctx.turn \in 1 .. MaxTurns
  <2>1. ctx.turn \in 0 .. MaxTurns /\ ctx.turn >= 1
    BY <1>1 DEF Good
  <2>2. MaxTurns \in Nat
    BY TaskRunAssumption
  <2> QED BY <2>1, <2>2
<1>4. ctx.index \in CallIndex
  <2>1. PICK turn \in Turns : ctx.index + Len(ctx.calls) = Len(turn)
    BY <1>1 DEF Good
  <2>2. turn \in Seq(ToolCall)
    BY TaskRunAssumption
  <2>3. ctx.index + 1 \in DOMAIN turn /\ (ctx.index + 1) - 1 = ctx.index
    BY <1>1, <2>1, <2>2
  <2>4. ctx.index \in {i - 1 : i \in DOMAIN turn}
    BY <2>3
  <2> QED BY <2>4 DEF CallIndex
<1>5. step \in Step /\ step.type = "tool" /\ step.id = CallStep(ctx.turn, ctx.index)
  <2>1. asked \in ToolCall
    BY <1>1
  <2>2. CallStep(ctx.turn, ctx.index) \in StepId
    BY <1>3, <1>4, TaskRunAssumption
  <2> QED BY <2>1, <2>2, PipelineStarts DEF Step, ToolCall
<1>6. /\ c \in Context /\ c.path = "react" /\ c.turn = ctx.turn /\ c.index = ctx.index + 1
      /\ c.current = step /\ c.nodes = ctx.nodes /\ c.error = "none"
  <2>1. Tail(ctx.calls) \in Seq(ToolCall) /\ ctx.index + 1 \in Nat
    BY <1>1
  <2>2. c = [ctx EXCEPT !.calls = Tail(ctx.calls), !.index = ctx.index + 1, !.current = step]
    OBVIOUS
  <2> HIDE DEF step, c
  <2> QED BY <1>1, <1>5, <2>1, <2>2 DEF Context
<1>7. \/ GoOn(c) /\ UNCHANGED <<traces, toolVars>>
      \/ GoOn(c) /\ traces' = Traced(c, "failed") /\ UNCHANGED toolVars
      \/ CallTool(c)
  BY DEF CallNode
<1> HIDE DEF c, step, asked
<1> QED BY <1>1, <1>2, <1>3, <1>4, <1>5, <1>6, <1>7

LEMMA CallOrder == ASSUME IInv, NothingLeft, InOrder, CallNode PROVE InOrder'
<1>1. /\ at = "ready" /\ ctx.turn \in 1 .. MaxTurns /\ ctx.index \in CallIndex
      /\ MadeBefore(ToolIds(traces), ctx.turn, ctx.index)
  BY NextCall
<1>2. PICK c \in Context :
        /\ c.path = "react" /\ c.turn = ctx.turn /\ c.index = ctx.index + 1
        /\ c.current.type = "tool" /\ c.current.id = CallStep(ctx.turn, ctx.index)
        /\ c.nodes = ctx.nodes /\ c.error = "none"
        /\ \/ GoOn(c) /\ UNCHANGED <<traces, toolVars>>
           \/ GoOn(c) /\ traces' = Traced(c, "failed") /\ UNCHANGED toolVars
           \/ CallTool(c)
  BY NextCall
<1>3. ctx.index \in Nat /\ ctx.turn \in Nat /\ ctx.turn >= 1 /\ traces \in Seq(Trace)
  <2>1. traces \in Seq(Trace)
    BY DEF IInv, Typed, TypeOK
  <2>2. ctx.turn \in Nat /\ ctx.turn >= 1
    BY <1>1
  <2> QED BY <1>1, <2>1, <2>2, IndexesAreNats
<1>4. ctx.nodes <= 2 * ctx.turn + 0
  <2>1. ctx.error = "none" /\ ctx.path = "react"
    BY DEF CallNode, NothingLeft
  <2>2. ctx.nodes <= 2 * ctx.turn + (IF ctx.error = "none" THEN 0 ELSE 1)
    BY <2>1 DEF InOrder, TurnsInOrder
  <2> QED BY <2>1, <2>2
<1>5. MadeBefore(ToolIds(traces), ctx.turn, ctx.index + 1)
  <2>1. ctx.index \in Int /\ ctx.index + 1 \in Int /\ ctx.index <= ctx.index + 1
    BY <1>3
  <2> QED BY <1>1, <1>3, <2>1, MadeEarlier
<1>6. CASE GoOn(c) /\ UNCHANGED <<traces, toolVars>>
  <2>1. ctx' = c /\ ~Waiting' /\ CallsDone' = ctx.index + 1 /\ at' \notin {"tool", "llm"}
    BY <1>2, <1>6 DEF GoOn, CallsDone, Waiting
  <2> QED BY <1>2, <1>4, <1>5, <1>6, <2>1, TurnsAt
<1>7. CASE GoOn(c) /\ traces' = Traced(c, "failed") /\ UNCHANGED toolVars
  <2>1. ToolIds(traces') = ToolIds(traces) \cup {CallStep(ctx.turn, ctx.index)}
    BY <1>2, <1>3, <1>7, ToolIdsGrow
  <2>2. ctx.index < ctx.index + 1
    BY <1>3
  <2>3. MadeBefore(ToolIds(traces'), ctx.turn, ctx.index + 1)
    BY <1>1, <1>5, <2>1, <2>2 DEF MadeBefore
  <2>4. ctx' = c /\ ~Waiting' /\ CallsDone' = ctx.index + 1 /\ at' \notin {"tool", "llm"}
    BY <1>2, <1>7 DEF GoOn, CallsDone, Waiting
  <2> QED BY <1>2, <1>4, <2>3, <2>4, TurnsAt
<1>8. CASE CallTool(c)
  <2>1. ctx' = c /\ at' = "tool" /\ UNCHANGED traces
    BY <1>8 DEF CallTool
  <2>2. ctx'.index - 1 = ctx.index /\ ctx'.index >= 1 /\ ctx'.turn >= 1
    BY <1>2, <1>3, <2>1
  <2>3. CallsDone' = ctx.index /\ at' # "llm"
    BY <2>1, <2>2 DEF CallsDone
  <2> QED BY <1>1, <1>2, <1>4, <2>1, <2>2, <2>3, TurnsAt
<1> QED BY <1>2, <1>6, <1>7, <1>8

\* The answer to a step of the pipeline or of a plan: its output, or an error.
StepDone(status) ==
  Waiting /\ at' = "ready" /\ ctx' = Output(ctx) /\ traces' = Traced(ctx, status)

StepFails(status) ==
  /\ Waiting /\ at' = "ready" /\ traces' = Traced(ctx, status)
  /\ \E reason \in Reason \ {"none"} : ctx' = Failed(ctx, reason)

LEMMA PipelineAnswered ==
  ASSUME IInv, InOrder, ctx.path = "pipeline", NEW status \in {"completed", "failed"},
         StepDone(status) \/ StepFails(status)
  PROVE  InOrder'
<1>1. /\ ctx \in Context /\ traces \in Seq(Trace) /\ Waiting /\ ~Waiting'
      /\ traces' = Traced(ctx, status) /\ ctx.pos \in Nat /\ Pipeline \in Seq(Step)
  BY PipelineStarts DEF IInv, Typed, TypeOK, StepDone, StepFails, Waiting, Context
<1>2. /\ ctx.plan = Pipeline /\ ctx.pos <= Len(Pipeline) /\ ctx.pos >= 1
      /\ ctx.current = Pipeline[ctx.pos] /\ ctx.outputs \subseteq IdsTo(Pipeline, ctx.pos - 1)
      /\ ToolIds(traces) \subseteq ctx.outputs
  BY <1>1 DEF InOrder, PipelineInOrder, StepsCounted
<1>3. ctx.pos - 1 \in Nat /\ (ctx.pos - 1) + 1 = ctx.pos /\ ctx.pos \in 0 .. Len(Pipeline)
  BY <1>1, <1>2
<1>4. IdsTo(Pipeline, ctx.pos) = IdsTo(Pipeline, ctx.pos - 1) \cup {ctx.current.id}
  BY <1>2, <1>3, IdsGrow
<1>5. ToolIds(traces') \subseteq ctx.outputs \cup {ctx.current.id}
  BY <1>1, <1>2, ToolIdsGrow
<1>6. PICK n \in 0 .. Len(Pipeline) : n = ctx.pos
  BY <1>3
<1>7. SamePlace(ctx', ctx)
  BY <1>1, Blocks DEF StepDone, StepFails
<1>8. /\ ctx'.outputs \subseteq IdsTo(Pipeline, n)
      /\ ctx'.error = "none" => ToolIds(traces') \subseteq ctx'.outputs
  <2>1. CASE ctx' = Output(ctx)
    BY <1>1, <1>2, <1>4, <1>5, <1>6, <2>1, Blocks
  <2>2. CASE \E reason \in Reason \ {"none"} : ctx' = Failed(ctx, reason)
    BY <1>1, <1>2, <1>4, <1>6, <2>2, Blocks
  <2> QED BY <2>1, <2>2 DEF StepDone, StepFails
<1> QED BY <1>1, <1>2, <1>6, <1>7, <1>8, PipelineAt DEF SamePlace

\* Where a plan waits for the answer to its next step, or to the planning call.
LEMMA PlanWaits ==
  ASSUME IInv, InOrder, ctx.path = "planner_executor", Waiting,
         NEW status \in {"completed", "failed"}, traces' = Traced(ctx, status)
  PROVE  \E n \in 0 .. Len(ctx.plan) :
           /\ n \in Nat /\ Planned(ctx, n) /\ ctx.current.type = at
           /\ IF ctx.plan = <<>> THEN n = 0 /\ ctx.current.id = PlanStep
              ELSE n < Len(ctx.plan) /\ ctx.current = ctx.plan[n + 1]
           /\ \A i \in DOMAIN traces' :
                traces'[i].id = IF i = 1 THEN PlanStep ELSE ctx.plan[i - 1].id
           /\ Len(traces') = IF ctx.plan = <<>> THEN 1 ELSE n + 2
           /\ ToolIds(traces) \subseteq ctx.outputs
           /\ ToolIds(traces') \subseteq ctx.outputs \cup {ctx.current.id}
           /\ ctx.nodes \in Nat /\ ctx.nodes <= n + (IF ctx.plan = <<>> THEN 1 ELSE 2)
<1>1. ctx \in Context /\ traces \in Seq(Trace) /\ ctx.nodes \in Nat /\ ctx.plan \in Seq(Step)
  BY DEF IInv, Typed, TypeOK, Context
<1>2. PICK n \in 0 .. Len(ctx.plan) :
        /\ n \in Nat /\ Planned(ctx, n) /\ TracesOfPlan(ctx, traces, n)
        /\ ctx.current.type = at /\ ctx.error = "none"
        /\ IF ctx.plan = <<>> THEN at = "llm" /\ ctx.current.id = PlanStep
           ELSE n < Len(ctx.plan) /\ ctx.current = ctx.plan[n + 1]
        /\ ToolIds(traces) \subseteq ctx.outputs
        /\ ctx.nodes <= n + (IF ctx.plan = <<>> THEN 0 ELSE 1) + 1
  BY PlanIs
<1>3. ctx.plan = <<>> => n = 0
  BY <1>2
<1>4. /\ Len(traces') = Len(traces) + 1 /\ DOMAIN traces' = 1 .. Len(traces) + 1
      /\ DOMAIN traces = 1 .. Len(traces) /\ Len(traces) \in Nat
      /\ \A i \in 1 .. Len(traces) : traces'[i] = traces[i]
      /\ traces'[Len(traces) + 1].id = ctx.current.id
  BY <1>1, TraceAdded
<1>5. Len(traces) = IF ctx.plan = <<>> THEN 0 ELSE n + 1
  BY <1>2 DEF TracesOfPlan
<1>6. ASSUME NEW i \in DOMAIN traces'
      PROVE  traces'[i].id = IF i = 1 THEN PlanStep ELSE ctx.plan[i - 1].id
  <2>1. CASE i \in 1 .. Len(traces)
    BY <1>2, <1>4, <2>1 DEF TracesOfPlan
  <2>2. CASE i = Len(traces) + 1
    BY <1>2, <1>4, <1>5, <2>2
  <2> QED BY <1>4, <2>1, <2>2
<1>7. ToolIds(traces') \subseteq ctx.outputs \cup {ctx.current.id}
  BY <1>1, <1>2, ToolIdsGrow
<1>8. Len(traces') = IF ctx.plan = <<>> THEN 1 ELSE n + 2
  BY <1>2, <1>4, <1>5
<1>9. ctx.nodes <= n + (IF ctx.plan = <<>> THEN 1 ELSE 2)
  BY <1>1, <1>2
<1> QED BY <1>1, <1>2, <1>3, <1>6, <1>7, <1>8, <1>9

LEMMA PlanAnswered ==
  ASSUME IInv, InOrder, ctx.path = "planner_executor", NEW status \in {"completed", "failed"},
         (ctx.plan # <<>> /\ StepDone(status)) \/ StepFails(status)
  PROVE  InOrder'
<1>1. /\ ctx \in Context /\ Waiting /\ ~Waiting' /\ traces' = Traced(ctx, status)
      /\ ctx.plan \in Seq(Step) /\ Good(ctx)
  BY DEF IInv, Typed, TypeOK, StepDone, StepFails, Waiting, Context
<1>2. PICK n \in 0 .. Len(ctx.plan) :
        /\ n \in Nat /\ Planned(ctx, n)
        /\ IF ctx.plan = <<>> THEN n = 0 /\ ctx.current.id = PlanStep
           ELSE n < Len(ctx.plan) /\ ctx.current = ctx.plan[n + 1]
        /\ \A i \in DOMAIN traces' :
             traces'[i].id = IF i = 1 THEN PlanStep ELSE ctx.plan[i - 1].id
        /\ Len(traces') = IF ctx.plan = <<>> THEN 1 ELSE n + 2
        /\ ToolIds(traces') \subseteq ctx.outputs \cup {ctx.current.id}
        /\ ctx.nodes \in Nat /\ ctx.nodes <= n + (IF ctx.plan = <<>> THEN 1 ELSE 2)
  BY <1>1, PlanWaits
<1>3. SamePlace(ctx', ctx) /\ ctx'.nodes = ctx.nodes
  BY <1>1, Blocks DEF StepDone, StepFails
<1>4. CASE ctx.plan # <<>> /\ ctx' = Output(ctx)
  <2>1. ctx'.outputs = ctx.outputs \cup {ctx.current.id} /\ ctx'.error = ctx.error
    BY <1>1, <1>4, Blocks
  <2>2. ctx.error = "none"
    BY <1>1 DEF InOrder, StepsCounted
  <2>3. PICK m \in 0 .. Len(ctx.plan) : m = n + 1
    BY <1>1, <1>2, <1>4
  <2>4. ctx.outputs = IdsTo(ctx.plan, n) /\ n = Cardinality(ctx.outputs)
        /\ UniqueIds(ctx.plan) /\ ValidPlan(ctx.plan)
    BY <1>2, <1>4 DEF Planned, ValidPlan
  <2>5. ctx'.outputs = IdsTo(ctx.plan, m) /\ ctx.current = ctx.plan[m]
    <3>1. ctx.current = ctx.plan[n + 1]
      BY <1>2, <1>4
    <3>2. IdsTo(ctx.plan, n + 1) = IdsTo(ctx.plan, n) \cup {ctx.plan[n + 1].id}
      BY <1>2, IdsGrow
    <3> QED BY <2>1, <2>3, <2>4, <3>1, <3>2
  <2>6. ctx.current.id \notin ctx.outputs
    <3>1. ASSUME NEW i \in 1 .. n PROVE ctx.plan[i].id # ctx.plan[m].id
      <4>1. i \in DOMAIN ctx.plan /\ m \in DOMAIN ctx.plan /\ i # m
        BY <1>1, <1>2, <1>4, <2>3
      <4>2. \A j, k \in DOMAIN ctx.plan : ctx.plan[j].id = ctx.plan[k].id => j = k
        BY <2>4 DEF UniqueIds
      <4> QED BY <4>1, <4>2
    <3> QED BY <2>4, <2>5, <3>1 DEF IdsTo
  <2>7. Cardinality(ctx'.outputs) = m
    <3>1. IsFiniteSet(ctx.outputs)
      BY <1>1 DEF Good
    <3>2. Cardinality(ctx.outputs \cup {ctx.current.id}) = Cardinality(ctx.outputs) + 1
      BY <2>6, <3>1, FS_AddElement
    <3> QED BY <2>1, <2>3, <2>4, <3>2
  <2>8. Planned(ctx', m)
    <3>1. ctx'.plan = ctx.plan
      BY <1>3 DEF SamePlace
    <3>2. \A i \in DOMAIN ctx.plan : ctx.plan[i].id # PlanStep
      BY <1>2, <1>4 DEF Planned
    <3> QED BY <2>4, <2>5, <2>7, <3>1, <3>2 DEF Planned
  <2>9. TracesOfPlan(ctx', traces', m)
    <3>1. n + 2 = m + 1
      BY <1>2, <2>3
    <3>2. Len(traces') = m + 1
      BY <1>2, <1>4, <3>1
    <3>3. ctx'.plan = ctx.plan /\ ctx'.error = "none"
      BY <1>3, <2>1, <2>2 DEF SamePlace
    <3> QED BY <1>2, <1>4, <3>2, <3>3 DEF TracesOfPlan
  <2>10. ctx'.nodes <= m + 1 + 0
    BY <1>2, <1>3, <1>4, <2>3
  <2> QED BY <1>1, <1>2, <1>3, <1>4, <2>1, <2>2, <2>8, <2>9, <2>10, PlanAt DEF SamePlace
<1>5. CASE \E reason \in Reason \ {"none"} : ctx' = Failed(ctx, reason)
  <2>1. ctx'.outputs = ctx.outputs /\ ctx'.error # "none"
    BY <1>1, <1>5, Blocks
  <2>2. Planned(ctx', n)
    BY <1>2, <1>3, <2>1 DEF Planned, SamePlace
  <2>3. Len(traces') <= Len(ctx.plan) + 1
    BY <1>1, <1>2
  <2>4. TracesOfPlan(ctx', traces', n)
    BY <1>2, <1>3, <2>1, <2>3 DEF TracesOfPlan, SamePlace
  <2>5. ctx'.nodes <= n + (IF ctx'.plan = <<>> THEN 0 ELSE 1) + 1
    BY <1>2, <1>3 DEF SamePlace
  <2> QED BY <1>1, <1>2, <1>3, <2>1, <2>2, <2>4, <2>5, PlanAt DEF SamePlace
<1> QED BY <1>4, <1>5 DEF StepDone, StepFails

\* The plan arrives.
LEMMA PlanArrives ==
  ASSUME IInv, InOrder, ctx.path = "planner_executor", at = "llm", at' = "ready",
         ctx.current.id = PlanStep, traces' = Traced(ctx, "completed"),
         NEW raw \in Plans, ValidPlan(StepsOf(raw)), ctx' = [ctx EXCEPT !.plan = StepsOf(raw)]
  PROVE  InOrder'
<1>1. /\ ctx \in Context /\ Waiting /\ ~Waiting' /\ ctx.error = "none"
  BY DEF IInv, Typed, TypeOK, Waiting, InOrder, StepsCounted
<1>2. PICK n \in 0 .. Len(ctx.plan) :
        /\ n \in Nat /\ Planned(ctx, n) /\ ctx.current.type = at
        /\ IF ctx.plan = <<>> THEN n = 0 /\ ctx.current.id = PlanStep
           ELSE n < Len(ctx.plan) /\ ctx.current = ctx.plan[n + 1]
        /\ \A i \in DOMAIN traces' :
             traces'[i].id = IF i = 1 THEN PlanStep ELSE ctx.plan[i - 1].id
        /\ Len(traces') = IF ctx.plan = <<>> THEN 1 ELSE n + 2
        /\ ToolIds(traces) \subseteq ctx.outputs
        /\ ctx.nodes \in Nat /\ ctx.nodes <= n + (IF ctx.plan = <<>> THEN 1 ELSE 2)
  BY <1>1, PlanWaits
<1>3. ctx.plan = <<>> /\ n = 0
  <2> SUFFICES ASSUME ctx.plan # <<>> PROVE FALSE
    BY <1>2
  <2>1. n + 1 \in DOMAIN ctx.plan
    BY <1>1, <1>2 DEF Context
  <2> QED BY <1>2, <2>1 DEF Planned
<1>4. PICK plan \in Seq(Step) : plan = StepsOf(raw)
  BY StepsTyped
<1>5. /\ ctx'.path = ctx.path /\ ctx'.plan = plan /\ ctx'.outputs = ctx.outputs
      /\ ctx'.error = "none" /\ ctx'.nodes = ctx.nodes
  BY <1>1, <1>4 DEF Context
<1>6. plan # <<>> /\ ValidPlan(plan)
  BY <1>4 DEF ValidPlan
<1>7. Planned(ctx', 0)
  <2>1. Cardinality(ctx.outputs) = 0 /\ ctx.outputs = IdsTo(ctx.plan, 0)
    BY <1>2, <1>3 DEF Planned
  <2>2. ctx.outputs = IdsTo(plan, 0)
    BY <2>1 DEF IdsTo
  <2>3. \A i \in DOMAIN plan : plan[i].id # PlanStep
    <3>1. DOMAIN plan = DOMAIN raw /\ \A i \in DOMAIN raw : plan[i].id = raw[i].step.id
      BY <1>4 DEF StepsOf
    <3> QED BY <3>1, TaskRunAssumption
  <2> QED BY <1>5, <1>6, <2>1, <2>2, <2>3 DEF Planned
<1>8. TracesOfPlan(ctx', traces', 0)
  <2>1. /\ traces \in Seq(Trace) /\ DOMAIN traces' = 1 .. Len(traces) + 1
        /\ Len(traces') = Len(traces) + 1 /\ Len(traces) \in Nat
    BY <1>1, TraceAdded DEF IInv, Typed, TypeOK
  <2>2. DOMAIN traces' = {1} /\ Len(traces') = 1
    BY <1>2, <1>3, <2>1
  <2> QED BY <1>2, <1>5, <1>6, <2>2 DEF TracesOfPlan
<1>9. ToolIds(traces') = ToolIds(traces)
  BY <1>1, <1>2, ToolIdsGrow DEF IInv, Typed, TypeOK
<1>10. 0 \in 0 .. Len(plan)
  BY <1>4
<1> QED BY <1>1, <1>2, <1>3, <1>5, <1>6, <1>7, <1>8, <1>9, <1>10, PlanAt

\* What the agent's turn ends with: an error, its end, or calls.
AgentAnswered ==
  \/ ctx' = [ctx EXCEPT !.done = TRUE]
  \/ \E asked \in Turns : ctx' = Entered([ctx EXCEPT !.calls = asked, !.index = 0])
  \/ ctx' = Failed(ctx, "gateway_error")

LEMMA TurnEnds ==
  ASSUME IInv, InOrder, ctx.path = "react", at = "llm", at' = "ready",
         NEW status \in {"completed", "failed"}, traces' = Traced(ctx, status), AgentAnswered
  PROVE  InOrder'
<1>1. /\ ctx \in Context /\ Waiting /\ ~Waiting' /\ ctx.error = "none" /\ ctx.current.type = "llm"
      /\ ctx.turn \in Nat /\ ctx.index \in Nat /\ ctx.nodes \in Nat
  BY DEF IInv, Typed, TypeOK, Waiting, InOrder, StepsCounted, Context
<1>2. MadeBefore(ToolIds(traces), ctx.turn, 0) /\ ctx.nodes < 2 * ctx.turn
  BY DEF InOrder, TurnsInOrder, CallsDone
<1>3. ToolIds(traces') = ToolIds(traces)
  BY <1>1, ToolIdsGrow DEF IInv, Typed, TypeOK
<1>4. /\ ctx'.path = "react" /\ ctx'.turn = ctx.turn /\ ctx'.index \in {ctx.index, 0}
      /\ ctx'.nodes <= ctx.nodes + 1 /\ ctx'.nodes \in Nat
  <2>1. CASE ctx' = [ctx EXCEPT !.done = TRUE]
    BY <1>1, <2>1 DEF Context
  <2>2. CASE ctx' = Failed(ctx, "gateway_error")
    BY <1>1, <2>2, Blocks DEF SamePlace
  <2>3. ASSUME NEW asked \in Turns, ctx' = Entered([ctx EXCEPT !.calls = asked, !.index = 0])
        PROVE  /\ ctx'.path = "react" /\ ctx'.turn = ctx.turn /\ ctx'.index \in {ctx.index, 0}
               /\ ctx'.nodes <= ctx.nodes + 1 /\ ctx'.nodes \in Nat
    <3>1. asked \in Seq(ToolCall)
      BY TaskRunAssumption
    <3> DEFINE d == [ctx EXCEPT !.calls = asked, !.index = 0]
    <3>2. /\ d \in Context /\ d.path = "react" /\ d.turn = ctx.turn /\ d.index = 0
          /\ d.nodes = ctx.nodes
      BY <1>1, <3>1 DEF Context
    <3> HIDE DEF d
    <3>3. ctx' = Entered(d)
      BY <2>3 DEF d
    <3>4. ctx'.path = "react" /\ ctx'.turn = ctx.turn /\ ctx'.index = 0
          /\ ctx'.nodes = ctx.nodes + 1
      BY <3>2, <3>3, Blocks DEF SamePlace
    <3> QED BY <1>1, <3>4
  <2> QED BY <2>1, <2>2, <2>3 DEF AgentAnswered
<1>5. ctx'.index \in Int /\ 0 <= ctx'.index
  BY <1>1, <1>4
<1>6. MadeBefore(ToolIds(traces'), ctx'.turn, ctx'.index)
  BY <1>1, <1>2, <1>3, <1>4, <1>5, MadeEarlier
<1>7. CallsDone' = ctx'.index /\ at' \notin {"llm", "tool"}
  BY DEF CallsDone
<1>8. ctx'.nodes <= 2 * ctx'.turn + 0 /\ ctx'.nodes <= 2 * ctx'.turn + 1
  BY <1>1, <1>2, <1>4
<1> QED BY <1>1, <1>4, <1>6, <1>7, <1>8, TurnsAt

LEMMA LlmAnswerOrder == ASSUME IInv, InOrder, LlmAnswer PROVE InOrder'
<1>1. /\ ctx \in Context /\ ctx.path \in Path /\ Waiting /\ at = "llm" /\ at' = "ready"
  BY DEF IInv, Typed, TypeOK, Waiting, LlmAnswer, Context, GoOn, GatewayFails
<1>2. CASE GatewayFails
  <2>1. ctx' = Failed(ctx, "gateway_error") /\ traces' = Traced(ctx, "failed")
    BY <1>2 DEF GatewayFails, GoOn
  <2>2. StepFails("failed")
    BY <1>1, <2>1 DEF StepFails, Reason
  <2> QED BY <1>1, <2>1, <2>2, PipelineAnswered, PlanAnswered, TurnEnds DEF Path, AgentAnswered
<1>3. ASSUME NEW d \in AfterCompletion(ctx), GoOn(d), traces' = Traced(ctx, "completed")
      PROVE  InOrder'
  <2>1. ctx' = d
    BY <1>3 DEF GoOn
  <2>2. ASSUME NEW reason \in Reason \ {"none"}, d = Failed(ctx, reason)
        PROVE  StepFails("completed")
    BY <1>1, <1>3, <2>1, <2>2 DEF StepFails
  <2>3. d = Output(ctx) => StepDone("completed")
    BY <1>1, <1>3, <2>1 DEF StepDone
  <2>4. CASE ctx.path = "pipeline"
    <3>1. \/ d = Output(ctx)
          \/ d = Failed(ctx, "invalid_json") \/ d = Failed(ctx, "empty_output")
      BY <2>4 DEF AfterCompletion
    <3>2. {"invalid_json", "empty_output"} \subseteq Reason \ {"none"}
      BY DEF Reason
    <3> QED BY <2>2, <2>3, <2>4, <3>1, <3>2, PipelineAnswered
  <2>5. CASE ctx.path = "planner_executor" /\ ctx.current.id = PlanStep
    <3>1. \/ d = Failed(ctx, "invalid_plan")
          \/ \E raw \in Plans :
               ValidPlan(StepsOf(raw)) /\ d = [ctx EXCEPT !.plan = StepsOf(raw)]
      BY <2>5 DEF AfterCompletion
    <3>2. "invalid_plan" \in Reason \ {"none"}
      BY DEF Reason
    <3>3. CASE d = Failed(ctx, "invalid_plan")
      BY <2>2, <2>5, <3>2, <3>3, PlanAnswered
    <3>4. ASSUME NEW raw \in Plans, ValidPlan(StepsOf(raw)), d = [ctx EXCEPT !.plan = StepsOf(raw)]
          PROVE  InOrder'
      BY <1>1, <1>3, <2>1, <2>5, <3>4, PlanArrives
    <3> QED BY <3>1, <3>3, <3>4
  <2>6. CASE ctx.path = "planner_executor" /\ ctx.current.id # PlanStep
    <3>1. d = Output(ctx) \/ d = Failed(ctx, "invalid_json")
      BY <2>6 DEF AfterCompletion
    <3>2. "invalid_json" \in Reason \ {"none"}
      BY DEF Reason
    <3>3. ctx.plan # <<>>
      BY <1>1, <2>6 DEF InOrder, PlanInOrder
    <3> QED BY <2>2, <2>3, <2>6, <3>1, <3>2, <3>3, PlanAnswered
  <2>7. CASE ctx.path = "react"
    <3>1. \/ d = [ctx EXCEPT !.done = TRUE]
          \/ \E asked \in Turns : d = Entered([ctx EXCEPT !.calls = asked, !.index = 0])
      BY <2>7 DEF AfterCompletion
    <3>2. AgentAnswered
      BY <2>1, <3>1 DEF AgentAnswered
    <3> QED BY <1>1, <1>3, <2>7, <3>2, TurnEnds
  <2> QED BY <1>1, <2>4, <2>5, <2>6, <2>7 DEF Path
<1> QED BY <1>2, <1>3 DEF LlmAnswer

LEMMA ToolAnswerOrder == ASSUME IInv, InOrder, ToolAnswer PROVE InOrder'
<1> DEFINE status == IF call.answer = "ok" THEN "completed" ELSE "failed"
<1>1. /\ ctx \in Context /\ ctx.path \in Path /\ Waiting /\ at = "tool" /\ at' = "ready"
      /\ traces' = Traced(ctx, status)
  BY DEF IInv, Typed, TypeOK, Waiting, ToolAnswer, Context, GoOn
<1>2. CASE ctx.path # "react"
  <2>1. ctx' = Output(ctx) \/ ctx' = Failed(ctx, "tool_error")
    BY <1>2 DEF ToolAnswer, GoOn
  <2>2. StepDone(status) \/ StepFails(status)
    <3>1. "tool_error" \in Reason \ {"none"}
      BY DEF Reason
    <3> QED BY <1>1, <2>1, <3>1 DEF StepDone, StepFails
  <2>3. ctx.path = "planner_executor" => ctx.plan # <<>>
    <3> SUFFICES ASSUME ctx.path = "planner_executor", ctx.plan = <<>> PROVE FALSE
      OBVIOUS
    <3> QED BY <1>1 DEF InOrder, PlanInOrder
  <2> QED BY <1>1, <1>2, <2>2, <2>3, PipelineAnswered, PlanAnswered DEF Path
<1>3. CASE ctx.path = "react"
  <2>1. /\ ctx' = ctx /\ ctx.turn \in Nat /\ ctx.index \in Nat /\ ctx.nodes \in Nat /\ ~Waiting'
        /\ traces \in Seq(Trace) /\ ctx.current.type = "tool" /\ ctx.error = "none"
    BY <1>1, <1>3 DEF ToolAnswer, GoOn, Context, Waiting, IInv, Typed, TypeOK, InOrder, StepsCounted
  <2>2. /\ MadeBefore(ToolIds(traces), ctx.turn, ctx.index - 1) /\ ctx.turn >= 1
        /\ ctx.index - 1 \in CallIndex /\ ctx.current.id = CallStep(ctx.turn, ctx.index - 1)
        /\ ctx.nodes <= 2 * ctx.turn + 0
    BY <1>1, <1>3, <2>1 DEF InOrder, TurnsInOrder, CallsDone
  <2>3. ctx.turn \in 1 .. MaxTurns
    <3>1. ctx.turn \in 0 .. MaxTurns /\ MaxTurns \in Nat
      BY TaskRunAssumption DEF IInv, Typed, Good
    <3> QED BY <2>2, <3>1
  <2>4. ctx.index - 1 \in Int /\ ctx.index - 1 <= ctx.index /\ ctx.index - 1 < ctx.index
    BY <2>1
  <2>5. MadeBefore(ToolIds(traces), ctx.turn, ctx.index)
    BY <2>1, <2>2, <2>4, MadeEarlier
  <2>6. ToolIds(traces') = ToolIds(traces) \cup {CallStep(ctx.turn, ctx.index - 1)}
    BY <1>1, <2>1, <2>2, ToolIdsGrow
  <2>7. MadeBefore(ToolIds(traces'), ctx.turn, ctx.index)
    BY <2>2, <2>3, <2>4, <2>5, <2>6 DEF MadeBefore
  <2>8. CallsDone' = ctx.index /\ at' \notin {"llm", "tool"}
    BY <1>1, <2>1 DEF CallsDone
  <2> QED BY <1>3, <2>1, <2>2, <2>7, <2>8, TurnsAt
<1> QED BY <1>2, <1>3

LEMMA NewInOrder ==
  ASSUME NEW path \in Path, ctx' = NewContext(path), traces' = <<>>, ~Waiting', at' # "tool"
  PROVE  InOrder'
<1>1. /\ ctx'.path = path /\ ctx'.plan = (IF path = "pipeline" THEN Pipeline ELSE <<>>)
      /\ ctx'.pos = 0 /\ ctx'.outputs = {} /\ ctx'.turn = 0 /\ ctx'.index = 0
      /\ ctx'.error = "none" /\ ctx'.nodes = 0
  BY DEF NewContext
<1>2. ToolIds(traces') = {}
  BY DEF ToolIds
<1>3. CASE path = "pipeline"
  <2>1. 0 \in 0 .. Len(Pipeline)
    BY PipelineStarts
  <2> QED BY <1>1, <1>2, <1>3, <2>1, PipelineAt
<1>4. CASE path = "planner_executor"
  <2>1. Planned(ctx', 0)
    <3>1. IdsTo(<<>>, 0) = {}
      BY DEF IdsTo
    <3> QED BY <1>1, <1>4, <3>1, FS_EmptySet DEF Planned
  <2>2. TracesOfPlan(ctx', traces', 0)
    BY <1>1, <1>4 DEF TracesOfPlan
  <2>3. 0 \in 0 .. Len(ctx'.plan)
    BY <1>1, <1>4
  <2> QED BY <1>1, <1>2, <1>4, <2>1, <2>2, <2>3, PlanAt
<1>5. CASE path = "react"
  <2>1. MadeBefore(ToolIds(traces'), ctx'.turn, CallsDone')
    BY <1>2 DEF MadeBefore
  <2>2. ctx'.nodes <= 2 * ctx'.turn + 0 /\ at' \notin {"llm", "tool"}
    BY <1>1 DEF Waiting
  <2> QED BY <1>1, <1>5, <2>1, <2>2, TurnsAt
<1> QED BY <1>3, <1>4, <1>5 DEF Path

LEMMA SameInOrder ==
  ASSUME InOrder, UNCHANGED <<ctx, traces>>, UNCHANGED at \/ Insert
  PROVE  InOrder'
<1>1. Waiting' = Waiting /\ CallsDone' = CallsDone /\ (at' = "tool" <=> at = "tool")
      /\ (at' = "llm" <=> at = "llm") /\ (Waiting => at' = at)
  BY DEF Waiting, CallsDone, Insert
<1>2. StepsCounted'
  BY <1>1 DEF InOrder, StepsCounted
<1>3. PipelineInOrder'
  BY <1>1 DEF InOrder, PipelineInOrder
<1>4. PlanInOrder'
  BY <1>1 DEF InOrder, PlanInOrder
<1>5. TurnsInOrder'
  BY <1>1 DEF InOrder, TurnsInOrder
<1> QED BY <1>2, <1>3, <1>4, <1>5 DEF InOrder

\* The steps of a path.
PathNode == PipelineNode \/ PlanNode \/ ExecuteNode \/ AgentNode \/ CallNode \/ LlmAnswer \/ ToolAnswer

LEMMA PathMoves == PathNode => at \in {"ready", "llm", "tool"} /\ at' \in {"ready", "llm", "tool"}
  BY DEF PathNode, PipelineNode, ExecuteStep, PlanNode, ExecuteNode, AgentNode, CallNode,
         LlmAnswer, GatewayFails, ToolAnswer, GoOn, AskGateway, CallTool

LEMMA NothingTracedStep == NothingTraced /\ [Next]_vars => NothingTraced'
<1> SUFFICES ASSUME NothingTraced, [Next]_vars PROVE NothingTraced'
  OBVIOUS
<1>1. CASE UNCHANGED vars \/ Serving \/ Alert
  BY <1>1 DEF vars, pathVars, Serving, Alert, NothingTraced
<1>2. CASE \E path \in Path : Reset(path)
  BY <1>2 DEF Reset, NothingTraced
<1>3. CASE Insert
  BY <1>3 DEF Insert, NothingTraced
<1>4. CASE PathNode
  BY <1>4, PathMoves DEF NothingTraced
<1>5. CASE Conclude \/ Break
  BY <1>5 DEF Conclude, Break, Leave, NothingTraced
<1> QED BY <1>1, <1>2, <1>3, <1>4, <1>5 DEF Next, Proceed, PathNode

LEMMA InOrderStep == IInv /\ NothingLeft /\ NothingTraced /\ InOrder /\ [Next]_vars => InOrder'
<1> SUFFICES ASSUME IInv, NothingLeft, NothingTraced, InOrder, [Next]_vars PROVE InOrder'
  OBVIOUS
<1>1. CASE UNCHANGED vars \/ Serving \/ Alert \/ Insert
  <2>1. UNCHANGED <<ctx, traces>> /\ (UNCHANGED at \/ Insert)
    BY <1>1 DEF vars, pathVars, Serving, Alert, Insert
  <2> QED BY <2>1, SameInOrder
<1>2. ASSUME NEW path \in Path, Reset(path) PROVE InOrder'
  <2>1. ctx' = NewContext(path) /\ traces' = <<>> /\ ~Waiting' /\ at' # "tool"
    BY <1>2 DEF Reset, NothingTraced, Waiting
  <2> QED BY <2>1, NewInOrder
<1>3. CASE Conclude \/ Break
  <2>1. ctx' = NewContext("pipeline") /\ traces' = <<>> /\ ~Waiting' /\ at' # "tool"
    BY <1>3 DEF Conclude, Break, Leave, Waiting
  <2> QED BY <2>1, NewInOrder DEF Path
<1>4. CASE PathNode
  BY <1>4, PipelineOrder, PlanOrder, ExecuteOrder, AgentOrder, CallOrder, LlmAnswerOrder,
     ToolAnswerOrder DEF PathNode
<1> QED BY <1>1, <1>2, <1>3, <1>4 DEF Next, Proceed, PathNode

LEMMA InOrderImplies == IInv /\ InOrder => PlanFollowed
<1> SUFFICES ASSUME IInv, InOrder PROVE PlanFollowed
  OBVIOUS
<1>1. /\ ctx \in Context /\ ctx.nodes \in Nat /\ ctx.turn \in 0 .. MaxTurns /\ MaxTurns \in Nat
      /\ ctx.plan \in Seq(Step) /\ MaxPlanSteps \in Nat
  BY TaskRunAssumption DEF IInv, Typed, TypeOK, Good, Context
<1>2. ASSUME ctx.path = "react" PROVE ctx.nodes <= 2 * MaxTurns + 5
  <2>1. ctx.nodes <= 2 * ctx.turn + 1
    BY <1>1, <1>2 DEF InOrder, TurnsInOrder
  <2> QED BY <1>1, <2>1
<1>3. ASSUME ctx.path = "planner_executor"
      PROVE  /\ Len(traces) <= Len(ctx.plan) + 1
             /\ \A i \in DOMAIN traces :
                  traces[i].id = IF i = 1 THEN PlanStep ELSE ctx.plan[i - 1].id
             /\ Waiting /\ ctx.current.id # PlanStep => ctx.current.needs \subseteq ctx.outputs
             /\ ctx.nodes <= 2 * MaxPlanSteps + 5
  <2>1. PICK n \in 0 .. Len(ctx.plan) :
          /\ n \in Nat /\ Planned(ctx, n) /\ TracesOfPlan(ctx, traces, n)
          /\ Waiting => IF ctx.plan = <<>> THEN at = "llm" /\ ctx.current.id = PlanStep
                        ELSE n < Len(ctx.plan) /\ ctx.current = ctx.plan[n + 1]
          /\ ctx.nodes <= n + (IF ctx.plan = <<>> THEN 0 ELSE 1)
                            + (IF Waiting \/ ctx.error # "none" THEN 1 ELSE 0)
    BY <1>3, PlanIs
  <2>2. Len(traces) <= Len(ctx.plan) + 1
    BY <1>1, <2>1 DEF TracesOfPlan
  <2>3. Len(ctx.plan) <= MaxPlanSteps
    BY <1>1, <2>1 DEF Planned, ValidPlan
  <2>4. ctx.nodes <= 2 * MaxPlanSteps + 5
    BY <1>1, <2>1, <2>3
  <2>5. ASSUME Waiting, ctx.current.id # PlanStep PROVE ctx.current.needs \subseteq ctx.outputs
    <3>1. ctx.plan # <<>> /\ n < Len(ctx.plan) /\ ctx.current = ctx.plan[n + 1]
      BY <2>1, <2>5
    <3>2. n + 1 \in DOMAIN ctx.plan
      BY <1>1, <2>1, <3>1
    <3>3. PICK m \in DOMAIN ctx.plan : m = n + 1
      BY <3>2
    <3>4. ValidPlan(ctx.plan)
      BY <2>1, <3>1 DEF Planned
    <3>5. ctx.plan[m].needs \subseteq IdsTo(ctx.plan, m - 1)
      <4>1. \A i \in DOMAIN ctx.plan : ctx.plan[i].needs \subseteq IdsTo(ctx.plan, i - 1)
        BY <3>4 DEF ValidPlan, IdsTo
      <4> QED BY <4>1
    <3>6. ctx.outputs = IdsTo(ctx.plan, n)
      BY <2>1 DEF Planned
    <3>7. m - 1 = n
      BY <2>1, <3>3
    <3> QED BY <3>5, <3>6, <3>1, <3>3, <3>7
  <2> QED BY <2>1, <2>2, <2>4, <2>5 DEF TracesOfPlan
<1> QED BY <1>2, <1>3 DEF PlanFollowed, Waiting

LEMMA AlwaysInOrder == Spec => [](IInv /\ NothingLeft /\ NothingTraced /\ InOrder)
<1>1. Init => NothingLeft /\ NothingTraced /\ InOrder
  <2> SUFFICES ASSUME Init PROVE NothingLeft /\ NothingTraced /\ InOrder
    OBVIOUS
  <2>1. NothingLeft /\ NothingTraced
    BY NewHasNothing DEF Init, NothingLeft, NothingTraced, Path
  <2>2. /\ ctx.path = "pipeline" /\ ctx.plan = Pipeline /\ ctx.pos = 0 /\ ctx.outputs = {}
        /\ traces = <<>> /\ at = "idle" /\ Len(Pipeline) \in Nat
    BY PipelineStarts DEF Init, NewContext
  <2>3. ToolIds(traces) = {}
    BY <2>2 DEF ToolIds
  <2>4. InOrder
    BY <2>2, <2>3 DEF InOrder, StepsCounted, PipelineInOrder, PlanInOrder, TurnsInOrder, Waiting
  <2> QED BY <2>1, <2>4
<1>2. IInv /\ NothingLeft /\ NothingTraced /\ InOrder /\ [Next]_vars
        => (NothingLeft /\ NothingTraced /\ InOrder)'
  BY NothingLeftStep, NothingTracedStep, InOrderStep
<1> QED BY AlwaysIInv, <1>1, <1>2, PTL DEF Spec

(***************************************************************************)
(* validate_plan and execute_node, for every plan a model may write: the   *)
(* plan is executed in its order, each step once and after what it reads;  *)
(* and the recursion limits of the planner's and the agent's graphs are    *)
(* never reached.                                                          *)
(***************************************************************************)
THEOREM PlanIsFollowed == Spec => []PlanFollowed
  BY AlwaysInOrder, InOrderImplies, PTL

-----------------------------------------------------------------------------
\* Tool calls are of different steps

LEMMA StepIsNew ==
  ASSUME NEW steps \in Seq(Step), UniqueIds(steps), NEW n \in Nat, n + 1 \in DOMAIN steps
  PROVE  steps[n + 1].id \notin IdsTo(steps, n)
<1> SUFFICES ASSUME NEW i \in 1 .. n, steps[i].id = steps[n + 1].id PROVE FALSE
  BY DEF IdsTo
<1>1. i \in DOMAIN steps /\ i # n + 1
  OBVIOUS
<1> QED BY <1>1 DEF UniqueIds

LEMMA CallIsNew ==
  ASSUME NEW ids, NEW t \in 1 .. MaxTurns, NEW n \in CallIndex, MadeBefore(ids, t, n)
  PROVE  CallStep(t, n) \notin ids
<1> SUFFICES ASSUME CallStep(t, n) \in ids PROVE FALSE
  OBVIOUS
<1>1. PICK u \in 1 .. MaxTurns, m \in CallIndex :
        CallStep(t, n) = CallStep(u, m) /\ (u < t \/ (u = t /\ m < n))
  BY DEF MadeBefore
<1>2. u = t /\ m = n
  BY <1>1, TaskRunAssumption
<1>3. t \in Nat /\ n \in Nat
  BY IndexesAreNats
<1> QED BY <1>1, <1>2, <1>3

\* The call in flight is of none of the steps traced.
LEMMA CurrentIsNew ==
  ASSUME IInv, InOrder, at = "tool"
  PROVE  ctx.current.type = "tool" /\ ctx.current.id \notin ToolIds(traces)
<1>1. /\ Waiting /\ ctx.current.type = "tool" /\ ctx.error = "none" /\ ctx \in Context
      /\ ctx.path \in Path
      /\ ctx.path # "react" => ToolIds(traces) \subseteq ctx.outputs
  BY DEF Waiting, InOrder, StepsCounted, IInv, Typed, TypeOK, Context
<1>2. CASE ctx.path = "pipeline"
  <2>1. /\ Pipeline \in Seq(Step) /\ UniqueIds(Pipeline)
        /\ ctx.pos \in Nat /\ ctx.pos >= 1 /\ ctx.pos <= Len(Pipeline)
        /\ ctx.current = Pipeline[ctx.pos] /\ ctx.outputs \subseteq IdsTo(Pipeline, ctx.pos - 1)
    BY <1>1, <1>2, PipelineStarts, TaskRunAssumption DEF InOrder, PipelineInOrder, Context
  <2>2. PICK n \in Nat : n + 1 = ctx.pos /\ n = ctx.pos - 1
    BY <2>1
  <2>3. n + 1 \in DOMAIN Pipeline
    BY <2>1, <2>2
  <2>4. Pipeline[n + 1].id \notin IdsTo(Pipeline, n)
    BY <2>1, <2>3, StepIsNew
  <2> QED BY <1>1, <1>2, <2>1, <2>2, <2>4
<1>3. CASE ctx.path = "planner_executor"
  <2>1. PICK n \in 0 .. Len(ctx.plan) :
          /\ n \in Nat /\ Planned(ctx, n)
          /\ IF ctx.plan = <<>> THEN at = "llm" /\ ctx.current.id = PlanStep
             ELSE n < Len(ctx.plan) /\ ctx.current = ctx.plan[n + 1]
    BY <1>1, <1>3, PlanIs
  <2>2. /\ ctx.plan \in Seq(Step) /\ ctx.plan # <<>> /\ n < Len(ctx.plan)
        /\ ctx.current = ctx.plan[n + 1] /\ ctx.outputs = IdsTo(ctx.plan, n)
    BY <1>1, <2>1 DEF Context, Planned
  <2>3. n + 1 \in DOMAIN ctx.plan
    BY <2>1, <2>2
  <2>4. UniqueIds(ctx.plan)
    BY <2>1, <2>2 DEF Planned, ValidPlan
  <2>5. ctx.plan[n + 1].id \notin IdsTo(ctx.plan, n)
    BY <2>1, <2>2, <2>3, <2>4, StepIsNew
  <2> QED BY <1>1, <1>3, <2>2, <2>5
<1>4. CASE ctx.path = "react"
  <2>1. /\ MadeBefore(ToolIds(traces), ctx.turn, ctx.index - 1)
        /\ ctx.turn >= 1 /\ ctx.index - 1 \in CallIndex
        /\ ctx.current.id = CallStep(ctx.turn, ctx.index - 1)
    BY <1>4 DEF InOrder, TurnsInOrder, CallsDone
  <2>2. ctx.turn \in 1 .. MaxTurns
    <3>1. ctx.turn \in 0 .. MaxTurns /\ MaxTurns \in Nat
      BY TaskRunAssumption DEF IInv, Typed, Good
    <3> QED BY <2>1, <3>1
  <2> QED BY <1>1, <2>1, <2>2, CallIsNew
<1> QED BY <1>1, <1>2, <1>3, <1>4 DEF Path

\* Writes are tool calls, the traces' tool calls are of different steps, and the call
\* in flight is the current step's.
TracesTell ==
  /\ \A i \in DOMAIN traces : traces[i].write => traces[i].kind = "tool"
  /\ \A i, j \in DOMAIN traces :
       traces[i].kind = "tool" /\ traces[j].kind = "tool" /\ traces[i].id = traces[j].id => i = j
  /\ at = "tool" => call.key.step = ctx.current.id /\ call.tool = ctx.current.tool

\* A node does nothing the traces tell of, sends a call, or records a step that has
\* written nothing; an answer records its call.
Quiet == at' \in {"ready", "llm"} /\ UNCHANGED <<traces, toolVars>>
Calls == at = "ready" /\ \E c \in Context : CallTool(c)
RecordsOther ==
  /\ at' = "ready" /\ UNCHANGED toolVars
  /\ \E c \in Context, status \in {"completed", "failed"} :
       /\ traces' = Traced(c, status)
       /\ c.current.type = "tool" => status = "failed" /\ c.current.id \notin ToolIds(traces)

LEMMA NodeKinds ==
  ASSUME IInv, NothingLeft, InOrder, PathNode
  PROVE  Quiet \/ Calls \/ RecordsOther \/ ToolAnswer
<1>1. ctx \in Context
  BY DEF IInv, Typed, TypeOK
<1>2. CASE PipelineNode
  <2> DEFINE c == Entered([ctx EXCEPT !.pos = @ + 1, !.current = ctx.plan[ctx.pos + 1]])
  <2>1. c \in Context
    <3>1. ctx.plan[ctx.pos + 1] \in Step /\ ctx.pos + 1 \in Nat
      BY <1>1, <1>2 DEF PipelineNode, Context
    <3>2. [ctx EXCEPT !.pos = @ + 1, !.current = ctx.plan[ctx.pos + 1]] \in Context
      BY <1>1, <3>1 DEF Context
    <3> QED BY <3>2, EnteredKeeps
  <2>2. (GoOn(c) /\ UNCHANGED <<traces, toolVars>>) \/ ExecuteStep(c)
    BY <1>2 DEF PipelineNode
  <2>3. at = "ready"
    BY <1>2 DEF PipelineNode
  <2> HIDE DEF c
  <2> QED BY <2>1, <2>2, <2>3 DEF ExecuteStep, Quiet, Calls, RecordsOther, GoOn, AskGateway
<1>3. CASE PlanNode
  BY <1>3 DEF PlanNode, Quiet, AskGateway
<1>4. CASE ExecuteNode
  <2> DEFINE step == ctx.plan[Cardinality(ctx.outputs) + 1]
             c == Entered([ctx EXCEPT !.current = step])
  <2>1. c \in Context
    <3>1. Cardinality(ctx.outputs) \in Nat
      BY FS_CardinalityType DEF IInv, Typed, Good
    <3>2. step \in Step
      BY <1>1, <1>4, <3>1 DEF ExecuteNode, Context
    <3> HIDE DEF step
    <3>3. [ctx EXCEPT !.current = step] \in Context
      BY <1>1, <3>2 DEF Context
    <3> QED BY <3>3, EnteredKeeps
  <2>2. \/ AskGateway(c) \/ CallTool(c)
        \/ GoOn(Failed(c, "unresolved_placeholder")) /\ UNCHANGED <<traces, toolVars>>
    BY <1>4 DEF ExecuteNode
  <2>3. at = "ready"
    BY <1>4 DEF ExecuteNode
  <2> HIDE DEF c
  <2> QED BY <2>1, <2>2, <2>3 DEF Quiet, Calls, GoOn, AskGateway
<1>5. CASE AgentNode
  BY <1>5 DEF AgentNode, Quiet, AskGateway, GoOn
<1>6. CASE LlmAnswer
  <2>1. /\ ctx.current.type = "llm" /\ at' = "ready" /\ UNCHANGED toolVars
        /\ traces' = Traced(ctx, "completed") \/ traces' = Traced(ctx, "failed")
    BY <1>6 DEF LlmAnswer, GoOn, GatewayFails, InOrder, StepsCounted, Waiting
  <2> QED BY <1>1, <2>1 DEF RecordsOther
<1>7. CASE CallNode
  <2>1. /\ at = "ready" /\ ctx.turn \in 1 .. MaxTurns /\ ctx.index \in CallIndex
        /\ MadeBefore(ToolIds(traces), ctx.turn, ctx.index)
    BY <1>7, NextCall
  <2>2. PICK c \in Context :
          /\ c.current.id = CallStep(ctx.turn, ctx.index)
          /\ \/ GoOn(c) /\ UNCHANGED <<traces, toolVars>>
             \/ GoOn(c) /\ traces' = Traced(c, "failed") /\ UNCHANGED toolVars
             \/ CallTool(c)
    BY <1>7, NextCall
  <2>3. c.current.id \notin ToolIds(traces)
    BY <2>1, <2>2, CallIsNew
  <2> QED BY <2>1, <2>2, <2>3 DEF Quiet, Calls, RecordsOther, GoOn
<1> QED BY <1>2, <1>3, <1>4, <1>5, <1>6, <1>7 DEF PathNode

LEMMA TracesTellStep ==
  IInv /\ NothingLeft /\ NothingTraced /\ InOrder /\ TracesTell /\ [Next]_vars => TracesTell'
<1> SUFFICES ASSUME IInv, NothingLeft, NothingTraced, InOrder, TracesTell, [Next]_vars
             PROVE  TracesTell'
  OBVIOUS
<1>1. CASE UNCHANGED vars \/ Alert \/ Quiet
  BY <1>1 DEF vars, pathVars, toolVars, Alert, Post, Quiet, TracesTell
<1>2. CASE Serving
  <2>1. UNCHANGED <<at, ctx, traces>>
    BY <1>2 DEF Serving, pathVars
  <2>2. at = "tool" => call'.key = call.key /\ call'.tool = call.tool
    <3>1. CASE ServeStray
      BY <3>1 DEF ServeStray
    <3>2. CASE Serve
      BY <3>2 DEF Serve, IInv, Typed, TypeOK, ToolsTypeOK, Call
    <3> QED BY <1>2, <3>1, <3>2 DEF Serving
  <2> QED BY <2>1, <2>2 DEF TracesTell
<1>3. CASE (\E path \in Path : Reset(path)) \/ Insert \/ Conclude \/ Break
  <2>1. traces' = <<>> /\ at' # "tool"
    BY <1>3 DEF Reset, Insert, Conclude, Break, Leave, NothingTraced
  <2> QED BY <2>1 DEF TracesTell
<1>4. CASE Calls
  <2>1. PICK c \in Context : CallTool(c)
    BY <1>4 DEF Calls
  <2>2. call'.key.step = ctx'.current.id /\ call'.tool = ctx'.current.tool /\ UNCHANGED traces
    BY <2>1 DEF CallTool, Send, KeyOf
  <2> QED BY <2>2 DEF TracesTell
<1>5. ASSUME NEW c \in Context, NEW status \in {"completed", "failed"}, at' = "ready",
             traces' = Traced(c, status),
             c.current.type = "tool" => c.current.id \notin ToolIds(traces)
      PROVE  TracesTell'
  <2>1. /\ DOMAIN traces' = 1 .. Len(traces) + 1 /\ DOMAIN traces = 1 .. Len(traces)
        /\ Len(traces) \in Nat /\ \A i \in 1 .. Len(traces) : traces'[i] = traces[i]
        /\ traces'[Len(traces) + 1].id = c.current.id
        /\ traces'[Len(traces) + 1].kind = c.current.type
        /\ traces'[Len(traces) + 1].write <=> c.current.type = "tool" /\ c.current.tool \in WriteTool
    <3>1. traces \in Seq(Trace)
      BY DEF IInv, Typed, TypeOK
    <3> QED BY <1>5, <3>1, TraceAdded
  <2>2. \A i \in DOMAIN traces' : traces'[i].write => traces'[i].kind = "tool"
    BY <2>1 DEF TracesTell
  <2>3. ASSUME NEW i \in 1 .. Len(traces), traces[i].kind = "tool", c.current.type = "tool"
        PROVE  traces[i].id # c.current.id
    <3>1. traces[i].id \in ToolIds(traces)
      BY <2>1, <2>3 DEF ToolIds
    <3> QED BY <1>5, <2>3, <3>1
  <2>4. ASSUME NEW i \in DOMAIN traces', NEW j \in DOMAIN traces', traces'[i].kind = "tool",
               traces'[j].kind = "tool", traces'[i].id = traces'[j].id
        PROVE  i = j
    <3>1. CASE i \in 1 .. Len(traces) /\ j \in 1 .. Len(traces)
      BY <2>1, <2>4, <3>1 DEF TracesTell
    <3>2. CASE i = Len(traces) + 1 /\ j \in 1 .. Len(traces)
      BY <2>1, <2>3, <2>4, <3>2
    <3>3. CASE i \in 1 .. Len(traces) /\ j = Len(traces) + 1
      BY <2>1, <2>3, <2>4, <3>3
    <3> QED BY <2>1, <3>1, <3>2, <3>3
  <2> QED BY <1>5, <2>2, <2>4 DEF TracesTell
<1>6. CASE RecordsOther
  BY <1>5, <1>6 DEF RecordsOther
<1>7. CASE ToolAnswer
  <2>1. /\ at = "tool" /\ at' = "ready" /\ ctx \in Context
        /\ traces' = Traced(ctx, IF call.answer = "ok" THEN "completed" ELSE "failed")
    BY <1>7 DEF ToolAnswer, GoOn, IInv, Typed, TypeOK
  <2>2. ctx.current.id \notin ToolIds(traces)
    BY <2>1, CurrentIsNew
  <2> QED BY <1>5, <2>1, <2>2
<1>8. CASE PathNode
  BY <1>1, <1>4, <1>6, <1>7, <1>8, NodeKinds
<1> QED BY <1>1, <1>2, <1>3, <1>8 DEF Next, Proceed, PathNode

-----------------------------------------------------------------------------
\* A run's writes are in the workspace

OwnEntries == {i \in DOMAIN workspace : workspace[i].run = run}
HasWritten(step) == \E i \in OwnEntries : workspace[i].step = step
Writing == call # NoCall /\ call.tool \in WriteTool
TracedWrites == {traces[i].id : i \in Writes(traces, {"completed", "failed"})}

\* A step has one write, traced or just answered; what the traces completed and what
\* was answered with success is there; the rest is the guard's or a broken run's.
StepsWriteOnce ==
  \A i, j \in OwnEntries : workspace[i].step = workspace[j].step => i = j

WritesAreTraced ==
  \A i \in OwnEntries :
    \/ workspace[i].step \in TracedWrites
    \/ Writing /\ call.answer # "none" /\ call.key.step = workspace[i].step

CompletedAreWritten ==
  /\ \A i \in Writes(traces, {"completed"}) : HasWritten(traces[i].id)
  /\ Writing /\ call.answer = "ok" => HasWritten(call.key.step)

OthersAreBroken ==
  \A i \in DOMAIN workspace : workspace[i].run \in {run, Guard} \/ Broken(workspace[i].run)

WorkIsOwn ==
  at # "idle" =>
    /\ StepsWriteOnce /\ WritesAreTraced /\ CompletedAreWritten /\ OthersAreBroken
    /\ judged = NotJudged

\* Nothing is written.
LEMMA NothingWritten ==
  ASSUME WorkIsOwn, at # "idle", at' # "idle", UNCHANGED <<workspace, run, judged>>,
         \A i \in DOMAIN workspace : Broken(workspace[i].run) => Broken(workspace[i].run)',
         WritesAreTraced', CompletedAreWritten'
  PROVE  WorkIsOwn'
<1>1. StepsWriteOnce'
  BY DEF WorkIsOwn, StepsWriteOnce, OwnEntries
<1>2. OthersAreBroken'
  BY DEF WorkIsOwn, OthersAreBroken
<1> QED BY <1>1, <1>2 DEF WorkIsOwn

LEMMA NodeWorks ==
  ASSUME IInv, WorkIsOwn, PathNode, Quiet \/ Calls \/ RecordsOther
  PROVE  WorkIsOwn'
<1>1. /\ at # "idle" /\ at' # "idle" /\ UNCHANGED <<workspace, run, rows, judged>>
  BY PathMoves DEF PathNode, PipelineNode, PlanNode, ExecuteNode, AgentNode, CallNode, LlmAnswer,
     ToolAnswer, Quiet, Calls, RecordsOther, toolVars, CallTool, Send
<1>2. \A i \in DOMAIN workspace : Broken(workspace[i].run) => Broken(workspace[i].run)'
  BY <1>1 DEF Broken
<1>3. CASE Quiet
  <2>1. WritesAreTraced' /\ CompletedAreWritten'
    BY <1>1, <1>3 DEF Quiet, toolVars, WorkIsOwn, WritesAreTraced, CompletedAreWritten, HasWritten,
       OwnEntries, TracedWrites, Writing
  <2> QED BY <1>1, <1>2, <2>1, NothingWritten
<1>4. CASE Calls
  <2>1. call = NoCall /\ call'.answer = "none" /\ UNCHANGED traces
    BY <1>4 DEF Calls, CallTool, Send, IInv, Typed, TypeOK
  <2>2. WritesAreTraced' /\ CompletedAreWritten'
    BY <1>1, <2>1 DEF WorkIsOwn, WritesAreTraced, CompletedAreWritten, HasWritten, OwnEntries,
       TracedWrites, Writing
  <2> QED BY <1>1, <1>2, <2>2, NothingWritten
<1>5. CASE RecordsOther
  <2>1. PICK c \in Context, status \in {"completed", "failed"} :
          traces' = Traced(c, status) /\ (c.current.type = "tool" => status = "failed")
    BY <1>5 DEF RecordsOther
  <2>2. /\ DOMAIN traces' = 1 .. Len(traces) + 1 /\ DOMAIN traces = 1 .. Len(traces)
        /\ Len(traces) \in Nat /\ \A i \in 1 .. Len(traces) : traces'[i] = traces[i]
        /\ traces'[Len(traces) + 1].status = status
        /\ traces'[Len(traces) + 1].write <=> c.current.type = "tool" /\ c.current.tool \in WriteTool
    <3>1. traces \in Seq(Trace)
      BY DEF IInv, Typed, TypeOK
    <3> QED BY <2>1, <3>1, TraceAdded
  <2>3. Writes(traces', {"completed"}) = Writes(traces, {"completed"})
    BY <2>1, <2>2 DEF Writes
  <2>4. TracedWrites \subseteq TracedWrites'
    BY <2>2 DEF TracedWrites, Writes
  <2>5. UNCHANGED call
    BY <1>5 DEF RecordsOther, toolVars
  <2>6. WritesAreTraced'
    BY <1>1, <2>4, <2>5 DEF WorkIsOwn, WritesAreTraced, OwnEntries, Writing
  <2>7. CompletedAreWritten'
    <3>1. \A i \in Writes(traces', {"completed"}) : traces'[i].id = traces[i].id
      BY <2>2, <2>3 DEF Writes
    <3> QED BY <1>1, <2>3, <2>5, <3>1 DEF WorkIsOwn, CompletedAreWritten, HasWritten, OwnEntries,
            Writing
  <2> QED BY <1>1, <1>2, <2>6, <2>7, NothingWritten
<1> QED BY <1>3, <1>4, <1>5

LEMMA AnswerWorks == ASSUME IInv, InOrder, TracesTell, WorkIsOwn, ToolAnswer PROVE WorkIsOwn'
<1> DEFINE status == IF call.answer = "ok" THEN "completed" ELSE "failed"
<1>1. /\ at = "tool" /\ at' = "ready" /\ UNCHANGED <<workspace, run, rows, judged>>
      /\ call # NoCall /\ call.answer # "none" /\ call' = NoCall /\ traces' = Traced(ctx, status)
  BY DEF ToolAnswer, GoOn, Close
<1>2. \A i \in DOMAIN workspace : Broken(workspace[i].run) => Broken(workspace[i].run)'
  BY <1>1 DEF Broken
<1>3. /\ ctx.current.type = "tool" /\ call.key.step = ctx.current.id
      /\ call.tool = ctx.current.tool
  BY <1>1, CurrentIsNew DEF TracesTell
<1>4. /\ DOMAIN traces' = 1 .. Len(traces) + 1 /\ DOMAIN traces = 1 .. Len(traces)
      /\ Len(traces) \in Nat /\ \A i \in 1 .. Len(traces) : traces'[i] = traces[i]
      /\ traces'[Len(traces) + 1].id = call.key.step
      /\ traces'[Len(traces) + 1].status = status
      /\ traces'[Len(traces) + 1].write <=> call.tool \in WriteTool
  <2>1. traces \in Seq(Trace) /\ ctx \in Context /\ status \in {"completed", "failed"}
    BY DEF IInv, Typed, TypeOK
  <2> QED BY <1>1, <1>3, <2>1, TraceAdded
<1>5. TracedWrites' = TracedWrites \cup (IF call.tool \in WriteTool THEN {call.key.step} ELSE {})
  BY <1>4 DEF TracedWrites, Writes
<1>6. WritesAreTraced'
  BY <1>1, <1>5 DEF WorkIsOwn, WritesAreTraced, OwnEntries, Writing
<1>7. CompletedAreWritten'
  <2> SUFFICES ASSUME NEW i \in Writes(traces', {"completed"})
               PROVE  \E j \in OwnEntries : workspace[j].step = traces'[i].id
    BY <1>1 DEF CompletedAreWritten, HasWritten, OwnEntries, Writing
  <2>1. CASE i \in 1 .. Len(traces)
    <3>1. i \in Writes(traces, {"completed"}) /\ traces'[i] = traces[i]
      BY <1>4, <2>1 DEF Writes
    <3> QED BY <1>1, <3>1 DEF WorkIsOwn, CompletedAreWritten, HasWritten
  <2>2. CASE i = Len(traces) + 1
    <3>1. call.tool \in WriteTool /\ call.answer = "ok" /\ traces'[i].id = call.key.step
      BY <1>4, <2>2 DEF Writes
    <3> QED BY <1>1, <3>1 DEF WorkIsOwn, CompletedAreWritten, HasWritten, Writing
  <2> QED BY <1>4, <2>1, <2>2 DEF Writes
<1> QED BY <1>1, <1>2, <1>6, <1>7, NothingWritten

\* A write is appended.
Appends(key) == workspace' = Append(workspace, key)

LEMMA Appended ==
  ASSUME IInv, NEW key \in Key, Appends(key)
  PROVE  /\ DOMAIN workspace' = 1 .. Len(workspace) + 1 /\ DOMAIN workspace = 1 .. Len(workspace)
         /\ Len(workspace) \in Nat /\ \A i \in 1 .. Len(workspace) : workspace'[i] = workspace[i]
         /\ workspace'[Len(workspace) + 1] = key
<1>1. workspace \in Seq(Key)
  BY DEF IInv, Typed, TypeOK, ToolsTypeOK
<1> QED BY <1>1 DEF Appends

LEMMA OthersWrite ==
  ASSUME IInv, WorkIsOwn, at # "idle", UNCHANGED <<run, at, rows, traces, judged, call>>,
         NEW key \in Key, key.run = Guard \/ Broken(key.run), key.run # run,
         Appends(key)
  PROVE  WorkIsOwn'
<1>1. /\ DOMAIN workspace' = 1 .. Len(workspace) + 1 /\ DOMAIN workspace = 1 .. Len(workspace)
      /\ Len(workspace) \in Nat /\ \A i \in 1 .. Len(workspace) : workspace'[i] = workspace[i]
      /\ workspace'[Len(workspace) + 1] = key
  BY Appended
<1>2. OwnEntries' = OwnEntries /\ \A i \in OwnEntries : workspace'[i] = workspace[i]
  BY <1>1 DEF OwnEntries
<1>3. StepsWriteOnce' /\ WritesAreTraced' /\ CompletedAreWritten'
  <2>1. StepsWriteOnce'
    BY <1>2 DEF WorkIsOwn, StepsWriteOnce
  <2>2. WritesAreTraced'
    BY <1>2 DEF WorkIsOwn, WritesAreTraced, TracedWrites, Writing
  <2>3. \A step : HasWritten(step) => \E i \in OwnEntries' : workspace'[i].step = step
    BY <1>2 DEF HasWritten
  <2>4. CompletedAreWritten'
    BY <2>3 DEF WorkIsOwn, CompletedAreWritten, HasWritten, Writing
  <2> QED BY <2>1, <2>2, <2>4
<1>4. OthersAreBroken'
  BY <1>1 DEF WorkIsOwn, OthersAreBroken, Broken
<1> QED BY <1>3, <1>4 DEF WorkIsOwn

LEMMA OwnWrite ==
  ASSUME IInv, InOrder, TracesTell, WorkIsOwn, Writing, call.answer = "none",
         UNCHANGED <<run, at, rows, traces, judged>>, Appends(call.key),
         call'.answer # "none", call'.key = call.key, call'.tool = call.tool, call' # NoCall
  PROVE  WorkIsOwn'
<1>1. call.key \in Key /\ at = "tool" /\ call.key.run = run
  BY DEF Writing, IInv, Typed, TypeOK, ToolsTypeOK, CallIsOwn, Call
<1>2. /\ DOMAIN workspace' = 1 .. Len(workspace) + 1 /\ DOMAIN workspace = 1 .. Len(workspace)
      /\ Len(workspace) \in Nat /\ \A i \in 1 .. Len(workspace) : workspace'[i] = workspace[i]
      /\ workspace'[Len(workspace) + 1] = call.key
  BY <1>1, Appended
<1> DEFINE new == Len(workspace) + 1
<1>3. /\ OwnEntries' = OwnEntries \cup {new} /\ new \notin OwnEntries
      /\ \A i \in OwnEntries : workspace'[i] = workspace[i]
  BY <1>1, <1>2 DEF OwnEntries
<1>4. \A i \in OwnEntries : workspace[i].step \in TracedWrites
  BY <1>1 DEF WorkIsOwn, WritesAreTraced
<1>5. call.key.step \notin TracedWrites
  <2>1. call.key.step \notin ToolIds(traces)
    BY <1>1, CurrentIsNew DEF TracesTell
  <2>2. TracedWrites \subseteq ToolIds(traces)
    BY DEF TracesTell, TracedWrites, Writes, ToolIds
  <2> QED BY <2>1, <2>2
<1>6. StepsWriteOnce'
  <2>1. \A i \in OwnEntries : workspace'[i].step # call.key.step
    BY <1>3, <1>4, <1>5
  <2>2. workspace'[new].step = call.key.step
    BY <1>2
  <2>3. \A i, j \in OwnEntries : workspace'[i].step = workspace'[j].step => i = j
    BY <1>1, <1>3 DEF WorkIsOwn, StepsWriteOnce
  <2> HIDE DEF new
  <2> QED BY <1>3, <2>1, <2>2, <2>3 DEF StepsWriteOnce
<1>7. WritesAreTraced'
  BY <1>2, <1>3, <1>4 DEF WritesAreTraced, TracedWrites, Writing
<1>8. CompletedAreWritten'
  <2>1. \A step : HasWritten(step) => \E i \in OwnEntries' : workspace'[i].step = step
    BY <1>3 DEF HasWritten
  <2>2. \E i \in OwnEntries' : workspace'[i].step = call.key.step
    BY <1>2, <1>3
  <2> HIDE DEF new
  <2> QED BY <1>1, <2>1, <2>2 DEF WorkIsOwn, CompletedAreWritten, HasWritten
<1>9. OthersAreBroken'
  BY <1>1, <1>2 DEF WorkIsOwn, OthersAreBroken, Broken
<1> QED BY <1>1, <1>6, <1>7, <1>8, <1>9 DEF WorkIsOwn

\* The call in flight is answered and the workspace stays: a read, a failure without
\* effect, or a replay, whose write is there.
LEMMA NoWrite ==
  ASSUME IInv, WorkIsOwn, at # "idle", UNCHANGED <<run, at, rows, traces, judged, workspace>>,
         call # NoCall, call' # NoCall, call.answer = "none", call'.answer # "none",
         call'.key = call.key, call'.tool = call.tool,
         Writing => call'.answer = "error" \/ call.key \in stored
  PROVE  WorkIsOwn'
<1>1. Writing' <=> Writing
  BY DEF Writing
<1>2. WritesAreTraced'
  BY <1>1 DEF WorkIsOwn, WritesAreTraced, OwnEntries, TracedWrites
<1>3. ASSUME Writing, call'.answer = "ok" PROVE HasWritten(call.key.step)
  <2>1. call.key \in stored /\ call.key.run = run /\ run > 0 /\ rows[run] # "none"
    <3>1. at = "tool" /\ run \in RunId
      BY DEF IInv, Typed, TypeOK, RowsFollow
    <3> QED BY <1>3, <3>1 DEF IInv, Typed, RowsFollow, CallIsOwn, RunId
  <2>2. PICK i \in DOMAIN workspace : workspace[i] = call.key
    BY <2>1 DEF IInv, StoredKeysHaveEffects
  <2> QED BY <2>1, <2>2 DEF HasWritten, OwnEntries
<1>4. CompletedAreWritten'
  BY <1>1, <1>3 DEF WorkIsOwn, CompletedAreWritten, HasWritten, OwnEntries
<1>5. \A i \in DOMAIN workspace : Broken(workspace[i].run) => Broken(workspace[i].run)'
  BY DEF Broken
<1> QED BY <1>2, <1>4, <1>5, NothingWritten

LEMMA SameWork ==
  ASSUME WorkIsOwn, UNCHANGED <<run, at, rows, traces, judged, workspace, call>>
  PROVE  WorkIsOwn'
  BY DEF WorkIsOwn, StepsWriteOnce, WritesAreTraced, CompletedAreWritten, OthersAreBroken,
     OwnEntries, TracedWrites, Writing, HasWritten, Broken

LEMMA ServingWorks == ASSUME IInv, InOrder, TracesTell, WorkIsOwn, Serving PROVE WorkIsOwn'
<1>1. UNCHANGED <<run, at, traces, rows, judged>>
  BY DEF Serving, pathVars
<1>2. CASE at = "idle"
  BY <1>1, <1>2 DEF WorkIsOwn
<1>3. CASE at # "idle" /\ Serve
  <2>1. PICK answer \in {"ok", "error"} :
          /\ call' = [call EXCEPT !.answer = answer]
          /\ IF call.tool \in WriteTool
             THEN Write(call.key, answer)
             ELSE UNCHANGED <<workspace, stored>>
    BY <1>3 DEF Serve
  <2>2. call # NoCall /\ call \in Call /\ call.answer = "none"
    BY <1>3 DEF Serve, IInv, Typed, TypeOK, ToolsTypeOK
  <2>3. /\ call' \in Call /\ call'.key = call.key /\ call'.tool = call.tool
        /\ call'.answer = answer /\ call'.answer # "none"
    BY <2>1, <2>2 DEF Call, Answer
  <2>4. call' # NoCall
    BY <2>3, ToolAssumption
  <2>5. CASE Writing /\ Appends(call.key)
    BY <1>1, <2>2, <2>3, <2>4, <2>5, OwnWrite
  <2>6. CASE UNCHANGED workspace /\ (Writing => answer = "error" \/ call.key \in stored)
    BY <1>1, <1>3, <2>2, <2>3, <2>4, <2>6, NoWrite
  <2> QED BY <2>1, <2>2, <2>5, <2>6 DEF Writing, Write, Appends
<1>4. CASE at # "idle" /\ ServeStray
  <2>1. PICK key \in stray, answer \in {"ok", "error"} : Write(key, answer) /\ UNCHANGED call
    BY <1>4 DEF ServeStray
  <2>2. key \in Key /\ Broken(key.run) /\ key.run # run
    BY <1>4, TaskRunAssumption
       DEF IInv, Typed, TypeOK, ToolsTypeOK, StraysAreBroken, Broken, RunId, RowsFollow, Key
  <2>3. workspace' = workspace \/ Appends(key)
    BY <2>1 DEF Write, Appends
  <2> QED BY <1>1, <1>4, <2>1, <2>2, <2>3, OthersWrite, SameWork
<1> QED BY <1>2, <1>3, <1>4 DEF Serving

LEMMA AlertWorks == ASSUME IInv, WorkIsOwn, Alert PROVE WorkIsOwn'
<1>1. UNCHANGED <<run, at, traces, rows, judged, call>>
  BY DEF Alert, Post, pathVars
<1>2. CASE at = "idle"
  BY <1>1, <1>2 DEF WorkIsOwn
<1>3. CASE at # "idle"
  <2>1. PICK text \in AlertText, answer \in {"ok", "error"} : Write(KeyOf(Guard, AlertStep, text), answer)
    BY DEF Alert, Post
  <2>2. PICK key \in Key : key = KeyOf(Guard, AlertStep, text) /\ key.run = Guard
    <3>1. KeyOf(Guard, AlertStep, text) \in Key
      BY TaskRunAssumption DEF KeyOf, Key
    <3>2. KeyOf(Guard, AlertStep, text).run = Guard
      BY DEF KeyOf
    <3> QED BY <3>1, <3>2
  <2>3. key.run # run
    BY <1>3, <2>2, TaskRunAssumption DEF IInv, Typed, RowsFollow
  <2>4. workspace' = workspace \/ Appends(key)
    BY <2>1, <2>2 DEF Write, Appends
  <2> QED BY <1>1, <1>3, <2>2, <2>3, <2>4, OthersWrite, SameWork
<1> QED BY <1>2, <1>3

LEMMA InsertWorks == ASSUME IInv, WorkIsOwn, Insert PROVE WorkIsOwn'
<1>1. /\ at = "wiped" /\ at' = "ready" /\ UNCHANGED <<workspace, call, traces, run, judged>>
      /\ rows' = [rows EXCEPT ![run] = "RUNNING"]
  BY DEF Insert, Clear
<1>2. ASSUME NEW i \in DOMAIN workspace, Broken(workspace[i].run) PROVE Broken(workspace[i].run)'
  <2>1. workspace[i].run \in RunId /\ workspace[i].run < run
    BY <1>1, <1>2, WriterIsRun DEF Broken, IInv, Typed, TypeOK
  <2>2. rows \in [RunId -> {"none", "RUNNING", "COMPLETED", "FAILED"}] /\ run \in RunId
    BY <1>1 DEF IInv, Typed, TypeOK, RowsFollow
  <2>3. rows'[workspace[i].run] = rows[workspace[i].run]
    BY <1>1, <2>1, <2>2 DEF RunId
  <2> QED BY <1>1, <1>2, <2>3 DEF Broken
<1>3. WritesAreTraced' /\ CompletedAreWritten'
  BY <1>1 DEF WorkIsOwn, WritesAreTraced, CompletedAreWritten, HasWritten, OwnEntries,
     TracedWrites, Writing
<1> QED BY <1>1, <1>2, <1>3, NothingWritten

LEMMA ResetWorks ==
  ASSUME IInv, NothingTraced, NEW path \in Path, Reset(path)
  PROVE  WorkIsOwn'
<1>1. /\ at = "idle" /\ workspace' = <<>> /\ traces' = <<>> /\ call' = NoCall /\ judged' = NotJudged
  BY DEF Reset, Wipe, NothingTraced, IInv, Typed, TypeOK
<1>2. OwnEntries' = {} /\ Writes(traces', {"completed"}) = {} /\ DOMAIN workspace' = {}
  BY <1>1 DEF OwnEntries, Writes
<1> QED BY <1>1, <1>2 DEF WorkIsOwn, StepsWriteOnce, WritesAreTraced, CompletedAreWritten,
        OthersAreBroken, Writing

LEMMA WorkIsOwnStep ==
  /\ IInv /\ NothingLeft /\ NothingTraced /\ InOrder /\ TracesTell /\ WorkIsOwn /\ [Next]_vars
  => WorkIsOwn'
<1> SUFFICES ASSUME IInv, NothingLeft, NothingTraced, InOrder, TracesTell, WorkIsOwn, [Next]_vars
             PROVE  WorkIsOwn'
  OBVIOUS
<1>1. CASE UNCHANGED vars
  BY <1>1, SameWork DEF vars, pathVars, toolVars
<1>2. ASSUME NEW path \in Path, Reset(path) PROVE WorkIsOwn'
  BY <1>2, ResetWorks
<1>3. CASE Insert
  BY <1>3, InsertWorks
<1>4. CASE PathNode
  BY <1>4, NodeKinds, NodeWorks, AnswerWorks
<1>5. CASE Conclude \/ Break
  BY <1>5 DEF Conclude, Break, Leave, WorkIsOwn
<1>6. CASE Serving \/ Alert
  BY <1>6, ServingWorks, AlertWorks
<1> QED BY <1>1, <1>2, <1>3, <1>4, <1>5, <1>6 DEF Next, Proceed, PathNode

\* Each of S has its like in T, and no two of S the same.
LEMMA NoMoreThan ==
  ASSUME NEW S, NEW T, IsFiniteSet(T), NEW f, NEW g,
         \A s \in S : \E t \in T : g[t] = f[s],
         \A s, u \in S : f[s] = f[u] => s = u
  PROVE  Cardinality(S) <= Cardinality(T)
<1> DEFINE h == [s \in S |-> CHOOSE t \in T : g[t] = f[s]]
<1>1. \A s \in S : h[s] \in T /\ g[h[s]] = f[s]
  OBVIOUS
<1>2. h \in [S -> T]
  BY <1>1
<1>3. \A s, u \in S : h[s] = h[u] => s = u
  BY <1>1
<1>4. h \in Injection(S, T)
  BY <1>2, <1>3 DEF Injection, IsInjective
<1> QED BY <1>4, FS_Injection

LEMMA Judged ==
  ASSUME IInv, TracesTell, WorkIsOwn, Conclude
  PROVE  EndStateIsOwn'
<1>1. /\ at = "ready" /\ judged' = [state |-> workspace, traces |-> traces]
      /\ \E status : rows' = [rows EXCEPT ![run] = status]
      /\ UNCHANGED <<run, workspace>>
  BY DEF Conclude, Leave, toolVars
<1>2. /\ run \in RunId /\ workspace \in Seq(Key) /\ traces \in Seq(Trace) /\ call = NoCall
      /\ rows \in [RunId -> {"none", "RUNNING", "COMPLETED", "FAILED"}]
  BY <1>1 DEF IInv, Typed, TypeOK, ToolsTypeOK, RowsFollow
<1>3. StepsWriteOnce /\ WritesAreTraced /\ CompletedAreWritten /\ OthersAreBroken
  BY <1>1 DEF WorkIsOwn
<1> DEFINE done == Writes(traces, {"completed"})
           writes == Writes(traces, {"completed", "failed"})
<1>4. IsFiniteSet(OwnEntries) /\ IsFiniteSet(writes)
  <2>1. /\ Len(workspace) \in Nat /\ OwnEntries \subseteq 1 .. Len(workspace)
        /\ Len(traces) \in Nat /\ writes \subseteq 1 .. Len(traces)
    BY <1>2 DEF OwnEntries, Writes
  <2>2. IsFiniteSet(1 .. Len(workspace)) /\ IsFiniteSet(1 .. Len(traces))
    BY <2>1, FS_Interval
  <2> QED BY <2>1, <2>2, FS_Subset
<1> DEFINE stepOf == [i \in DOMAIN workspace |-> workspace[i].step]
           idOf == [i \in DOMAIN traces |-> traces[i].id]
<1>5. Cardinality(done) <= Cardinality(OwnEntries)
  <2>1. \A i \in done : \E j \in OwnEntries : stepOf[j] = idOf[i]
    BY <1>3 DEF CompletedAreWritten, HasWritten, OwnEntries, Writes
  <2>2. \A i, j \in done : idOf[i] = idOf[j] => i = j
    BY DEF TracesTell, Writes
  <2> HIDE DEF done, stepOf, idOf
  <2> QED BY <1>4, <2>1, <2>2, NoMoreThan
<1>6. Cardinality(OwnEntries) <= Cardinality(writes)
  <2>1. \A j \in OwnEntries : \E i \in writes : idOf[i] = stepOf[j]
    BY <1>2, <1>3 DEF WritesAreTraced, TracedWrites, Writing, OwnEntries, Writes
  <2>2. \A i, j \in OwnEntries : stepOf[i] = stepOf[j] => i = j
    BY <1>3 DEF StepsWriteOnce, OwnEntries
  <2> HIDE DEF writes, stepOf, idOf
  <2> QED BY <1>4, <2>1, <2>2, NoMoreThan
<1>7. ASSUME NEW i \in DOMAIN workspace
      PROVE  workspace[i].run \in {run, Guard} \/ rows'[workspace[i].run] \in {"none", "RUNNING"}
  <2> SUFFICES ASSUME workspace[i].run \notin {run, Guard}
               PROVE  rows'[workspace[i].run] \in {"none", "RUNNING"}
    OBVIOUS
  <2>1. Broken(workspace[i].run) /\ workspace[i].run \in RunId
    BY <1>3, WriterIsRun DEF OthersAreBroken, IInv, Typed, TypeOK
  <2>2. rows'[workspace[i].run] = rows[workspace[i].run]
    BY <1>1, <1>2, <2>1
  <2> QED BY <2>1, <2>2 DEF Broken
<1>8. \A i, j \in OwnEntries : workspace[i].step = workspace[j].step => i = j
  BY <1>3 DEF StepsWriteOnce
<1>9. \A i \in done : \E j \in OwnEntries : workspace[j].step = traces[i].id
  BY <1>3 DEF CompletedAreWritten, HasWritten
<1> HIDE DEF done, writes
<1>10. judged'.state = workspace /\ judged'.traces = traces
  BY <1>1
<1> QED BY <1>1, <1>5, <1>6, <1>7, <1>8, <1>9, <1>10 DEF EndStateIsOwn, OwnEntries, done, writes

LEMMA UnjudgedIsOwn == ASSUME judged = NotJudged PROVE EndStateIsOwn
<1>1. judged.state = <<>> /\ judged.traces = <<>>
  BY DEF NotJudged
<1>2. \A status : Writes(judged.traces, status) = {}
  BY <1>1 DEF Writes
<1>3. {i \in DOMAIN judged.state : judged.state[i].run = run} = {} /\ DOMAIN judged.state = {}
  BY <1>1
<1> QED BY <1>2, <1>3, FS_EmptySet DEF EndStateIsOwn

LEMMA EndStateStep ==
  IInv /\ TracesTell /\ WorkIsOwn /\ WorkIsOwn' /\ EndStateIsOwn /\ [Next]_vars => EndStateIsOwn'
<1> SUFFICES ASSUME IInv, TracesTell, WorkIsOwn, WorkIsOwn', EndStateIsOwn, [Next]_vars
             PROVE  EndStateIsOwn'
  OBVIOUS
<1>1. CASE Conclude
  BY <1>1, Judged
<1>2. CASE (\E path \in Path : Reset(path)) \/ Insert
  <2>1. judged' = NotJudged
    BY <1>2 DEF Reset, Insert, WorkIsOwn
  <2>2. (judged = NotJudged => EndStateIsOwn)'
    BY UnjudgedIsOwn, PTL
  <2> QED BY <2>1, <2>2 DEF NotJudged
<1>3. CASE PathNode \/ Break \/ Serving \/ Alert \/ UNCHANGED vars
  <2>1. UNCHANGED <<judged, run, rows>>
    BY <1>3 DEF PathNode, PipelineNode, PlanNode, ExecuteNode, AgentNode, CallNode, LlmAnswer,
       ToolAnswer, Break, Leave, Serving, Alert, pathVars, vars
  <2> QED BY <2>1 DEF EndStateIsOwn
<1> QED BY <1>1, <1>2, <1>3 DEF Next, Proceed, PathNode

(***************************************************************************)
(* The end state TaskRunner.run gives to the validators, on every path and *)
(* whatever breaks off before: each step of the run has written at most    *)
(* once, its completed writes are all there, and what is not its own is an *)
(* alert or a late write of a run that broke off.                          *)
(***************************************************************************)
THEOREM EndStateOwn == Spec => []EndStateIsOwn
<1>1. Init => TracesTell /\ WorkIsOwn /\ EndStateIsOwn
  <2> SUFFICES ASSUME Init PROVE TracesTell /\ WorkIsOwn /\ EndStateIsOwn
    OBVIOUS
  <2>1. EndStateIsOwn
    BY UnjudgedIsOwn DEF Init
  <2> QED BY <2>1 DEF Init, TracesTell, WorkIsOwn
<1>2. IInv /\ NothingLeft /\ NothingTraced /\ InOrder /\ TracesTell /\ WorkIsOwn /\ EndStateIsOwn
        /\ [Next]_vars
      => (TracesTell /\ WorkIsOwn /\ EndStateIsOwn)'
  <2> SUFFICES ASSUME IInv, NothingLeft, NothingTraced, InOrder, TracesTell, WorkIsOwn,
                      EndStateIsOwn, [Next]_vars
               PROVE  TracesTell' /\ WorkIsOwn' /\ EndStateIsOwn'
    OBVIOUS
  <2>1. TracesTell'
    BY TracesTellStep
  <2>2. WorkIsOwn'
    BY WorkIsOwnStep
  <2> QED BY <2>1, <2>2, EndStateStep
<1> QED BY AlwaysInOrder, <1>1, <1>2, PTL DEF Spec

=============================================================================
