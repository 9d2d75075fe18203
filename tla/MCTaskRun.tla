------------------------------ MODULE MCTaskRun ------------------------------
(* One workflow for TLC: read, generate, transform, write.  The plans are a     *)
(* good one, one that writes twice, and one for each thing validate_plan        *)
(* rejects; the agent may write the same twice in a turn, ask for a tool that   *)
(* is not the workflow's, and send bad arguments.                               *)
EXTENDS TaskRun

CONSTANTS fetch, draft, blocks, post, s1, s2, s3, plan, alert, search, page, delete, a, text

MCStepId == {<<id>> : id \in {fetch, draft, blocks, post, s1, s2, s3, plan, alert}}
            \cup ({"turn"} \X (1 .. MaxTurns)) \cup ({"call"} \X (1 .. MaxTurns) \X (0 .. 1))
MCTurnStep(turn) == <<"turn", turn>>
MCCallStep(turn, index) == <<"call", turn, index>>
MCPlanStep == <<plan>>
MCAlertStep == <<alert>>
MCCaller == 0 .. MaxRuns

S(id, type, tool, needs, json) ==
  [id |-> <<id>>, type |-> type, tool |-> tool, args |-> a,
   needs |-> {<<n>> : n \in needs}, json |-> json]

MCPipeline ==
  <<S(fetch, "tool", search, {}, FALSE), S(draft, "llm", search, {fetch}, TRUE),
    S(blocks, "transform", search, {draft}, FALSE), S(post, "tool", page, {draft}, FALSE)>>

Raw(step) == [step |-> step, sound |-> TRUE]
MCPlans ==
  {<<Raw(S(s1, "tool", search, {}, FALSE)), Raw(S(s2, "llm", search, {s1}, TRUE)),
     Raw(S(s3, "tool", page, {s2}, FALSE))>>,
   <<Raw(S(s1, "tool", page, {}, FALSE)), Raw(S(s2, "tool", page, {}, FALSE))>>,
   <<Raw(S(s1, "tool", search, {}, FALSE)), Raw(S(s1, "tool", page, {}, FALSE))>>,
   <<Raw(S(s1, "tool", page, {s2}, FALSE)), Raw(S(s2, "llm", search, {}, FALSE))>>,
   <<Raw(S(s1, "tool", delete, {}, FALSE))>>,
   <<[step |-> S(s1, "llm", search, {}, FALSE), sound |-> FALSE]>>}

Asked(tool, valid) == [tool |-> tool, args |-> a, valid |-> valid]
MCTurns ==
  {<<>>, <<Asked(page, TRUE), Asked(page, TRUE)>>, <<Asked(delete, TRUE), Asked(page, FALSE)>>}
=============================================================================
