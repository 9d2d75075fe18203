CONSTANTS
  fetch = fetch  draft = draft  blocks = blocks  post = post
  s1 = s1  s2 = s2  s3 = s3  plan = plan  alert = alert
  search = search  page = page  delete = delete  a = a  text = text
  NoCall = NoCall
  Guard = 0
  Caller <- MCCaller
  StepId <- MCStepId
  Arg = {a, text}
  Tool = {search, page, delete}
  WriteTool = {page, delete}
  MaxRuns = 2
  MaxAlerts = 1
  AlertStep <- MCAlertStep
  AlertText = {text}
  Pipeline <- MCPipeline
  Plans <- MCPlans
  Turns <- MCTurns
  MaxPlanSteps = 3
  MaxTurns = 2
  PlanStep <- MCPlanStep
  TurnStep <- MCTurnStep
  CallStep <- MCCallStep
SPECIFICATION Spec
INVARIANTS
  TypeOK
  EndStateIsOwn
  
  StoredKeysHaveEffects
  PlanFollowed
PROPERTIES
  NoCallAfterFailure
  RunsEnd
CHECK_DEADLOCK FALSE
