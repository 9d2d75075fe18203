CONSTANTS
  c1 = c1  c2 = c2  r1 = r1  r2 = r2  w1 = w1
  m1 = m1  m2 = m2  m3 = m3  k1 = k1  k2 = k2
  Client = {c1, c2}
  Run = {r1}
  Workflow = {w1}
  Model = {m1, m2, m3}
  Key = {k1, k2}
  RunOf <- OneRun
  WorkflowOf <- OneWorkflow
  KeyOf <- MCKeyOf
  Near <- MCNear
  UsesCache = {}
  UsesSemantic = {}
  Plans <- OnePlan
  Adapted = {m1, m2}
  Estimate <- MCEstimate
  Costs <- MCCosts
  Overrun = 0
  RunLimit = 2
  DayLimit = 9
  Retries = 1
  FailureThreshold = 1
  Window = 0
  HalfOpenAfter = 1
SPECIFICATION Spec
INVARIANT NoRunOverspends
