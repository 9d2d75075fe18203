CONSTANTS
  c1 = c1  c2 = c2  r1 = r1  r2 = r2  w1 = w1
  m1 = m1  m2 = m2  m3 = m3  k1 = k1  k2 = k2
  Client = {c1, c2}
  Run = {r1, r2}
  Workflow = {w1}
  Model = {m1, m2, m3}
  Key = {k1, k2}
  RunOf <- TwoRuns
  WorkflowOf <- OneWorkflow
  KeyOf <- MCKeyOf
  Near <- MCNear
  UsesCache = {c2}
  UsesSemantic = {c2}
  Plans <- OnePlan
  Adapted = {m1, m2}
  Estimate <- MCEstimate
  Costs <- MCCosts
  Overrun = 0
  RunLimit = 3
  DayLimit = 2
  Retries = 0
  FailureThreshold = 1
  Window = 0
  HalfOpenAfter = 1
SPECIFICATION Spec
INVARIANTS
  DayOverspendBounded
  DayNeverAheadOfRuns
