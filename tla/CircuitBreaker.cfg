\* Calls may outlast a cool-down, so outcomes arrive in every later state.
CONSTANTS
  FailureThreshold = 3
  Window = 2
  HalfOpenAfter = 2
  CallTimeout = 3
  Caller = {c1, c2, c3}
SPECIFICATION Spec
INVARIANTS
  TypeOK
  DequeOldestFirst
  TrialFlagMeansTrial
  LateCallsOutlastCoolDown
PROPERTIES
  KeepsPromise
  RefusalEnds
