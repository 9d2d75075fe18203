CONSTANTS
  FailureThreshold = 2
  Window = 2
  HalfOpenAfter = 2
  CallTimeout = 1
  Caller = {c1, c2}
SPECIFICATION Spec
PROPERTY RefusalAlwaysEnds
