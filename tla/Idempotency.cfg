CONSTANTS
  Caller = {a, b, c, d}
  Nobody = Nobody
  MaxResets = 2
SPECIFICATION Spec
CHECK_DEADLOCK FALSE
INVARIANTS
  TypeOK
  WrittenOnceButForSlips
  FirstResultWins
PROPERTIES
  KeepsWritePromise
  CallsEnd
