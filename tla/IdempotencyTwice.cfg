CONSTANTS
  Caller = {a, b}
  Nobody = Nobody
  MaxResets = 0
SPECIFICATION Spec
CHECK_DEADLOCK FALSE
INVARIANT WrittenAtMostOnce
