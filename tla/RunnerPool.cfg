SPECIFICATION MCSpec
CONSTANTS
  Calls = {c1, c2, c3}
  MaxSize = 2
  MinIdle = 1
  Events = {"failure", "close"}
INVARIANTS
  PoolCorrect
PROPERTIES
  CallsEnd
CHECK_DEADLOCK FALSE
