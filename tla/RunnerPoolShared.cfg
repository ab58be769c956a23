SPECIFICATION PoolSpec
CONSTANTS
  Calls = {c1, c2}
  MaxSize = 2
  MinIdle = 1
  Events = {}
INVARIANTS
  ExclusiveUse
CHECK_DEADLOCK FALSE
