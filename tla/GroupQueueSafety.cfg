SPECIFICATION MCSpec
CONSTANTS
  Groups = {g1, g2, g3}
  TaskIds = {t1, t2}
  NoTask = NoTask
  MaxConcurrent = 2
  MaxRetries = 1
  MaxTimers = 1
  Budget = 4
SYMMETRY Symmetry
INVARIANTS
  TypeOK
  RunsCounted
  ParkingCorrect
  IdlePreempted
PROPERTIES
  TasksFirst
  TasksInOrder
CHECK_DEADLOCK FALSE
