SPECIFICATION MCSpec
CONSTANTS
  Tasks = {t1, t2}
  Legacy = {t2}
  Values = {2}
  Types = {"once", "interval", "cron"}
  Horizon = 4
  Budget = 3
  Ops = {"pause", "cancel", "edit", "malform", "now", "throw", "unregister", "crash"}
INVARIANTS
  TasksOnGrid
PROPERTIES
  RunsRespectRows
  DueRuns
CHECK_DEADLOCK FALSE
