SPECIFICATION SchedulerSpec
CONSTANTS
  Tasks = {t1, t2}
  Legacy = {}
  Values = {1, 2}
  Types = {"once"}
  Horizon = 3
  Ops = {"pause", "cancel"}
PROPERTIES
  StartsActiveOnly
CHECK_DEADLOCK FALSE
