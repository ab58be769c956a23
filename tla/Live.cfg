SPECIFICATION LiveSpec
CONSTANTS
  Groups = {g1, g2}
  TaskIds = {t1}
  NoTask = NoTask
  MaxConcurrent = 1
  MaxRetries = 1
  MaxTimers = 1
  Budget = 4
  LastMessage = 4
  Kinds = {"request", "chatter"}
  NeedsTrigger = TRUE
  PromptLimit = 4
  Faults = {"close", "write"}
INVARIANTS
  NothingDropped
PROPERTIES
  AllServed
  Settled
CHECK_DEADLOCK FALSE
