SPECIFICATION FairSpec
CONSTANTS
  LastMessage = 3
  Kinds = {"request", "chatter"}
  NeedsTrigger = TRUE
  PromptLimit = 3
  MaxRetries = 1
  Faults = {"close", "send"}
PROPERTIES
  RunEnds
CHECK_DEADLOCK FALSE
