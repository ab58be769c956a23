SPECIFICATION MCSpec
CONSTANTS
  LastMessage = 3
  Kinds = {"request", "ack", "command"}
  NeedsTrigger = FALSE
  PromptLimit = 2
  MaxRetries = 1
  Faults = {"agent", "timeout", "close", "effect", "write", "send", "crash"}
INVARIANTS
  TypeOK
  NoOtherLoss
PROPERTIES
  RunStartsFresh
  RepeatsUnmarkedOnly
CHECK_DEADLOCK FALSE
