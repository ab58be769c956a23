SPECIFICATION SmsSpec
CONSTANTS
  LastMessage = 0
  MaxSockets = 2
  MaxStops = 0
  Sends = {c1}
INVARIANTS
  AlwaysReconnects
CHECK_DEADLOCK FALSE
