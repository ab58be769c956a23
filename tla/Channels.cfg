SPECIFICATION ChannelsSpec
CONSTANTS
  LastMessage = 3
  MaxSockets = 3
  MaxStops = 2
  Sends = {c1}
  Instances = {1, 2, 3}
  Attempts = {1, 2, 3, 4}
  AdminCalls = {a1, a2}
  StartupRetries = 1
  InboundIds = {1, 2}
  InboundStamps = {1, 2}
  InboundCopies = {1, 2}
  InboundCrashes = 1
  Processes = {1, 2, 3}
  Starts = {s1, s2, s3}
  HostStarts = 2
INVARIANTS
  SmsTypeOK
  StopHolds
  SmsCorrect
  ConnectionsCorrect
  MessagesCorrect
CHECK_DEADLOCK FALSE
