SPECIFICATION ServicesSpec
CONSTANTS
  ContainerAttempts = 2
  ContainerOutputs = 1
  IpcDirs = {"d1", "d2"}
  IpcRequests <- TwoRequests
  IpcBreaks = 1
  AgentTurns = 2
  ToolRounds = 2
  CallsPerRound = 2
  AgentStarts = 3
  KeepMessages = 2
  HostWindow = 4
  ModelWindow = 5
  ResearchJobs = {r1, r2}
  ResearchChats = {ch}
  ResearchRuns = 3
  MaxConcurrency = 1
  MaxFollowups = 1
  Staging = {TRUE, FALSE}
  EngineMessages = 3
  EngineTexts = {hi, ok}
  EngineRuns = 2
  EngineCrashes = 1
  Pendings = 2
  ListedPending = 2
  ApproveCalls = 2
  HealthTicks = 7
  HealthStates = 2
  FailThreshold = 4
  InitialBackoff = 1
  MaxBackoff = 4
  Utterances = 1
  Turns = 1
  Chunks = 1
  GatewayHears = {1}
  Streams = {"opening", "failed"}
  Greets = {TRUE, FALSE}
  Contents = {"speech", "noise", "unclear"}
  StreamFrames = 4
  WindowFrames = 2
  StepFrames = 1
  EndpointFrames = 1
  TokenCallers = {tc1, tc2}
  Logins = 2
  TokenIssues = 3
  Histories <- SomeHistories
  ResultSizes = {1, 4}
  Window = 12
  SystemSize = 1
  ToolsSize = 1
  OutputTokens = 5
  PlainTokens = 2
  Reserve = 1
  LeastTokens = 2
  TurnRounds = 2
  TrimLimit = 2
  Bytes <- SomeStreams
  SpokenAnswers <- SomeAnswers
  OpenTag <- ThinkOpen
  CloseTag <- ThinkClose
  PhraseLimit = 3
  PhraseFloor = 0
  Containers = 2
  Lanes = {trusted}
  Hosts = 2
  WarmMin = 1
  WarmMax = 2
  Entries = 6
  Days = 2
  FlushSize = 2
  Retention = 1
  MaxRows = 3
  Jobs = {j1, j2}
  Providers <- TwoProviders
  Lookups = 3
  Threshold = 2
  Cooldown = 2
  Clock = 3
INVARIANTS
  RunCorrect
  ToolsCorrect
  HistoryCorrect
  EngineCorrect
  TranscriptsCorrect
  RepliesCorrect
  HostCorrect
PROPERTIES
  JobsCorrect
  ApprovalsCorrect
  MonitorCorrect
CHECK_DEADLOCK FALSE
