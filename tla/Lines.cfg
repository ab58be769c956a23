SPECIFICATION LinesSpec
CONSTANTS
  WaSockets = 3
  WaTexts = {t1, t2, t3}
  PhoneSockets = 3
  PhoneStops = 1
  PhoneCalls = {c1}
  Calls = {k1, k2}
  Numbers = {n1, n2}
  CallSessions = 2
  Handoffs = {h1}
  Kids = 3
  Asks = {a1, a2}
  Orders = {s1}
  BrowserEvents = 4
  BrowserStreams = {w1, w2}
  Utterances = 2
  Turns = 2
  Chunks = 2
  GatewayHears = {}
  Streams = {"failed"}
  Greets = {FALSE}
  Contents = {"speech"}
INVARIANTS
  LineCorrect
  PhoneCorrect
  SidecarCorrect
  EventsCorrect
PROPERTIES
  SpeechCorrect
  TurnsEnd
CHECK_DEADLOCK FALSE
