SPECIFICATION UnitSpec
CONSTANTS
  r1 = r1
  r2 = r2
  i1 = i1
  i2 = i2
  i3 = i3
  x1 = x1
  x2 = x2
  x3 = x3
  x4 = x4
  AnyInstance = AnyInstance
  NoInstance = NoInstance
  NoRecord = NoRecord
  Requests = {r1}
  Instances = {i1}
  Records = {x1, x2}
  MaxAttempts = 4
  SwitchToKnownInstance = TRUE
  Watched = i1
  MaxEdits = 2
  p1 = p1
  h1 = h1
  Processes = {p1}
  Hosts = {h1}
  MaxApps = 2
  DefaultCount = 2
  MayRefuse = {1}
  Loads = {0}
  RETRY_COUNT = 3
  Numbers = {0}
  APP_CONNECT_RETRIES_NB = 3
  AppHeaders = {"x-own"}
  MaxLength = 2
  MaxLeaks = 1
INVARIANTS
  WholeAnswer OneRequestIsSent GivenBack
PROPERTIES ForwardingSpec RequestIsAnswered HandlerEnds Recovers RequestEnds
CHECK_DEADLOCK FALSE
