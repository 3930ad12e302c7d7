SPECIFICATION Spec
CONSTANTS
  p1 = p1
  p2 = p2
  h1 = h1
  h2 = h2
  AnyInstance = AnyInstance
  NoApp = NoApp
  Processes = {p1, p2}
  Hosts = {h1, h2}
  MaxApps = 2
  DefaultCount = 2
  MayRefuse = {1}
  Loads = {0}
  RETRY_COUNT = 2
  Numbers = {}
INVARIANTS TriesAnother SentAgainOnlyUnanswered
SYMMETRY Symmetry
CHECK_DEADLOCK FALSE
