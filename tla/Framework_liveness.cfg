SPECIFICATION UnitSpec
CONSTANTS
  c1 = c1
  c2 = c2
  c3 = c3
  c4 = c4
  Connections = {c1, c2, c3, c4}
  WorkerThreadCountMax = 2
  MultiThreadEnabled = TRUE
  NoConnection = NoConnection
  Workers = {w1}
  Main = Main
  Sessions = {s1, s2}
  Entries = {e1, e2, e3}
  MinActive = 0
  MaxCount = 2
  Nobody = Nobody
  NoSession = NoSession
  NoEntry = NoEntry
VIEW UnitView
INVARIANTS NoIdlePlace StoredHasEntry CountIsExact RefusalTakesEffect TimerIsSet
PROPERTIES ServiceSpec ServerSpec AdmittedIsServed TimedOutLeaves
CHECK_DEADLOCK FALSE
