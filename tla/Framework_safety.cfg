SPECIFICATION UnitSpec
CONSTANTS
  w1 = w1
  w2 = w2
  s1 = s1
  s2 = s2
  e1 = e1
  e2 = e2
  e3 = e3
  Workers = {w1, w2}
  Main = Main
  Sessions = {s1, s2}
  Entries = {e1, e2, e3}
  MinActive = 1
  MaxCount = 3
  Nobody = Nobody
  NoSession = NoSession
  NoEntry = NoEntry
  PageCacheSize = 2
  PermanentPageCacheSize = 1
  PageRefreshOnBacktrack = TRUE
  MaxContexts = 5
SYMMETRY Symmetry
VIEW UnitView
INVARIANTS
  DictIsScanned NoEntryTwice OnlyDeadlock
  RequestsKeepPool RequestsTerminate
  BacktrackGivesWhatWasShown LeastRecentGoesFirst
PROPERTIES ActionRunsOnce
CHECK_DEADLOCK FALSE
