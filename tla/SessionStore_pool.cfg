SPECIFICATION Spec
CONSTANTS
  w1 = w1
  w2 = w2
  s1 = s1
  s2 = s2
  e1 = e1
  e2 = e2
  e3 = e3
  e4 = e4
  Workers = {w1, w2}
  Main = Main
  Sessions = {s1}
  Entries = {e1, e2, e3}
  MinActive = 0
  MaxCount = 1
  Nobody = Nobody
  NoSession = NoSession
  NoEntry = NoEntry
SYMMETRY Symmetry
VIEW LiveView
INVARIANTS PoolIsNew
CHECK_DEADLOCK FALSE
