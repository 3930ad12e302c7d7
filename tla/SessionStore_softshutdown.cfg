SPECIFICATION LiveSpec
CONSTANTS
  w1 = w1
  w2 = w2
  s1 = s1
  s2 = s2
  e1 = e1
  e2 = e2
  e3 = e3
  e4 = e4
  Workers = {w1}
  Main = Main
  Sessions = {s1}
  Entries = {e1, e2}
  MinActive = 1
  MaxCount = 2
  Nobody = Nobody
  NoSession = NoSession
  NoEntry = NoEntry
PROPERTIES SoftShutdownEnds
CHECK_DEADLOCK FALSE
