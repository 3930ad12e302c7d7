SPECIFICATION Spec
CONSTANTS
  r1 = r1
  r2 = r2
  i1 = i1
  i2 = i2
  i3 = i3
  x1 = x1
  x2 = x2
  x3 = x3
  x4 = x4
  AnyInstance = AnyInstance
  NoInstance = NoInstance
  NoRecord = NoRecord
  Requests = {r1}
  Instances = {i1}
  Records = {x1, x2}
  MaxAttempts = 2
  SwitchToKnownInstance = TRUE
  Watched = i1
  MaxEdits = 1
  MaxLeaks = 1
PROPERTIES ChangesAreRead
CHECK_DEADLOCK FALSE
