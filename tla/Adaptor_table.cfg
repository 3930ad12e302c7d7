SPECIFICATION UnitSpec
CONSTANTS
  r1 = r1
  r2 = r2
  i1 = i1
  i2 = i2
  i3 = i3
  x1 = x1
  x2 = x2
  x3 = x3
  x4 = x4
  AnyInstance = AnyInstance
  NoInstance = NoInstance
  NoRecord = NoRecord
  Requests = {r1, r2}
  Instances = {i1}
  Records = {x1, x2, x3}
  MaxAttempts = 3
  SwitchToKnownInstance = TRUE
  Watched = i1
  MaxEdits = 2
  Names = {"A", "B"}
  Numbers = {1, 2}
  Gens = {1, 2}
  MaxLoads = 3
  Absent = Absent
  Files <- ConfigurationFiles
  MaxLeaks = 1
INVARIANTS
  OpenedIsAccounted HeldIsInMemory DroppedIsFreed DictIsConfiguration InForce InMemory
SYMMETRY Symmetry
CHECK_DEADLOCK FALSE
