SPECIFICATION ReaderSpec
CONSTANTS
  Names = {"A", "B"}
  Numbers = {1, 2}
  Gens = {1, 2}
  MaxLoads = 2
  Absent = Absent
  Files <- ConfigurationFiles
INVARIANTS MissingIsReported
CHECK_DEADLOCK FALSE
