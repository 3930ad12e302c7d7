SPECIFICATION UnitSpec
CONSTANTS
  r1 = r1
  r2 = r2
  i1 = i1
  i2 = i2
  i3 = i3
  x1 = x1
  x2 = x2
  x3 = x3
  x4 = x4
  AnyInstance = AnyInstance
  NoInstance = NoInstance
  NoRecord = NoRecord
  Requests = {r1}
  Instances = {i1, i2, i3}
  Records = {x1, x2, x3}
  MaxAttempts = 2
  SwitchToKnownInstance = TRUE
  Watched = i1
  MaxEdits = 0
  Tokens = {"/", "a", "1", "-1", ".gswa", ".woa"}
  MaxTokens = 6
  Leading = 0
  Keys = {"A", "a", "b", "c"}
  Values = {1, 2}
  MinCapacity = 2
  MinSize = 3
  MaxSteps = 4
  Null = Null
  Texts <- SomeTexts
  MaxLeaks = 1
  MaxTries = 2
  ClientURLs <- SomeURLs
  Table <- TwoInstances
  Answers <- SomeAnswers
  Lengths = {1}
  NumberTokens = {"1", "2"}
  WoaExtension = ".woa"
  NoTarget = NoTarget
INVARIANTS
  RoundRobin BufferIsEnough InstanceReadsTheSame DictIsMap MarksAreReplaced
  InstanceIsAddressed
SYMMETRY Symmetry
CHECK_DEADLOCK FALSE
