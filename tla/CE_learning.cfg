SPECIFICATION Spec
CONSTANTS
  h1 = h1
  h2 = h2
  c1 = c1
  None = None
  Handlers = {h1, h2}
  Checkers = {}
  Processes = {h1, h2}
  Home <- OwnProcess
  Windows = {1, 2}
  FactorNum = 1
  FactorDen = 2
  IncreaseInterval = 2
  MinEstimate = 1
  CallTimeout = 1
  Faults = {"valkey"}
  MaxTime = 4
  MaxDeploys = 1
  MaxCount = 3
SYMMETRY Interchangeable
CHECK_DEADLOCK FALSE
INVARIANTS TypeOK CountsWhereWatched DecreasesAreSpaced LearnedCeilingHolds
PROPERTIES WindowFrozen
