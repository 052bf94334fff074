SPECIFICATION FairSpec
CONSTANTS
  Codes = {"graceful", "odd"}
  Frames = {"data", "ping"}
  Faults = {"drop", "slow", "quiet", "silence"}
  MaxFrames = 1
CHECK_DEADLOCK FALSE
INVARIANTS TypeOK OnlyFailuresAreBlamed FailuresAreBlamed
PROPERTY RelayEnds
