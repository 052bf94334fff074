SPECIFICATION FairSpec
CONSTANTS
  Boot = "boot"
  None = "none"
  Handlers = {"h1"}
  Loops = {"l1", "l2"}
  HealthyThreshold = 2
  Faults = {"valkey", "checker", "cleanup"}
  MaxEvents = 1
INVARIANTS TypeOK
PROPERTIES TargetIsProven KeepsCapturing ComesBack
