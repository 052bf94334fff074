SPECIFICATION FairSpec
CONSTANTS
  boot = boot
  s1 = s1
  s2 = s2
  l1 = l1
  l2 = l2
  b1 = b1
  b2 = b2
  h1 = h1
  h2 = h2
  None = None
  Absent = Absent
  Modes = {"ephemeral"}
  Served = {"http"}
  Sweeps = {}
  Boot = boot
  Loops = {l1, l2}
  Key <- HttpLoops
  HealthyThreshold = 2
  Balancers = {b1}
  Handlers = {h1}
  Host <- OneHost
  FailureThreshold = 1
  SuccessThreshold = 1
  EphemeralEnabled = TRUE
  Faults = {}
  MaxEvents = 1
INVARIANTS LoopsAreOwned
PROPERTIES ComesBack LoopsEnd CachesCatchUp
