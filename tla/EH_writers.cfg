SPECIFICATION Spec
CONSTANTS
  boot = boot
  s1 = s1
  s2 = s2
  l1 = l1
  l2 = l2
  b1 = b1
  b2 = b2
  h1 = h1
  h2 = h2
  None = None
  Absent = Absent
  Modes = {"sweep", "ephemeral"}
  Served = {"http", "ws"}
  Sweeps = {s1}
  Boot = boot
  Loops = {l1, l2}
  Key <- HttpLoops
  HealthyThreshold = 2
  Balancers = {b1}
  Handlers = {h1}
  Host <- OneHost
  FailureThreshold = 1
  SuccessThreshold = 1
  EphemeralEnabled = TRUE
  Faults = {"valkey", "checker", "balancer", "limit", "cleanup"}
  MaxEvents = 1
INVARIANTS TypeOK
PROPERTIES LiftIsEarned FallIsFound
