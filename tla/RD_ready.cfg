SPECIFICATION FairSpec
CONSTANTS
  e1 = e1
  e2 = e2
  p1 = p1
  p2 = p2
  None = None
  Endpoints = {e1, e2}
  Probers = {p1, p2}
  Deployments = {"integrated", "standalone"}
  Intervals = {"zero", "some"}
  Concurrency = 1
  Grace = 2
  CallTimeout = 1
  MaxFaults = 3
INVARIANTS TypeOK ReadyNeedsAChecker
PROPERTIES GraceRunsOut GraceIsGranted GetsReady
