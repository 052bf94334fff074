SPECIFICATION FairSpec
CONSTANTS
  p1 = p1
  p2 = p2
  a1 = a1
  f1 = f1
  r1 = r1
  r2 = r2
  Requests = {r1, r2}
  Endpoints = {p1, p2}
  Role <- TwoPublics
  Ceiling <- OneOnP1
  MaxRetries = 2
  PublicFirst = TRUE
  PublicFirstAttempts = 1
  NoWSURL = {}
  Protocols = {"http"}
  Faults = {}
INVARIANTS CapacityHolds StragglersBounded
PROPERTY EveryRequestEnds
