SPECIFICATION Spec
CONSTANTS
  p1 = p1
  p2 = p2
  a1 = a1
  f1 = f1
  r1 = r1
  r2 = r2
  Requests = {r1}
  Endpoints = {p1, p2, a1, f1}
  Role <- AllRoles
  Ceiling <- NoCeilings
  MaxRetries = 2
  PublicFirst = TRUE
  PublicFirstAttempts = 1
  NoWSURL = {f1}
  Protocols = {"http", "ws"}
  Faults = {"store", "context"}
INVARIANTS TypeOK BlameHasACause GivesUpOnlyWhenSpent
PROPERTY KeepsPromise
VIEW OneRequest
