SPECIFICATION Spec
CONSTANTS
  r1 = r1
  r2 = r2
  h1 = h1
  h2 = h2
  m1 = m1
  m2 = m2
  m3 = m3
  c1 = c1
  Replicas = {r1, r2}
  Handlers = {h1, h2}
  Monitors = {m1, m2, m3}
  Checkers = {c1}
  Home <- TwoReplicas
  Seeds <- NoHint
  InitialBackoff = 1
  MaxBackoff = 2
  MaxRetries = 2
  RequiredSuccesses = 2
  MultNum = 2
  MultDen = 1
  Env = {"valkey", "crash", "expiry"}
VIEW WithoutHistory
INVARIANTS TypeOK ClaimsHold RecordIsSound
