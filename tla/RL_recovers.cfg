SPECIFICATION FairSpec
CONSTANTS
  r1 = r1
  r2 = r2
  h1 = h1
  h2 = h2
  m1 = m1
  m2 = m2
  m3 = m3
  c1 = c1
  Replicas = {r1}
  Handlers = {h1}
  Monitors = {m1, m2}
  Checkers = {}
  Home <- OneHandler
  Seeds <- TwoSeeds
  InitialBackoff = 1
  MaxBackoff = 4
  MaxRetries = 3
  RequiredSuccesses = 2
  MultNum = 2
  MultDen = 1
  Env = {"shutdown", "reset"}
INVARIANT ProbesInBudget
PROPERTIES RecoveryIsEarned BackoffNeverShrinks MonitorBringsBack CancelledMonitorsEnd
