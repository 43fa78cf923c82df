CONSTANTS
  Keys = {k1}
  Task = Task
  Values = {v1, v2}
  None = None
  Ttls = {2, 3, 4}
  LeaderTtl = 4
  Limit = 2
  Window = 3
  Keep = 5
  Skews = {0, 1}
  FailCalls = {c1, c2}
  MaxCount = 3
  Average = 1000
  Burst = 2
  TickMs = 500
  SweepAge = 6
  MaxTicks = 12
  Providers = {p1, p2}
  Docs = {d1, d2, d3}
  BadDocs = {d3}
  NoDoc = NoDoc
  SampleDoc = d3
  Checkers = {h1, h2}
  HealthyThreshold = 2
  UnhealthyThreshold = 3
  StickyNodes = {n1, n2}
  Sids = {s1}
  NoEntry = NoEntry
  CacheTtl = 2
  SessionTtl = 3
SPECIFICATION MCSpec
INVARIANTS
  
  WindowsHold
  
  ConfigurationKept
  StaleBounded
PROPERTIES
  
  BreakerForgets
  ClusterConverges
CHECK_DEADLOCK FALSE
