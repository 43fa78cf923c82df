SPECIFICATION MCSpec
CONSTANTS
  Urls = {u1}
  FailureThreshold = 3
  SuccessThreshold = 2
  Window = 3
  RecoveryInterval = 2
  Threads = {t1, t2}
  Threshold = 2
  Timeout = 2
  MaxFails = 3
  PoolSize = 3
  Callers = {a, b}
  HashCallers = {h}
  HashIndex = 1
  Setters = {s1}
INVARIANTS
  PicksHealthy
PROPERTIES
  ResponsesDecide RecoversForGood
  Implements
  PicksEnd
CHECK_DEADLOCK FALSE
