SPECIFICATION MCSpec
CONSTANTS
  u1 = u1
  u2 = u2
  api = api
  web = web
  Urls = {u1}
  Services = {api, web}
  Servers <- RepeatedAndShared
  Requests = {r1, r2}
  MaxGen = 2
  FailureThreshold = 1
  SuccessThreshold = 1
  Window = 1
  RecoveryInterval = 0
  H2Reqs = {q1, q2, q3}
  HostOf <- TwoHosts
  q1 = q1
  q2 = q2
  q3 = q3
  near = near
  far = far
  NoConn = NoConn
  Expected = "any"
  CounterWidth = 5
  Weight <- ServerWeights
  NumCalls = 2
  Seconds <- SecondsAsked
  Nanos <- NanosAsked
  Inbound <- HeadersAsked
  NameLists <- NamesAsked
  WeightLists <- ListsAsked
  Names = {x}
  Called = x
  NoName = NoName
INVARIANTS
  FallbackJustified FlagTracksVerdict
  FailsOnRaceOnly
  QuietChoiceIsHealthy ShareConserved
  ReadBackAsWritten
  
PROPERTIES
  VerdictExact
  BackendWorkEnds
CHECK_DEADLOCK FALSE
