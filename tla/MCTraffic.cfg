SPECIFICATION MCSpec
CONSTANTS
  HttpRequests <- MCRequests
  HttpRoutes <- MCHttpRoutes
  MwConfigs <- MCMwConfigs
  BackendAnswers <- MCBackendAnswers
  Tokens <- MCTokens
  HttpProbes <- MCHttpProbes
  RuleTrees <- MCRuleTrees
  TcpProbes <- MCTcpProbes
  Hellos <- MCHellos
  RandomLen = 3
  Units = 3
  HelloUnits = 2
  HeaderUnits = 2
  BufUnits = 3
  DomainSets = {s1}
  NoCert = NoCert
  Life = 4
  Margin = 2
  Polls = 2
  MaxFaults = 2
  MaxIdle = 2
  Clients = {c1}
  Tasks = {t1, t2}
  Socks = {k1, k2}
  NoSock = NoSock
  Routes <- MCUdpRoutes
  Timeout = 1
INVARIANTS
   
  
  
  
  SessionsAreHeard
PROPERTIES
  TrafficAnswered  SocketsReleased
CHECK_DEADLOCK FALSE
