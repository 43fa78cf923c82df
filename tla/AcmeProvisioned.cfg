SPECIFICATION AcmeFairSpec
CONSTANTS
  DomainSets = {s1}
  NoCert = NoCert
  Life = 4
  Margin = 2
  Polls = 2
  MaxFaults = 0
  MaxIdle = 2
PROPERTIES
  Provisioned
CHECK_DEADLOCK FALSE
