SPECIFICATION MCSpec
CONSTANTS
  Nodes = {n1, n2}
  NoNode = NoNode
  TTL = 7
  Second = 5
  RoundTrip = 2
  MaxFaults = 2
  Peers = {n1}
  Absent = Absent
  KeyTtl = 3
  NodeTimeout = 1
  TimeWidth = 16
  Ahead = {n1}
INVARIANTS
  OneLeader
PROPERTIES
  LeaderKept 
  
