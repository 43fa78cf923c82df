SPECIFICATION WbFairSpec
CONSTANTS
  Weights <- Pair
  Pickers = {p1, p2}
  Markers = {m1}
  MaxMarks = 2
  MaxOverlap = 1
PROPERTIES WeightsRespected
