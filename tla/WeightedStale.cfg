SPECIFICATION WbSpec
CONSTANTS
  Weights <- Pair
  Pickers = {p1}
  Markers = {m1, m2}
  MaxMarks = 4
  MaxOverlap = 2
INVARIANTS FirstOnlyIfNone
