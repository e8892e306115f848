SPECIFICATION Spec
CONSTANTS
  MinInt <- Low
  MaxInt = 7
  Ranges <- AllRanges
INVARIANTS
  VisitsInside
  VisitsAll
PROPERTY ForEnds
CHECK_DEADLOCK FALSE
