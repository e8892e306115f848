SPECIFICATION Spec
CONSTANTS
  Functions <- StructuredFunctions
  RangeLength = 2
  MaxChoices = 3
  MaxCalls = 16
INVARIANT FollowsSource
PROPERTY KeepsGoing
CHECK_DEADLOCK FALSE
