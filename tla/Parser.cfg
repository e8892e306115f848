SPECIFICATION Spec
CONSTANTS
  Names <- MCNames
  Literals = {"1"}
  Files <- MCFiles
  Garbage = {"local", "C"}
  ListLimit = 4
  ArgLimit = 3
  PartLimit = 2
INVARIANTS
  ReadsSource
  NothingDropped
  CStructsInside
CHECK_DEADLOCK FALSE
