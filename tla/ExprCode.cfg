SPECIFICATION ExprSpec
CONSTANTS
  ArgRegs = 1
  NumTemps = 1
  EntryRsp = 8
  CallerRbp = 100
  Functions <- PlainFunctions
INVARIANTS
  ComputesSource
  OperandsHold
  RestoresCaller
  StackAligned
  LocalsApart
  ArgumentsFound
PROPERTIES
  ImplementsFrame
CHECK_DEADLOCK FALSE
