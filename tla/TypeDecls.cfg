SPECIFICATION Spec
CONSTANTS
  A = A  B = B  C = C  uint8 = uint8  int32 = int32
  Names <- MCNames
  Builtins <- MCBuiltins
  BuiltinType <- MCBuiltinType
  CInt = int32
  Programs <- MCPrograms
  MaxSubpass = 3
INVARIANTS
  TypeOK
  LaidOutFromFinalSizes
  ErrorsExact
  DefineBeforeUse
PROPERTIES
  SizedForGood
  ImplementsNamespace
  Ends
CHECK_DEADLOCK FALSE
