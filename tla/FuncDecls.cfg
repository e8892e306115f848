SPECIFICATION Spec
CONSTANTS
  NoType = NoType
  Untyped = Untyped
  NoFunc = NoFunc
  Types <- MCTypes
  TypeDef <- MCTypeDef
  OpaquePtrs = {}
  Names <- MCNames
  Programs <- MCPrograms
  PassLimit = 4
  MaxNesting = 4
INVARIANTS
  TypeOK
  CallsAgree
  DeducedFromAll
  CopiedOnce
  BestOverload
  AcceptedExactly
PROPERTIES
  CalleePinned
CHECK_DEADLOCK FALSE
