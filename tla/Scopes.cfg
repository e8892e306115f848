SPECIFICATION Spec
CONSTANTS
  Names <- MCNames
  Builtins <- MCBuiltins
  Programs <- MCPrograms
  MaxSubpass = 3
INVARIANTS
  FirstDeclares
  ErrorsExact
PROPERTIES
  ImplementsScoping
CHECK_DEADLOCK FALSE
