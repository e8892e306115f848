SPECIFICATION Spec
CONSTANT Conditions <- PlainConditions
INVARIANT JumpsLand
PROPERTY ImplementsSource
CHECK_DEADLOCK FALSE
