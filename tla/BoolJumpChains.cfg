SPECIFICATION Spec
CONSTANT Conditions <- ChainConditions
INVARIANT TakesSourceArm
CHECK_DEADLOCK FALSE
