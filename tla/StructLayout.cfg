SPECIFICATION LayoutSpec
CONSTANTS
  MaxFields = 4
  Structures <- MCStructures
INVARIANTS
  FieldsAligned
  FieldsDisjoint
  FieldsCovered
  ElementsAligned
CHECK_DEADLOCK FALSE
