SPECIFICATION Spec
CONSTANTS
  ALIGNMENT = 16
  PAGE_SIZE = 64
  HEADER = 32
  Bases <- MCBases
  Top = 320
  Requests <- MCRequests
  Foreign <- MCForeign
  MaxAllocs = 5
INVARIANTS
  AllocationsApart
  BlocksMatchLive
CHECK_DEADLOCK FALSE
