SPECIFICATION Spec
CONSTANTS
  N = 4
  MaxPDUs = 2
  MaxRefs = 2
  MaxFetch = 2
  Insertion = 2
  Growth <- MCGrowth
INVARIANTS
  TypeOK
  NothingForgotten
  DepthOrder
CHECK_DEADLOCK FALSE
