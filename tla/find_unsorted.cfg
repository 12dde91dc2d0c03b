SPECIFICATION Spec
CONSTANTS
  N = 3
  MaxPDUs = 2
  MaxRefs = 2
  MaxFetch = 2
  Insertion = 12
  Growth <- MCGrowth
INVARIANTS
  RefsFirst
CHECK_DEADLOCK FALSE
