SPECIFICATION Spec
CONSTANTS
  r1 = r1
  r2 = r2
  Rooms = {r1, r2}
  Public = {r1}
  MaxUpdates = 3
  MaxMoves = 4
  MaxFaults = 1
INVARIANTS
  StaleOnlyIfOvertaken
CHECK_DEADLOCK FALSE
