SPECIFICATION FairSpec
CONSTANTS
  p1 = p1
  p2 = p2
  Procs = {p1, p2}
  BatchSize = 2
  MaxEvents = 2
  MaxFaults = 2
INVARIANTS
  TypeOK
PROPERTIES
  ImplementsCursor
  EveryEventTold
  StopEnds
