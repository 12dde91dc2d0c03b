SPECIFICATION FairSpec
CONSTANTS
  p1 = p1
  p2 = p2
  g1 = g1
  g2 = g2
  g3 = g3
  None = None
  r1 = r1
  r2 = r2
  Procs = {p1}
  Tasks = {g1, g2}
  Of <- MCOf
  Rooms = {r1, r2}
  Kinds = {"ours", "leave"}
  Limit = 1
  MaxIdle = 2
  MaxEvents = 2
  MaxFaults = 1
PROPERTIES
  SentWhileAwake
  StopEnds
CHECK_DEADLOCK FALSE
