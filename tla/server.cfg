SPECIFICATION Spec
CONSTANTS
  q1 = q1
  q2 = q2
  q3 = q3
  Requests = {q1, q2}
  Kinds = {"send", "create", "profile"}
  Capacity = 1
  MaxRemote = 1
INVARIANTS
  TypeOK
  NotifierOutlives
  StoppedClean
PROPERTIES
  StopEnds
CHECK_DEADLOCK FALSE
