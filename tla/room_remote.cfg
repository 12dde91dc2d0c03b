SPECIFICATION Spec
CONSTANTS
  alice = alice
  bob = bob
  carol = carol
  here = here
  there = there
  f1 = f1
  f2 = f2
  Users = {alice, bob}
  Servers = {here, there}
  Home <- MCHome
  Me = here
  Creator = bob
  Public = FALSE
  Flights = {f1, f2}
  LocalSend = LocalSend
  Kinds = {"join", "leave", "invite"}
  MaxEvents = 4
  MaxLog = 5
  MaxBatch = 1
  MaxPrevs = 1
INVARIANTS
  ServersMatchMembers
  CountMatchesMembers
  CurrentStateIsLatest
  CreateFirst
PROPERTIES
  ImplementsTimeline
SYMMETRY FlightSymmetry
CHECK_DEADLOCK FALSE
