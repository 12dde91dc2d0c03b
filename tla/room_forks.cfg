SPECIFICATION Spec
CONSTANTS
  alice = alice
  bob = bob
  carol = carol
  here = here
  there = there
  f1 = f1
  f2 = f2
  Users = {alice, bob}
  Servers = {here, there}
  Home <- MCHome
  Me = here
  Creator = alice
  Public = TRUE
  Flights = {f1}
  LocalSend = LocalSend
  Kinds = {"join", "invite", "ban", "message", "react"}
  MaxEvents = 5
  MaxLog = 5
  MaxBatch = 1
  MaxPrevs = 2
INVARIANTS
  TimelineAuthorised
  LastEventKept
  LocalSendHealsForks
  ExtremitiesExact
  SentHereStoredOnce
  LocalsReactOnce
SYMMETRY FlightSymmetry
CHECK_DEADLOCK FALSE
