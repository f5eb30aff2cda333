SPECIFICATION Spec
CONSTANTS
  alice = alice
  bob = bob
  User = {alice, bob}
  MaxConnectionsPerUser = 2
  MaxSize = 2
  Limit = 1
  MaxConns = 2
  MaxEvents = 3
  MaxDisturbed = 0
  MaxInFlight = 1
SYMMETRY Symmetry
INVARIANTS
  TypeOK
  DuplicatesOnlyAcrossReplay
  LiveEventsArrive
  ReplayIsComplete
CHECK_DEADLOCK FALSE
