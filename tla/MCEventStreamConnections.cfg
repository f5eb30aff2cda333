SPECIFICATION FairSpec
CONSTANTS
  alice = alice
  User = {alice}
  MaxConnectionsPerUser = 2
  MaxSize = 1
  Limit = 1
  MaxConns = 3
  MaxEvents = 0
  MaxDisturbed = 1
  MaxInFlight = 0
INVARIANTS
  OpenStreamsAreCounted
PROPERTIES
  ClosedStreamsEnd
CHECK_DEADLOCK FALSE
