SPECIFICATION Spec
CONSTANTS
  c1 = c1
  c2 = c2
  c3 = c3
  c4 = c4
  i1 = i1
  Conn = {c1, c2, c3, c4}
  IP = {i1}
  MaxConnections = 2
  MaxConnectionsPerIP = 1
  RateLimitPerMinute = 2
  Minute = 2
  MaxTime = 4
SYMMETRY Symmetry
INVARIANTS
  TypeOK
  CountersAreExact
  LimitsHold
  AtMostTwiceTheRate
CHECK_DEADLOCK FALSE
