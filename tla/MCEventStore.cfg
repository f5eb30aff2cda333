SPECIFICATION Spec
CONSTANTS
  User = {alice, bob}
  MaxSize = 4
  Limit = 2
  MaxEvents = 5
  MaxTime = 1
  MaxLag = 1
  alice = alice
  bob = bob
INVARIANTS
  TypeOK
  StructuresAgree
PROPERTY
  ImplementsEventLog
CHECK_DEADLOCK FALSE
