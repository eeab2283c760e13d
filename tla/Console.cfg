SPECIFICATION FairSpec
CONSTANTS
  Calls = {"me", "list", "create", "resync"}
  Deeds = {"create", "resync"}
  MethodOf <- MCMethodOf
  MaxFaults = 2
INVARIANTS
  TypeOK
  DoneOnceAndTold
PROPERTIES
  GetsThrough
CHECK_DEADLOCK FALSE
