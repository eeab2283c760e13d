SPECIFICATION Spec
CONSTANTS
  r1 = r1
  r2 = r2
  r3 = r3
  Requests = {r1, r2, r3}
  Users = {1}
  Tokens = {1}
  Operations <- AllOperations
  CanAbort = TRUE
SYMMETRY Symmetry
CHECK_DEADLOCK FALSE
INVARIANTS
  TypeOK
  AgentIffUsed
  ChangesAreEnqueued
  DeleteEndsAllItFound
  WaitsEnd
PROPERTIES
  EndIsFinal
