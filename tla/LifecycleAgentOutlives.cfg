SPECIFICATION Spec
CONSTANTS
  r1 = r1
  r2 = r2
  r3 = r3
  Requests = {r1, r2}
  Users = {1}
  Tokens = {1}
  Operations = {"deleteTenant", "exchange"}
  CanAbort = FALSE
SYMMETRY Symmetry
CHECK_DEADLOCK FALSE
INVARIANTS
  AgentsEndWithTenant
