SPECIFICATION FairSpec
CONSTANTS
  acme = acme
  u1 = u1
  u2 = u2
  Tenants = {acme}
  Users = {u1, u2}
  TenantOf <- OneTenant
  NameOf <- SameName
  Present = {}
  Ids = {1, 2, 3, 4, 5}
  Collectors = {c1}
  AlwaysAllowed = 5
  Replicas = 1
  MaxChanges = 4
  MaxFails = 1
CHECK_DEADLOCK FALSE
INVARIANTS
  TypeOK
PROPERTIES
  KeepsLive
  Settles
