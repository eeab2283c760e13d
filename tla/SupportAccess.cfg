SPECIFICATION FairSpec
CONSTANTS
  r1 = r1
  r2 = r2
  s1 = s1
  s2 = s2
  g1 = g1
  g2 = g2
  g3 = g3
  g4 = g4
  ann = ann
  bob = bob
  acme = acme
  beta = beta
  Requests = {r1, r2}
  Sweepers = {s1, s2}
  Grants = {g1, g2, g3, g4}
  Admins = {ann, bob}
  Tenants = {acme, beta}
  AdminOf <- Crossed
  TenantOf <- TwoTenants
  Beginnings <- AllButOne
  Lapsing = {g3, g4}
  Asks <- GrantsAndADelete
  Crews <- Three
  SweepLimit = 2
  MayFail = {r2}
INVARIANTS
  TypeOK
  AccessIsAccountedFor
PROPERTIES
  EndedAgainByRevokeOnly
  AccessSettles
  TransactionsEnd
CHECK_DEADLOCK FALSE
