SPECIFICATION FairSpec
CONSTANTS
  acme = acme
  beta = beta
  u1 = u1
  u2 = u2
  alice = alice
  Tenants = {acme, beta}
  Users = {u1, u2}
  TenantOf <- EachItsTenant
  NameOf <- SameName
  Provisioned = {acme}
  OrgIds = {1, 2}
  AccountIds = {1, 2}
  Replicas = 2
  MaxChanges = 3
  MaxFails = 1
CHECK_DEADLOCK FALSE
INVARIANTS
  TypeOK
  MembersAreEntitled
PROPERTIES
  DeletesOwn
  Settles
