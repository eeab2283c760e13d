SPECIFICATION FairSpec
CONSTANTS
  p1 = p1
  p2 = p2
  p3 = p3
  r1 = r1
  r2 = r2
  Attempts = {p1, p2}
  Replicas = {r1}
  LegacyMappers = 2
  MaxClients = 2
  MaxScopes = 2
  MaxChanges = 2
  MaxFails = 1
CHECK_DEADLOCK FALSE
INVARIANTS
  TypeOK
  AgentKeepsItsClient
  CredentialsOnce
PROPERTIES
  ClaimsAreNeverTaken
  Settles
