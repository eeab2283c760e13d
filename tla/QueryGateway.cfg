SPECIFICATION FairSpec
CONSTANTS
  Requests = {"any", "next"}
  Inputs <- MCInputs
  Docs <- MCDocs
  TenantOf <- MCTenantOf
  IndexOf <- MCIndexOf
  MaxSockets = 1
INVARIANTS
  TypeOK
  AnswersStayInTenant
  OwnDocumentsStay
  
PROPERTIES
  LeavingEndsIt
CHECK_DEADLOCK FALSE
