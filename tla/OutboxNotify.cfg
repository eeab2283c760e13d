SPECIFICATION CalmSpec
CONSTANTS
  w1 = w1
  w2 = w2
  tenant = tenant
  user = user
  kcTenant = kcTenant
  grafanaTenant = grafanaTenant
  kcUser = kcUser
  Workers = {w1, w2}
  Aggregates = {tenant}
  Keys = {kcTenant, grafanaTenant}
  AggregateOf <- OneTenant
  Handled = {kcTenant}
  BatchSize = 2
  Faults = {"listener"}
  Kicks = {"notify"}
  MaxVersion = 1
  MaxRows = 2
  MaxSeq = 1
PROPERTIES
  NotificationSuffices
CHECK_DEADLOCK FALSE
