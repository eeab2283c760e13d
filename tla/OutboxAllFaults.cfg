SPECIFICATION Spec
CONSTANTS
  w1 = w1
  w2 = w2
  tenant = tenant
  user = user
  kcTenant = kcTenant
  grafanaTenant = grafanaTenant
  kcUser = kcUser
  Workers = {w1, w2}
  Aggregates = {tenant}
  Keys = {kcTenant}
  AggregateOf <- OneKey
  Handled = {kcTenant}
  BatchSize = 2
  Faults = {"throw", "stop", "database", "skip", "lease"}
  Kicks = {"poll"}
  MaxVersion = 2
  MaxRows = 2
  MaxSeq = 1
SYMMETRY Symmetry
INVARIANTS
  TypeOK
  NoLostUpdate
  OnePendingRow
PROPERTIES
  ImplementsContract
