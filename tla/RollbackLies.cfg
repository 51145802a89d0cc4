SPECIFICATION Spec
CONSTANTS
  Null = Null
  d1 = d1
  d2 = d2
  Database = {d1, d2}
  Version = {1, 2}
  Ships <- Shipped
  Config <- Configs
INVARIANTS
  RollbackOkIsTrue
