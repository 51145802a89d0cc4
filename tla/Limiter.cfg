SPECIFICATION FairSpec
CONSTANTS
  Null = Null
  Key = {a, b}
  Limit = 2
  Window = 2
  MaxTime = 5
INVARIANTS
  TypeOK
  BurstBounded
  RefusedForCause
PROPERTIES
  FixedWindowSpec
  OverEntriesGo
