SPECIFICATION FairSpec
CONSTANTS
  Null = Null
  DefaultLimit = 1
  MaxLimit = 2
  Limit = {1, 3, Null}
  TicksPerMs = 2
  MaxTime = 3
  MaxSent = 3
CHECK_DEADLOCK FALSE
INVARIANTS
  TypeOK
  NeverTwice
  NothingSkipped
  StoresAgree
PROPERTIES
  ScrollEnds
