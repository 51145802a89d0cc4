SPECIFICATION FairSpec
CONSTANTS
  Null = Null
  Socket = {k1, k2}
  User = {u1, u2}
  Expiry = {1, 5, Null}
  MaxDelay = 3
  MaxTime = 5
CHECK_DEADLOCK FALSE
INVARIANTS
  TypeOK
  BooksAgree
  ClosedOnlyWhenExpired
PROPERTIES
  OutlivesNoToken
  ShutdownEnds
