SPECIFICATION Spec
CONSTANTS
  alice = alice
  bob = bob
  carol = carol
  c1 = c1
  c2 = c2
  Null = Null
  User = {alice, bob, carol}
  Conversation = {c1, c2}
  Seeded <- SeededTwo
  Group <- OneGroup
  Message = {m1}
  Request = {r1, r2}
  Op = {"create", "send", "delete"}
  InFlight = 2
  Failures = TRUE
  HostChanges = TRUE
  MaxTime = 1
  TicksPerMs = 1
  Skew <- NoSkew
SYMMETRY Symmetry
INVARIANTS
  TypeOK
  TruthfulWrites
  RevocationHolds
  OneTombstone
  OutsideFollowsDatabase
  DeletionReachesBus
PROPERTIES
  AuthorOnly
  LedgerSpec
