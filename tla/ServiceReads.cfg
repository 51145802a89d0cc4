SPECIFICATION Spec
CONSTANTS
  alice = alice
  bob = bob
  carol = carol
  c1 = c1
  c2 = c2
  Null = Null
  User = {alice, bob}
  Conversation = {c1}
  Seeded <- SeededOne
  Group <- OneGroup
  Message = {m1}
  Request = {r1, r2}
  Op = {"send", "delete", "clear", "list", "inbox"}
  InFlight = 2
  Failures = FALSE
  HostChanges = FALSE
  MaxTime = 2
  TicksPerMs = 2
  Skew <- SkewedHosts
SYMMETRY SymmetryOfTwo
INVARIANTS
  ThreadIsCurrent
  ListAgrees
  ClearHidesHistory

  
