SPECIFICATION Spec
CONSTANTS
  alice = alice
  bob = bob
  carol = carol
  c1 = c1
  c2 = c2
  Null = Null
  User = {alice, bob}
  Conversation = {c1}
  Seeded <- SeededOne
  Group <- OneGroup
  Message = {m1}
  Request = {r1, r2, r3}
  Op = {"send", "clear"}
  InFlight = 2
  Failures = FALSE
  HostChanges = FALSE
  MaxTime = 2
  TicksPerMs = 1
  Skew <- NoSkew
PROPERTIES
  ClearedStaysGone
