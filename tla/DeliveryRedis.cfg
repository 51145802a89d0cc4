SPECIFICATION Spec
CONSTANTS
  alice = alice
  bob = bob
  carol = carol
  s1 = s1
  s2 = s2
  k1 = k1
  k2 = k2
  k3 = k3
  m1 = m1
  m2 = m2
  Null = Null
  User = {alice, bob}
  Server = {s1, s2}
  Socket = {k2}
  Message = {m1}
  Owner <- Owners
  Home <- TwoServers
  Member <- Members
  Redis = TRUE
  Failures = {"redis", "crash"}
INVARIANTS
  PushedOnce
  NothingStranded
