SPECIFICATION Spec
CONSTANTS
  alice = alice
  bob = bob
  carol = carol
  s1 = s1
  s2 = s2
  k1 = k1
  k2 = k2
  k3 = k3
  m1 = m1
  m2 = m2
  Null = Null
  User = {alice, bob}
  Server = {s1}
  Socket = {k1}
  Message = {m1}
  Owner <- Owners
  Home <- OneServer
  Member <- Members
  Redis = FALSE
  Failures = {"query"}
PROPERTIES
  StaysUp
