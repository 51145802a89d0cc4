SPECIFICATION FairSpec
CONSTANTS
  alice = alice
  bob = bob
  carol = carol
  s1 = s1
  s2 = s2
  k1 = k1
  k2 = k2
  k3 = k3
  m1 = m1
  m2 = m2
  Null = Null
  User = {alice, bob, carol}
  Server = {s1}
  Socket = {k1, k2, k3}
  Message = {m1}
  Owner <- TwoTabs
  Home <- OneServer
  Member <- Members
  Redis = FALSE
  Failures = {"query", "idle", "crash"}
INVARIANTS
  TypeOK
PROPERTIES
  AudienceOnly
  SubscribedMissNothing
