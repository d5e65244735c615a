CONSTANTS
  c1 = c1
  c2 = c2
  c3 = c3
  s1 = s1
  s2 = s2
  u1 = u1
  u2 = u2
  User = {u1, u2}
  Conn = {c1, c2, c3}
  Server = {s1, s2}
  g1 = g1
  Group = {g1}
  CrashHosts = {}
  StopHosts = {s1, s2}
  ClientOf <- MCClientOf
  GroupSet <- MCGroupSet
  MaxMsg = 1
  Keep = 0
  Nobody = Nobody
  None = None

SPECIFICATION PeerSpec

INVARIANTS
  OnlyAddressee
  RoutedToSession
  DeliveredOnce
  ReadyInGroups

SYMMETRY Symmetry

ACTION_CONSTRAINTS
  LoginsGrow
  NoneLate
  ShutdownsApart
