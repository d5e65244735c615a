CONSTANTS
  c1 = c1
  c2 = c2
  c3 = c3
  s1 = s1
  s2 = s2
  u1 = u1
  u2 = u2
  g1 = g1
  User = {u1, u2}
  Conn = {c1, c2}
  Server = {s1, s2}
  Group = {}
  CrashHosts = {}
  StopHosts = {s1}
  ClientOf <- MCPair
  GroupSet <- MCGroupSet
  MaxMsg = 1
  Keep = 1
  Nobody = Nobody
  None = None

SPECIFICATION FairPeerSpec

PROPERTIES
  RoutedArrives
  ImplementsDelivery

ACTION_CONSTRAINT OneLate
