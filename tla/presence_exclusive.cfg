CONSTANTS
  c1 = c1
  c2 = c2
  c3 = c3
  s1 = s1
  s2 = s2
  u1 = u1
  g1 = g1
  User = {u1}
  Conn = {c1, c2}
  Server = {s1, s2}
  Group = {g1}
  CrashHosts = {}
  StopHosts = {}
  ClientOf <- MCSameClient
  GroupSet <- MCGroupSet
  Nobody = Nobody
  None = None

SPECIFICATION Spec

INVARIANT ExclusiveSession
