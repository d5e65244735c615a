CONSTANTS
  c1 = c1
  c2 = c2
  c3 = c3
  s1 = s1
  s2 = s2
  u1 = u1
  g1 = g1
  User = {u1}
  Conn = {c1, c2, c3}
  Server = {s1, s2}
  Group = {g1}
  CrashHosts = {s1}
  StopHosts = {s1}
  ClientOf <- MCSameClient
  GroupSet <- MCGroupSet
  Nobody = Nobody
  None = None

SPECIFICATION FairSpec

INVARIANTS
  OnlineNamesSession
  MapNamesSession

PROPERTY HangUpFreesName
