CONSTANTS
  c1 = c1
  c2 = c2
  c3 = c3
  s1 = s1
  s2 = s2
  u1 = u1
  u2 = u2
  g1 = g1
  User = {u1, u2}
  Conn = {c1, c2}
  Server = {s1, s2}
  Group = {}
  CrashHosts = {s1}
  StopHosts = {}
  ClientOf <- MCPair
  GroupSet <- MCGroupSet
  MaxMsg = 2
  Keep = 0
  Nobody = Nobody
  None = None

SPECIFICATION PeerSpec

INVARIANTS
  LiveOrder
  UnreadBound

PROPERTY LostKnownWays

SYMMETRY PairSymmetry

ACTION_CONSTRAINT OneLate
