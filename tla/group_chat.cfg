CONSTANTS
  c1 = c1
  c2 = c2
  c3 = c3
  s1 = s1
  s2 = s2
  s3 = s3
  u1 = u1
  u2 = u2
  u3 = u3
  User = {u1, u2, u3}
  Conn = {c1, c2, c3}
  Server = {s1, s2, s3}
  g1 = g1
  Group = {g1}
  CrashHosts = {s3}
  StopHosts = {s3}
  ClientOf <- MCClientOf
  GroupSet <- MCGroupSet
  Bucket <- MCBucket
  MaxMsg = 1
  Keep = 0
  Nobody = Nobody
  None = None

SPECIFICATION GroupSpec

INVARIANTS
  GroupTypeOK
  MembersReached
  ReachedOnce

SYMMETRY Symmetry

ACTION_CONSTRAINTS
  LoginsFirst
  OneLate
  TwoHangUp
