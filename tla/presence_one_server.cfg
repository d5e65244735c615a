CONSTANTS
  c1 = c1
  c2 = c2
  c3 = c3
  d1 = d1
  d2 = d2
  d3 = d3
  s1 = s1
  s2 = s2
  u1 = u1
  nobody = nobody
  g1 = g1
  User = {u1, nobody}
  Conn = {c1, c2, c3}
  Dialog = {d1, d2, d3}
  Server = {s1, s2}
  Group = {}
  CrashHosts = {s1}
  StopHosts = {s1, s2}
  ClientOf <- MCClientOf
  GroupSet <- MCGroupSet
  UserName <- MCUserName
  Nobody = nobody
  Nowhere = Nowhere
  MaxAsk = 3
  None = None

SPECIFICATION LoginSpec

INVARIANTS
  LoginTypeOK
  ExclusiveSession
  StopFindsItsEntry
  BudgetKept
  LoginsRecorded

SYMMETRY Symmetry

ACTION_CONSTRAINTS
  OneServer
  FewFailures
  NamelessFirst
