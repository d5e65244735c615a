CONSTANTS
  k1 = k1
  k2 = k2
  k3 = k3
  u1 = u1
  u2 = u2
  g1 = g1
  User = {u1, u2}
  Group = {g1}
  Sock = {k1, k2, k3}
  Loaded = {k1, k2}
  UserOf <- MCUserOf
  GroupSet <- MCGroupSet
  Remote = {u1}
  Here = here
  There = there
  MaxMoves = 2
  MayCrash = TRUE
  Keep = 0
  Request = {r1}
  None = None

SPECIFICATION UnreadSpec

SYMMETRY MCSymmetry

ACTION_CONSTRAINTS
  SenderStays
  EarlyOrLate

INVARIANTS
  UnreadTypeOK
  MapNamesOpenSocket
  PresenceSettles
  LiveInOrder
  GroupReached
  PeerLostKnownWays

PROPERTIES
  ImplementsDelivery
  WorkShrinks

CHECK_DEADLOCK FALSE
