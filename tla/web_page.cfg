CONSTANTS
  u1 = u1
  u2 = u2
  g1 = g1
  Peer <- MCPeer
  Group <- MCGroup
  MaxMsgs = 3
  MaxAsked = 3
  None = None

SPECIFICATION PageSpec

SYMMETRY MCSymmetry

INVARIANTS
  PageTypeOK
  OneShown
  TabsMatchSections
  LogComplete
  MembersOnce

CHECK_DEADLOCK FALSE
