CONSTANTS
  u1 = u1
  u2 = u2
  b1 = b1
  b2 = b2
  User <- MCUser
  Browser <- MCBrowser
  MaxRequests = 3
  AtOnce = 2
  MaxAges = 2
  Ranges = 2
  None = None

SPECIFICATION SessionSpec

SYMMETRY MCSymmetry

ACTION_CONSTRAINT LastReads

INVARIANTS
  SessionTypeOK
  CookieFollowsStore
  LogoutHolds
  IdsApart
  RegistrationLasts
  AnsweredOnce

PROPERTY RevivedOnlyByRace

CHECK_DEADLOCK FALSE
