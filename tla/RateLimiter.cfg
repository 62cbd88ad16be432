CONSTANTS
  Key <- MCKey
  Sized <- MCSized
  Limit <- MCLimit
  Window <- MCWindow
  RejectOnLimit = TRUE
  MaxViolations = 2
SPECIFICATION HistorySpec
INVARIANTS
  TypeOK
  AtMostTwiceTheLimit
PROPERTIES
  ImplementsGate
  BlockedPeerRecovers
