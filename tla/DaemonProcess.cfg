CONSTANTS
  d1 = d1
  d2 = d2
  d3 = d3
  m1 = m1
  m2 = m2
  none = none
  Process <- MCProcess
  Message <- MCMessage
  Malformed <- MCMalformed
  NoPid <- none
SPECIFICATION FairSpec
INVARIANTS
  ServingIsKnown
PROPERTIES
  OnlyMalformedKills
  EveryMessageEnds
CHECK_DEADLOCK FALSE
