CONSTANTS
  Service = {s1}
  Terms = {t1}
  NotOffered = NotOffered
  AnnounceEvery = 2
  StaleAfter = 6
  CleanupEvery = 1
  MaxDelay = 1
  Skews <- MCSkews
  MaxInFlight = 2
SPECIFICATION FairSpec
INVARIANTS
  CacheFollowsMap
  LivePeerListed
PROPERTIES
  GoneIsForgotten
  ServicesSpread
