CONSTANTS
  r1 = r1
  r2 = r2
  p1 = p1
  Requests <- MCRequests
  Peers <- MCPeers
  Target <- MCTarget
  Limit <- MCLimit
  Window <- MCWindow
  MaxAnswers = 2
SPECIFICATION FairSpec
INVARIANTS
  EntryMatchesPromise
  OnlyOrphansKill
PROPERTIES
  ImplementsRequestReply
  EveryRequestSettles
CHECK_DEADLOCK FALSE
