SPECIFICATION ReputationSpec
CONSTANTS
  Peer = {p1}
  Deltas <- MCDeltas
  Penalty <- MCPenalty
  InitialScore = 2
  MinScore <- MCMinScore
  MaxScore = 5
  RateLimitThreshold = 0
  BlacklistThreshold <- MCBlacklistThreshold
  Neutral = 2
  DecayRate = 2
  Hour = 2
  BlacklistDuration = 4
  MaxConnections = 2
  MaxLinks = 4
  MaxManual = 2
INVARIANTS
  ConnectionsBounded
  OnlyExpiredEscape
PROPERTIES
  BlacklistEnds
