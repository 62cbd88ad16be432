SPECIFICATION Spec
CONSTANTS
  Initiator = initiator
  Responder = responder
  Capacities <- MCCapacities
  Amounts = {0, 1}
  MinCapacity = 2
  MaxCapacity = 3
  Dust = 1
  SequenceStart = 10
  MaxSeq = 3
  Id <- MCId
  MaxAge = 1
  MaxFuture = 0
  Retention = 1
  Skew <- MCSkew
  MaxTime = 2
INVARIANTS
  TypeOK
  NobodyLoses
  ChainPaysDue
  LatestWaits
  NoReplay
