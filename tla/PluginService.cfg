CONSTANTS
  MaxStarts = 2
  MaxRestartAttempts = 1
  Object <- MCObject
  Caller <- MCCaller
SPECIFICATION FairPluginSpec
INVARIANTS
  OneNode
  StoppedLeavesLimiters
  NodesCounted
PROPERTIES
  EveryStartEnds
CHECK_DEADLOCK FALSE
