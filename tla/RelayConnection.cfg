CONSTANTS
  MaxTasks = 1
  FailuresToAct = 2
SPECIFICATION FairSpec
INVARIANTS
  RecoveryExclusive
PROPERTIES
  ReservationPursued
  ReconnectsWhileReachable
  DropIsRepaired
  UnhealthyKeepsRecovering
