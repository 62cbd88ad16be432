CONSTANTS
  MaxTasks = 1
  FailuresToAct = 2
SPECIFICATION FairSpec
PROPERTIES
  ReservationRetried
