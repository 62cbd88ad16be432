CONSTANTS
  Peer = {moneo, p1}
  Moneo = moneo
  Debounce = 1
  MaxChanges = 1
SPECIFICATION FairSpec
INVARIANTS
  SavedUnlessPending
  OnlineIsCurrent
  ConnectedIsOnline
PROPERTIES
  QuietIsSaved
