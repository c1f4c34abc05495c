SPECIFICATION MCSpec
CONSTANTS
  N = 2
  Attempts = 2
  MaxTouches = 2
  MaxStops = 1
  i1 = i1
  i2 = i2
  Manager = Manager
  Worker = Worker
  Closer = Closer
  Items <- MCItems
  MaxUpdates <- MCUpdates
INVARIANTS
  FileIsSound
  UpdatesAreKept
PROPERTIES
  NothingLost
  FileSettles
  ImplementsStore
  EverythingEnds
CHECK_DEADLOCK FALSE
