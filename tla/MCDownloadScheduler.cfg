SPECIFICATION Spec
CONSTANTS
  Tasks <- TwoTasks
  Size <- OneEach
  Limit = 1
  Attempts = 2
  Waits = TRUE
  FullDisk = TRUE
  Maintenance = FALSE
  Integrity = FALSE
  Faults = FALSE
  WasPaused = TRUE
  MaxCalls = 2
  MaxFlips = 1
  MaxStops = 1
INVARIANTS
  QueuedIsServed
PROPERTIES
  ClosedStartsNothing
CHECK_DEADLOCK FALSE
