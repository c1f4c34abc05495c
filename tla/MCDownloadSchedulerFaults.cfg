CONSTANTS
  Tasks <- TwoTasks
  Size <- OneEach
  Limit = 1
  Attempts = 2
  Waits = TRUE
  FullDisk = FALSE
  Maintenance = TRUE
  Integrity = FALSE
  Faults = TRUE
  WasPaused = FALSE
  MaxCalls = 1
  MaxFlips = 1
  MaxStops = 1
SPECIFICATION FairSpec
INVARIANTS
  NoZombie
  CompletedMeansAll
PROPERTIES
  PauseStops
  EndsInTime
CHECK_DEADLOCK FALSE
