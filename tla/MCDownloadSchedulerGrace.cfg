SPECIFICATION Spec
CONSTANTS
  Tasks <- OneTask
  Size <- OneFile
  Limit = 1
  Attempts = 1
  Waits = FALSE
  FullDisk = FALSE
  Maintenance = FALSE
  Integrity = FALSE
  Faults = FALSE
  WasPaused = FALSE
  MaxCalls = 1
  MaxFlips = 0
  MaxStops = 1
INVARIANTS
  FinalStateStands
CHECK_DEADLOCK FALSE
