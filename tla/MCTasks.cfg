SPECIFICATION MCSpec
CONSTANTS
  Tasks <- OneTask
  Size <- TwoFiles
  Limit = 1
  Attempts = 2
  Waits = FALSE
  FullDisk = FALSE
  Maintenance = FALSE
  Integrity = TRUE
  Faults = FALSE
  WasPaused = FALSE
  MaxCalls = 4
  MaxFlips = 0
  MaxStops = 0
  Shown = {1, 2}
  Viewers = {"one", "other"}
  MaxChanges = 2
  MaxEvents = 1
  Newest = 4
  Found <- MCFound
  Hits <- MCHits
  Albums <- MCAlbums
  PageSize = 2
  OpLimit = 2
  Limits = {2, 5}
  MaxSearches = 2
  MaxFaults = 1
  MaxTicks = 1
INVARIANTS
  RepairServed
  SearchIsExact
PROPERTIES
  PageKeepsUp
  SelectionSurvives
  SearchEnds
CHECK_DEADLOCK FALSE
