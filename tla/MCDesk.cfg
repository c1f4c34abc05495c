SPECIFICATION MCSpec
CONSTANTS
  a1 = a1
  a2 = a2
  b1 = b1
  n1 = n1
  taskA = taskA
  taskB = taskB
  NoKey = NoKey
  MaxLimit = 3
  Callers <- MCCallers
  Key <- MCKey
  Gateways = {1, 2, 3}
  Accounts = {"old", "new"}
  MaxActive = 1
  Events = {"cancel", "revoke", "drop"}
  MaxGeneration = 6
  MaxRuns = 2
  Trouble = {"answers", "decline", "busy", "space", "content", "network", "range", "locked", "helper"}
  MaxKills = 1
  Tasks = {a, b}
  Posts <- ThreePosts
  Lines <- FiveLines
  MaxBatchMedia = 2
  MaxPlans = 2
  MaxFaults = 2
  Overlap = FALSE
  MaxBroken = 1
  Window = 2
  MaxEvents = 2
  MaxAlive = 3
  Days = 3
  Minutes = 3
  OldFiles <- OldList
  NewFiles <- NewList
  Exe = "exe"
  Windows = {}
  MaxStops = 3
  MaxFailures = 3
INVARIANTS
  TypesOK
  PermitsInOrder
  SwitchCutsNothing
  Coherent
  QrIsCurrent
  ReportsAreRight
  ResumesItsOwn
  MediaApart
  AppliedOrUndone
  AppInReach
  ActionsAreKnown
  FollowsTheWeek
  RuntimeIsWhole
PROPERTIES
  WaitEnds
  ConfirmedIsQueued
  EventsAreGiven
CHECK_DEADLOCK FALSE
