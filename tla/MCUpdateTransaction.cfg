SPECIFICATION Spec
CONSTANTS
  OldFiles <- OldList
  NewFiles <- NewList
  Exe = "exe"
  Windows = {"user"}
  MaxStops = 0
  MaxFaults = 0
INVARIANTS
  UserFilesKept
CHECK_DEADLOCK FALSE
