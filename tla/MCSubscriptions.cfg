SPECIFICATION FairSpec
CONSTANTS
  Rules = {r1, r2}
  Matchers = {1, 2}
  Media = {"x", "y", "z"}
  Hits <- MCHits
  WithHistory = {r1}
  Old = 0
  PageLimit = 1
  InitialPosts = 1
  MaxPosts = 2
  MaxUser = 3
  MaxFaults = 1
INVARIANTS
  QueuedOnce
  NothingMissed
PROPERTIES
  CaughtUp
CHECK_DEADLOCK FALSE
