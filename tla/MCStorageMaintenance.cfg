SPECIFICATION MCSpec
CONSTANTS
  t1 = t1
  t2 = t2
  b1 = b1
  b2 = b2
  p = p
  Files = {t1, t2, b1, b2, p}
  Category <- MCCategory
  Rank <- MCRank
  Actors = {download}
  ThumbnailLimit = 1
  ThumbnailTarget = 1
  BackupKeep = 1
  JournalBackup = {b1}
  InitialFiles <- MCInitial
INVARIANTS
  MaintenanceIsExclusive
PROPERTIES
  RemovedAsListed
  CleansInTheEnd
CHECK_DEADLOCK FALSE
