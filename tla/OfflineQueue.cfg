SPECIFICATION FairSpec
CONSTANTS
  Visits = {v1}
  MaxCrashes = 1
INVARIANT SyncedIsRecorded
PROPERTIES
  LeavesOnceRecorded
  SyncEnds
  AutoSyncOnReturn
