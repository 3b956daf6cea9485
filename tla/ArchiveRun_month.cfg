SPECIFICATION FairSpec
CONSTANTS
  Clip <- MCClip
  Day <- MCDay
  DayOf <- MCDayOf
  MaxVer = 1
  NoFile = NoFile
  MaxFaults = 3
  FaultKinds = {"crash", "io", "db", "purge"}
  Behaviours = {"backfill", "explicit_target", "restore"}
INVARIANTS NothingLost CheckpointsDescribePartial
PROPERTIES ImplementsFootageSafe RestoredIsLive EventuallyArchived
CHECK_DEADLOCK FALSE
