SPECIFICATION Spec
CONSTANTS
  Clip <- MCClip
  Day <- MCDay
  DayOf <- MCDayOf
  MaxVer = 2
  NoFile = NoFile
  MaxFaults = 2
  FaultKinds = {"crash", "io", "db", "purge"}
  Behaviours = {"backfill", "write_during_job", "rewrite", "explicit_target", "restore"}
INVARIANTS RemovalJustified
PROPERTIES RecordedTarStays LossIsLateWrite
CHECK_DEADLOCK FALSE
