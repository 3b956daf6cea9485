SPECIFICATION Spec
CONSTANTS
  Clip <- MCClip
  Day <- MCDay
  DayOf <- MCDayOf
  MaxVer = 1
  NoFile = NoFile
  MaxFaults = 0
  FaultKinds = {}
  Behaviours = {"write_during_job", "backfill"}
INVARIANTS NothingLost
CHECK_DEADLOCK FALSE
