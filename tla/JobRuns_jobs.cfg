SPECIFICATION FairSpec
CONSTANTS
  Run = {r1, r2}
  NoRun = NoRun
  Capacity = 2
  MaxProgress = 1
  MaxFaults = 2
  FaultKinds = {"crash", "db", "list", "cancel"}
INVARIANTS OneJobAtATime RunningHasJob ToldIsRecorded AlarmIsTrue
PROPERTIES VerdictStands RowsSettle
CHECK_DEADLOCK FALSE
