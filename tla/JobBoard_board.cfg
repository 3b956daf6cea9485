SPECIFICATION BoardSpec
CONSTANTS
  Run = {r1, r2}
  NoRun = NoRun
  Nothing = Nothing
  Capacity = 2
  MaxProgress = 1
  MaxFaults = 1
  MaxStops = 1
  FaultKinds = {"crash", "db", "list", "cancel"}
SYMMETRY Requests
INVARIANTS PageAgrees InterruptedOnlyByForce
CHECK_DEADLOCK FALSE
