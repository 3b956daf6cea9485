SPECIFICATION Spec
CONSTANTS
  MaxEvents = 3
  End = 6
  Configs <- MCConfigs
  Never = Never
  MaxFaults = 1
  FaultKinds = {"crash", "db", "docker", "lost_reply", "sync"}
INVARIANTS TypeOK HastyOnlyByFault StallIsCured
CHECK_DEADLOCK FALSE
