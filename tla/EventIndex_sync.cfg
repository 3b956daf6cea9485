SPECIFICATION FairSpec
CONSTANTS
  e1 = e1
  k1 = k1
  k2 = k2
  Event = {e1}
  Container = {k1, k2}
  NoContainer = NoContainer
  Task = {t1, t2}
  Loop = t1
  Start <- MCStart
  MaxSaves = 1
  MaxMoves = 1
  MaxFaults = 1
  FaultKinds = {"crash", "db", "docker", "upstream"}
INVARIANTS SaveStandsUnlessRaced PickStands
PROPERTIES IndexCatchesUp
CHECK_DEADLOCK FALSE
