SPECIFICATION FairSpec
CONSTANTS
  r1 = r1
  r2 = r2
  r3 = r3
  c1 = c1
  c2 = c2
  c3 = c3
  name = name
  Request = {r1, r2, r3}
  Clip = {c1, c2, c3}
  FileName = {c1, name}
  SafeName <- MCSafeName
  Playable = {c3}
  Sync = {s1}
  NoFile = NoFile
  Stored <- MCStored
  Wanted <- MCWanted
  Permits = 2
  MaxMoves = 1
  MaxFaults = 1
  FaultKinds = {"crash", "cancel", "probe", "encode", "io", "db"}
INVARIANTS TornOnlyByDoubling LiveClipIsServed
PROPERTIES EveryRequestAnswered CacheDrains
CHECK_DEADLOCK FALSE
