SPECIFICATION Spec
CONSTANTS
  c1 = c1
  c2 = c2
  w1 = w1
  w2 = w2
  s1 = s1
  s2 = s2
  Client = {c1, c2}
  Global = Global
  Worker = {w1, w2}
  Token = {s1, s2}
  Free = 1
  GlobalFree = 2
  Base = 2
  MaxDelay = 4
  GlobalMax = 3
  ForgetAfter = 6
  MaxVerify = 1
  Ttl = 3
  Plan <- MCPlan
  End = 10
  MaxFaults = 1
  FaultKinds = {"crash", "db", "lost"}
SYMMETRY MCSymmetry
INVARIANTS Rationed NoiseCostsLittle SessionsStand
PROPERTIES BlockStands
CHECK_DEADLOCK FALSE
