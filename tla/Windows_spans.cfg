SPECIFICATION WindowsSpec
CONSTANTS
  e1 = e1
  e2 = e2
  e3 = e3
  Event = {e1, e2, e3}
  At <- MCAt
  Times <- MCTimes
  Setup <- MCSetup
INVARIANTS WindowsTypeOK ArchivedIsNotMissing
PROPERTIES StrandedOnlyInGap UnwarnedLossIsLate
CHECK_DEADLOCK FALSE
