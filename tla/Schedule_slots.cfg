SPECIFICATION FairSpec
CONSTANTS
  Moment <- MCMoment
  Submitted <- MCSubmitted
  Never = Never
  MaxFaults = 1
  FaultKinds = {"crash", "db"}
  Behaviours = {"edit", "user_job", "nothing_due"}
INVARIANTS OneAttemptPerSlot ShownSlotComes
PROPERTIES SlotIsCaughtUp
CHECK_DEADLOCK FALSE
