SPECIFICATION SetupSpec
CONSTANTS
  Deployment <- Deployments
  Place <- Places
  Backup <- backup
  Data <- data
  Camera = {"front", "back"}
  NoPath = NoPath
  MaxRows = 2
INVARIANTS SetupTypeOK ConfirmedIsRight
PROPERTY SyncFindsClips
CHECK_DEADLOCK FALSE
