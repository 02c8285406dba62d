CONSTANTS
  Instance = {1, 2, 3}
  Observed = {1}
  Key = {0}
  Bucket <- SmallBucket
  HeartbeatTicks = 1
  SyncTicks = 2
  StaleTicks = 2
  MultiThreaded = TRUE
  Prompt = TRUE
  FaultKinds = {}
  MaxFaults = 0
  ManualOps = {}
  MaxManual = 0
SPECIFICATION FairSpec
PROPERTY RingsConverge
CHECK_DEADLOCK FALSE
