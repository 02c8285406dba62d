CONSTANTS
  Instance = {1, 2}
  Observed = {1}
  Key = {0}
  Bucket <- SmallBucket
  HeartbeatTicks = 1
  SyncTicks = 2
  StaleTicks = 2
  MultiThreaded = TRUE
  Prompt = TRUE
  FaultKinds = {"crash", "exit", "heartbeat", "sync", "pubsub", "publish", "deregister"}
  MaxFaults = 1
  ManualOps = {"force", "refresh"}
  MaxManual = 1
SPECIFICATION FairSpec
PROPERTIES SyncViewConverges SyncRepairs
CHECK_DEADLOCK FALSE
