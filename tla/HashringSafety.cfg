CONSTANTS
  Instance = {1, 2}
  Observed = {1, 2}
  Key = {0}
  Bucket <- SmallBucket
  HeartbeatTicks = 1
  SyncTicks = 2
  StaleTicks = 2
  MultiThreaded = FALSE
  Prompt = FALSE
  FaultKinds = {"crash", "exit", "heartbeat", "sync", "pubsub", "publish", "deregister"}
  MaxFaults = 1
  ManualOps = {}
  MaxManual = 0
SPECIFICATION Spec
INVARIANTS TypeOK NoResurrection HealthyIsActive SyncedPeersStay
CHECK_DEADLOCK FALSE
