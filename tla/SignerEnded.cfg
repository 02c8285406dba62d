CONSTANTS
  Instance = {1}
  Worker = {11, 12}
  Home <- WorkerHome
  Bunker = {b1, b2}
  Team = {b2}
  Client = {c1}
  Req = {r1, r2}
  Methods = {"sign_event", "get_public_key"}
  Call = {a1, a2}
  Ops = {"create", "revoke", "delete_account", "delete_team", "expire"}
  QueueCap = 1
  ChannelCap = 1
  Foreign = FALSE
  FaultKinds = {"load", "abandon", "restart"}
  MaxFaults = 1
  b1 = b1
  b2 = b2
  c1 = c1
  r1 = r1
  r2 = r2
  a1 = a1
  a2 = a2
SPECIFICATION Spec
INVARIANTS RemovedStays NoSignAfterDelete
SYMMETRY Interchangeable
CHECK_DEADLOCK FALSE
