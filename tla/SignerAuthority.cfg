CONSTANTS
  Instance = {1}
  Worker = {11, 12}
  Home <- WorkerHome
  Bunker = {b1}
  Team = {}
  Client = {c1, c2}
  Req = {r1, r2}
  Methods = {"sign_event"}
  Call = {a1, a2}
  Ops = {"revoke", "reauth", "disconnect", "change_key"}
  QueueCap = 1
  ChannelCap = 1
  Foreign = TRUE
  FaultKinds = {}
  MaxFaults = 0
  b1 = b1
  c1 = c1
  c2 = c2
  r1 = r1
  r2 = r2
  a1 = a1
  a2 = a2
SPECIFICATION FairSpec
INVARIANT NoAnswerAfterEnd
PROPERTY LateRequestsGetErrors ImplementsAuthority
CHECK_DEADLOCK FALSE
