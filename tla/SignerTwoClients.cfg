CONSTANTS
  Instance = {1}
  Worker = {11, 12}
  Home <- WorkerHome
  Bunker = {b1}
  Team = {}
  Client = {c1, c2}
  Req = {r1, r2}
  Methods = {"sign_event", "connect"}
  Call = {a1}
  Ops = {"disconnect"}
  QueueCap = 2
  ChannelCap = 1
  Foreign = FALSE
  FaultKinds = {}
  MaxFaults = 0
  b1 = b1
  c1 = c1
  c2 = c2
  r1 = r1
  r2 = r2
  a1 = a1
SPECIFICATION Spec
INVARIANT OneClient
SYMMETRY Interchangeable
CHECK_DEADLOCK FALSE
