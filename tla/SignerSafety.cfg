CONSTANTS
  Instance = {1, 2}
  Worker = {11, 21}
  Home <- WorkerHome
  Bunker = {b1}
  Team = {}
  Client = {c1, c2}
  Req = {r1, r2}
  Methods = {"encrypt", "connect"}
  Call = {a1, a2}
  Ops = {"revoke", "disconnect"}
  QueueCap = 2
  ChannelCap = 1
  Foreign = FALSE
  FaultKinds = {"abandon"}
  MaxFaults = 1
  b1 = b1
  c1 = c1
  c2 = c2
  r1 = r1
  r2 = r2
  a1 = a1
  a2 = a2
SPECIFICATION Spec
INVARIANTS TypeOK NoAnswerAfterEnd UncontestedClient
SYMMETRY Interchangeable
CHECK_DEADLOCK FALSE
