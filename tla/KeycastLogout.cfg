CONSTANTS
  Tab = {"t1", "t2"}
  MaxFlow = 2
  MaxToken = 3
SPECIFICATION Spec
PROPERTY LogoutIsFinal
CHECK_DEADLOCK FALSE
