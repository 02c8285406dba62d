SPECIFICATION Spec
CONSTANTS
  PageSize = 2
  First = 4
  MaxVideo = 5
  MaxRead = 6
INVARIANT NewPagesAreNew
CHECK_DEADLOCK FALSE
