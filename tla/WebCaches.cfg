CONSTANTS
  Contact = {p1}
  Site = {r1, r2}
  AtFirst = {p1}
  TheirLists = {{}}
  DivineRelay = FALSE
  Muted = {a, b}
  p1 = p1
  r1 = r1
  r2 = r2
  a = a
  b = b
SPECIFICATION Spec
PROPERTIES FollowListCatchesUp FilterCatchesUp FeedSettles
CHECK_DEADLOCK FALSE
