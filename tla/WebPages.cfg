CONSTANTS
  Contact = {p1}
  Site = {r1, r2}
  AtFirst = {p1}
  TheirLists = {{}}
  DivineRelay = FALSE
  FollowLists = 3
  Reloads = 1
  p1 = p1
  r1 = r1
  r2 = r2
  OwnList = {l1}
  Clip = {x1, x2}
  ListOps = 2
  Seconds = 3
  Refs = 1
  Taps = 2
  Sources = 2
  Editions = 2
  Loads = 5
  Longest = 2
  Presses = 3
  Requests = 3
  Jobs = {1, 2}
  WatchGap = 3
  WatchTime = 6
  Persons = {"u", "v"}
  Attempts = 2
  SearchVideos = 3
  SearchPage = 2
  SearchActs = 2
  SearchReads = 3
  FollowerPage = 2
  Followers = 4
  ProfileActs = 5
  FeedLimit = 2
  FeedEvents = 3
  FeedActs = 2
  FirstCards = 1
  MoreCards = 1
  CardsAround = 1
  VideoHistory = 4
  TabActs = 4
  MuteChanges = 3
  Clicks = 2
  OwnComments = 2
  NotePage = 2
  Notes = 3
  NoteMarks = 1
  NoteReads = 2
  WatchRelay = {1, 2}
  Copies = 4
  WatchClicks = 1
  BoardActs = 2
  l1 = l1
  x1 = x1
  x2 = x2
SPECIFICATION Spec
INVARIANTS TypeOK SettledShown DeletedStaysOut CalmScreenIsTrue OneVideoPlays PagesAreWhole ShowsWhatIsAsked RecordingFits NoSecondTwice DialogIsUsable
PROPERTIES ShownStaysCurrent
CHECK_DEADLOCK FALSE
