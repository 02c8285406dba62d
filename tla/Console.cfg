CONSTANTS
  Visitors = {"u", "v"}
  VisitorActs = 2
  Passwords = {"p", "q"}
  Changes = 5
  LoginTabs = {"t1", "t2"}
  LoginFlows = 2
  LoginTokens = 2
  SignersMade = 3
  SignerActs = 5
  PolicyTexts = 2
  PolicyPermissions = 2
  ProfileLimit = 2
  ProfileVersions = 3
  ProfileUploads = 1
  ProfileActs = 2
  ItemActs = 3
  LoadsKept = 3
  LoadsTold = 4
  LoadTicks = 3
  SupportPersons = {"p", "q"}
  Imported = {"u", "v", "w"}
  Unclaimed = {"u", "v"}
  AdminActs = 4
  TeamThings = 3
  TeamActs = 6
  ReportsKept = 1
  ReportsMade = 2
  CrawlEvents = 3
  CrawlBatch = 2
  CrawlLimit = 2
  CrawlPosts = 1
  CrawlStarts = 2
  PageAge = 1
  AnswerAge = 1
  EdgeTicks = 1
  NameChanges = 1
  EdgeAsks = 2
  Deployments = 2
  FileAsks = 2
SPECIFICATION Spec
INVARIANTS TypeOK UserIsSession PageIsServers UnlockedIsCurrent SecretIsShownOnce SavedIsTheForms SessionIsLive SaidIsDone KeptIsCurrent ListsAreRead CardIsAsChosen
CHECK_DEADLOCK FALSE
