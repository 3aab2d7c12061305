CONSTANTS
  RowIds = {1, 2, 3}
  TimeOf <- TimeOfDef
  PageReaders = {"r1"}
  Limits = {1, 2}
  Cursors = {99}
  MaxPages = 2
  MaxTasks = 1
  ValueReaders = {"r1", "r2"}
  MaxCommits = 3
  Slots = {1, 2, 3}
  Savers = {"r1", "r2"}
  Retention = 2
  CleanupInterval = 2
  MaxRows = 2
  KeepRows = 1
  MaxSnapClock = 4
  MaxSnapId = 3
  Letters = 3
  IndexOf <- IndexOfDef
  StandReaders = {"r1", "r2"}
  ContestEnd = 3
  ShortTTL = 1
  Grace = 3
  FetchTime = 1
  MaxStandClock = 10
  CrawlPlatforms = {"CodeForces", "LuoGu", "QOJ", "NowCoder", "AtCoder"}
  CrawlPage = 2
  MaxSubs = 3
  MaxCrawlClock = 3
  RecentWindow = 1
  MaxPageAttempts = 2
  ContestStart = 2
  ContestStop = 3
  SessionUsers = {"r1", "r2"}
  MaxLogins = 3
  SumUsers = {1}
  SumRoles = {0, 1, 2}
  Mondays = {TRUE, FALSE}
  TaskTypes = {"PersonalLastDay", "PersonalRecent", "bad"}
  Runners = {"g1", "g2"}
  Prefetch = 2
  MaxTasksSent = 2
  MaxCalls = 1
  MaxLosses = 1
  MaxToggles = 1
  ListPage = 2
  MaxListed = 5
  MaxGone = 2
  Editors = {"r1", "r2"}
  EditorRoles = {0, 1, 2}
  Drafts <- DraftsDef
  Revisions <- RevisionsDef
  BoardPage = 1
  MaxBulletins = 3
  MaxEdits = 2
SPECIFICATION MCSpec
INVARIANT AdminsMayPublish
CHECK_DEADLOCK FALSE
