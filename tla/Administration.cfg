SPECIFICATION ManagementSpec
CONSTANTS
  \* Accounts
  Users = {u1, u2}
  Founder = u1
  DemoUsers = {}
  Calls = {s1, s2}
  Browsers = {b1, b2}
  NoUser = NoUser
  Bodies <- SingleChanges
  MaxCalls = 3
  MaxClock = 2
  \* LoginThrottle
  Emails = {e1}
  Sources = {home, unknown}
  UnknownSource = unknown
  Attempts = {s1, s2}
  NoAttempt = NoAttempt
  AccountLimit = 3
  SourceLimit = 3
  PairLimit = 2
  MaxDoublings = 1
  MaxLockout = 2
  RecordTtl = 2
  MaxTime = 4
  \* SignInPolicy
  Admins = {x1, x2}
  WithPassword = {x1}
  Entra = entra
  FirstOption = google
  Options = {entra, google, okta}
  Issuers = {i1, i2}
  i1 = i1
  i2 = i2
  FirstConfig <- MCFirstConfig
  Tasks = {s1, s2}
  Nothing = Nothing
  MaxTasks = 3
  \* Installation
  Installs = {s1, s2}
  Openers = {b1, b2}
  Origins = {o1, o2}
  NotThere = NotThere
  Malformed = Malformed
  MaxMinted = 3
  MaxMishaps = 2
  \* UserPages
  UserCalls = {s1, s2}
  UserQueues = {p1, p2}
  NoUserCall = Nothing
  MaxUserChanges = 3
  \* DepartmentPages
  d1 = d1
  d2 = d2
  deputy = deputy
  Depts = {d1, d2}
  Deputies = {deputy}
  DeptForms = {f1}
  FirstDepts <- MCFirstDepts
  NoDept = Nothing
  MaxDeptChanges = 3
  Kinds = {k1}
  KindQueues = {d1, d2}
  HomeQueue = d1
  KindForms = {f1}
  Filings = {s1, s2}
  NoKind = Nothing
  MaxKindChanges = 4
  \* ApiClients
  ApiCalls = {s1, s2}
  ApiQueues = {d1}
  NoApi = Nothing
  MaxApiCalls = 3
  \* HelpCentre
  Articles = {a1, a2}
  Collections = {h1}
  FirstArticle = a1
  FirstCollection = h1
  NoHelp = Nothing
  MaxHelpChanges = 3
  \* Presence
  Views = {s1, s2}
  Nobody = Nothing
  Beat = 2
  Fade = 4
  Sweep = 7
  MaxMoments = 9
  MaxVisits = 2
  MaxLost = 1
SYMMETRY Symmetry
INVARIANTS ManagementTypeOK SuperAdminRemains SignInStands InstallationStands PagesAreTruthful
PROPERTIES AccessIsNotUndone ChangesAreAsMeant
\* Clients may stop calling.
CHECK_DEADLOCK FALSE
