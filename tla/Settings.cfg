SPECIFICATION SettingsSpec
CONSTANTS
  \* TicketCreation
  None = None
  Requests = {r1, r2}
  Keys = {k1}
  Files = {f1, f2}
  Departments = {d1}
  LastYear = 1
  MaxFaults = 1
  \* SettingsCards
  SmtpKeys = {"from"}
  PemKeys = {"pem"}
  ProviderKeys = {"secret"}
  ButtonKeys = {}
  EmailKeys = {"mail"}
  LoginKeys = {}
  FlagKeys = {}
  MayBeEmpty = {"from"}
  WriteOnly = {"secret"}
  Removable = {"pem", "secret"}
  Phrase = {"a"}
  MaxTyped = 2
  MaxSaves = 2
  MaxOthers = 1
  \* ManagedEnv
  Savers = {r1, r2}
  MaxSaved = 3
  MaxCrashed = 1
  MaxEnvFaults = 1
  \* Branding
  Brandings = {r1, r2}
  Images = {f1, f2}
  MaxBrandChanges = 2
  MaxBrandEdits = 1
  \* Mail
  MailCalls = {r1, r2}
  MaxMailCalls = 3
  Sends = {r1, r2}
  Recipients = {f1, f2}
  Apps = {d1, d2}
  MaxTokens = 2
  MaxTurns = 1
  \* QuickLinks
  LinkPages = {r1, r2}
  Icons = {"i1"}
  Titles = {f1, f2}
  MaxLinks = 2
  MaxLinkChanges = 3
  MaxLinkSaves = 2
  \* ExternalApi
  w1 = w1
  w2 = w2
  q1 = q1
  q2 = q2
  ExtCalls = {r1, r2}
  Reach <- MCReach
  ExtOps = {"create", "note", "signed"}
  ExtQueues = {q1, q2}
  NoExt = None
  Limit = 1
  Window = 2
  LastInstant = 2
  MaxExtCalls = 3
  MaxExtChanges = 1
  \* StoredSecrets
  Tasks = {r1, r2}
  NoTask = None
  MaxSecrets = 2
  MaxKeys = 3
  MaxTasks = 3
  \* Tags
  TagIds = {g1}
  TagQueues = {q1, q2}
  Topics = {c1}
  TagCalls = {r1, r2}
  NoTag = None
  MaxTagChanges = 2
  \* UpdateChecks
  Checks = {r1, r2}
  Tabs = {f1, f2}
  NoCheck = None
  Minute = 3
  Day = 3
  Longest = 1
  MaxRelease = 1
  MaxTicks = 3
  MaxClicks = 2
SYMMETRY Symmetry
INVARIANTS SettingsTypeOK CreationIsSound SettingsAreSound
PROPERTIES SavesChangeWhatWasAsked PagesKeepEdits
\* Clients may stop calling, and every upload is used or removed.
CHECK_DEADLOCK FALSE
