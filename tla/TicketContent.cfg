SPECIFICATION MCSpec
CONSTANTS
  None = None
  Absent = None
  NoFile = None
  Missing = None
  requester = requester
  agent = agent
  admin = admin
  Users = {requester, agent, admin}
  Role <- MCRole
  Texts = {t1, t2}
  FirstText = t0
  Requests = {r1, r2}
  MaxWrites = 3
  large = large
  Files = {x1, x2, large}
  Size <- MCSize
  Tickets = {ticket1, ticket2}
  Creating = {ticket2}
  MaxFileBytes = 2
  MaxFilesPerTicket = 2
  MaxBytesPerTicket = 2
  GlobalMaxBytes = 3
  MaxFilesPerUser = 2
  MaxBytesPerUser = 3
  MaxAccidents = 2
  Legacy = {a1, a2}
  PublicRoots = {p1, p2}
  Bytes0 = {y1, y2}
  Partial = Partial
  MaxStarts = 2
  Forms = {system, form1}
  SystemDefault = system
  Departments = {y1, y2}
  Categories = {c1}
  FieldKeys = {x1, x2}
  Jobs = {r1, r2}
  Submissions = {s1}
  MaxChanges = 3
  \* FormSubmission
  Routes = {ra, rb}
  ra = ra
  rb = rb
  k1 = k1
  k2 = k2
  k3 = k3
  KeyCount = 3
  KeyOrder <- MCKeyOrder
  Versions = {1, 2, 3}
  Layout <- MCLayout
  Viewers = {"USER", "AGENT"}
  Filer = "USER"
  Words = {"yes"}
  Upfile = "file"
  Nil = None
  MaxRequests = 2
  MaxUploads = 1
SYMMETRY Symmetry
INVARIANTS
  ContentTypeOK QuotasHold FilesAreSafe SnapshotsAreWhole
  AnswersAreAllowed
PROPERTIES HistoryIsKept ClientAgreesWithServer
\* Clients may stop, and lose their access; the bounds are reached.
CHECK_DEADLOCK FALSE
