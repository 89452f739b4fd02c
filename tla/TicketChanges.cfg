SPECIFICATION TicketsSpec
CONSTANTS
  None = None
  requester = requester
  agent = agent
  localAgent = localAgent
  admin = admin
  superAdmin = superAdmin
  q1 = q1
  q2 = q2
  Requester = requester
  Users = {requester, localAgent, superAdmin}
  Queues = {q1, q2}
  Role <- MCRole
  Membership <- MCMembership
  SlaPolicies <- MCSlaPolicies
  PriorityEditors <- MCPriorityEditors
  Requests = {r1, r2}
  Operations =
    {"patch", "withdraw", "add", "remove", "replace", "escalate", "comment"}
  PatchInputs <- ChangeInputs
  MaxVersion = 3
  \* TicketPage
  Labels = {l1}
  Colleagues = {k1}
  Blank = Blank
  MaxClicks = 2
  MaxElsewhere = 1
  \* Conversation
  Phrases = {p1, p2}
  MaxTalk = 2
  \* TicketLists
  Snapshots <- MCSnapshots
  \* ListFilters
  Searches = {s1}
  NoText = NoText
  Broadest = "queue"
  MaxChanges = 3
SYMMETRY Symmetry
INVARIANTS TypeOK TicketIsConsistent MatchingVersionMeansCurrent PagesTypeOK PagesAgree
PROPERTIES WithdrawalIsGuarded ChangesAreRecorded PagesLoseNothing
\* Users may stop.
CHECK_DEADLOCK FALSE
