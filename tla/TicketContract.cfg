SPECIFICATION MCSpec
CONSTANTS
  None = None
  requester = requester
  agent = agent
  localAgent = localAgent
  admin = admin
  superAdmin = superAdmin
  q1 = q1
  q2 = q2
  Requester = requester
  Users = {requester, superAdmin}
  Queues = {q1, q2}
  Role <- MCRole
  Membership <- OneMembership
  SlaPolicies <- MCSlaPolicies
  PriorityEditors <- MCPriorityEditors
  Requests = {r1, r2}
  Operations = {"patch", "withdraw", "add", "remove", "replace", "escalate", "comment"}
  PatchInputs <- ContractInputs
  MaxVersion = 3
SYMMETRY Symmetry
PROPERTY ImplementsContract
