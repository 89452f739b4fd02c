--------------------------- MODULE TicketHandlers ---------------------------
(***************************************************************************)
(* The request handlers of one ticket as they run: any number of requests  *)
(* interleave, and each one                                                *)
(*   - reads the ticket row and checks its guards on it (a Load... action),*)
(*   - for some operations reads the assignee rows with a second query     *)
(*     (a Read... action),                                                 *)
(*   - commits one transaction whose first statement is                    *)
(*     UPDATE ... WHERE version = expectedVersion (a Commit... action).    *)
(* expectedVersion equals the version of the row that was read, or the     *)
(* handler answers 409 at once without any effect, so it is row.version.   *)
(* Creating a comment is the exception: it has no expectedVersion.         *)
(***************************************************************************)
EXTENDS TicketRules

CONSTANTS
  Requests,      \* slots for requests in flight; bounds their number
  Operations,    \* the handlers a run exercises
  PatchInputs,   \* the PATCH bodies clients send
  MaxVersion     \* bound: no request starts on a row of this version

ASSUME HandlersAssumption ==
  /\ Operations \subseteq {"patch", "withdraw", "add", "remove", "replace",
                           "escalate", "comment"}
  /\ PatchInputs \subseteq Changes
  /\ MaxVersion \in Nat
  /\ None \notin Requests

VARIABLES
  ticket,     \* the ticket row
  assignees,  \* the ticket_assignees rows of the ticket: a set of users
  newEvents,  \* the timeline rows the latest transaction inserted
  members,    \* the memberships in force
  req         \* req[r]: what the handler of request r holds, or None

vars == <<ticket, assignees, newEvents, members, req>>

Init ==
  /\ \E q \in Queues, p \in Priorities : ticket = NewTicket(q, p)
  /\ assignees = {}
  /\ newEvents = {[type |-> "CREATED", by |-> Requester]}
  /\ members = Membership
  /\ req = [r \in Requests |-> None]

-----------------------------------------------------------------------------
(* The life of a request.                                                  *)

(* A free slot takes a request of user "u".                                *)
Accepts(r, op) ==
  /\ req[r] = None
  /\ op \in Operations
  /\ ticket.version < MaxVersion

Hold(r, held) ==
  /\ req' = [req EXCEPT ![r] = held]
  /\ UNCHANGED <<ticket, assignees, newEvents, members>>

Holds(r, op, stage) ==
  req[r] # None /\ req[r].op = op /\ req[r].stage = stage

Answered(r) == req' = [req EXCEPT ![r] = None]

\* Mutant: UPDATE tickets ... WHERE id = ticketId.
VersionIsIgnored(r) == ticket.version >= req[r].row.version

(* UPDATE tickets ... WHERE version = expectedVersion matched the row.     *)
VersionMatches(r) == ticket.version = req[r].row.version

-----------------------------------------------------------------------------
(* PATCH /api/tickets/[id].                                                *)

LoadPatch(r, u, c) ==
  /\ Accepts(r, "patch")
  /\ PatchAllowed(members, u, ticket, c)
  /\ Hold(r, [op |-> "patch", by |-> u, changes |-> c, row |-> ticket,
              stage |-> IF Moves(ticket, c) THEN "loaded" ELSE "ready"])

ReadAssigneesForMove(r) ==
  /\ Holds(r, "patch", "loaded")
  /\ MoveAllowed(members, assignees, req[r].changes.queueId)
  /\ Hold(r, [req[r] EXCEPT !.stage = "ready"])

CommitPatch(r) ==
  LET q == req[r]
  IN  /\ Holds(r, "patch", "ready")
      /\ VersionMatches(r)
      /\ ticket' = PatchRow(ticket, q.row, q.changes)
      /\ newEvents' = PatchEvents(q.by, q.row, q.changes)
      /\ Answered(r)
      /\ UNCHANGED <<assignees, members>>

-----------------------------------------------------------------------------
(* DELETE /api/tickets/[id]: row and assignment count are one query.       *)

LoadWithdraw(r, u) ==
  /\ Accepts(r, "withdraw")
  /\ WithdrawAllowed(u, ticket, assignees)
  /\ Hold(r, [op |-> "withdraw", by |-> u, row |-> ticket,
              stage |-> "ready"])

CommitWithdraw(r) ==
  LET q == req[r]
  IN  /\ Holds(r, "withdraw", "ready")
      /\ VersionMatches(r)
      /\ ticket' = WithdrawRow(ticket)
      /\ newEvents' = WithdrawEvents(q.by, q.row)
      /\ Answered(r)
      /\ UNCHANGED <<assignees, members>>

-----------------------------------------------------------------------------
(* assignment-service.ts.  seen: the assignee rows the second query found. *)

LoadAdd(r, u, a) ==
  /\ Accepts(r, "add")
  /\ ManageAllowed(members, u, ticket)
  /\ CanBeAssigned(members, a, ticket.queueId)
  /\ Hold(r, [op |-> "add", by |-> u, user |-> a, row |-> ticket,
              seen |-> {}, stage |-> "loaded"])

LoadRemove(r, u, a) ==
  /\ Accepts(r, "remove")
  /\ ManageAllowed(members, u, ticket)
  /\ Hold(r, [op |-> "remove", by |-> u, user |-> a, row |-> ticket,
              seen |-> {}, stage |-> "loaded"])

LoadReplace(r, u, next) ==
  /\ Accepts(r, "replace")
  /\ ReplaceAllowed(members, u, ticket, next)
  /\ Hold(r, [op |-> "replace", by |-> u, next |-> next, row |-> ticket,
              seen |-> {}, stage |-> "loaded"])

(* Adding an assignee who is there, removing one who is not and replacing  *)
(* the set by itself are answered without a transaction.                   *)
HasEffect(q, seen) ==
  CASE q.op = "add" -> q.user \notin seen
    [] q.op = "remove" -> q.user \in seen
    [] q.op = "replace" -> q.next # seen
    [] OTHER -> TRUE

ReadAssignees(r) ==
  /\ \E op \in {"add", "remove", "replace", "escalate"} :
       Holds(r, op, "loaded")
  /\ HasEffect(req[r], assignees)
  /\ Hold(r, [req[r] EXCEPT !.seen = assignees, !.stage = "ready"])

CommitAdd(r) ==
  LET q == req[r]
  IN  /\ Holds(r, "add", "ready")
      /\ VersionMatches(r)
      /\ q.user \notin assignees   \* unique (ticket_id, user_id)
      /\ ticket' = AssignmentRow(ticket, q.row, TRUE)
      /\ assignees' = assignees \cup {q.user}
      /\ newEvents' = {AssignmentEvent(q.by, q.seen, q.seen \cup {q.user})}
      /\ Answered(r)
      /\ UNCHANGED members

CommitRemove(r) ==
  LET q == req[r]
  IN  /\ Holds(r, "remove", "ready")
      /\ VersionMatches(r)
      /\ q.user \in assignees      \* deleteMany must count one row
      /\ ticket' = AssignmentRow(ticket, q.row, FALSE)
      /\ assignees' = assignees \ {q.user}
      /\ newEvents' = {AssignmentEvent(q.by, q.seen, q.seen \ {q.user})}
      /\ Answered(r)
      /\ UNCHANGED members

CommitReplace(r) ==
  LET q == req[r]
  IN  /\ Holds(r, "replace", "ready")
      /\ VersionMatches(r)
      /\ ticket' = AssignmentRow(ticket, q.row, ~(q.next \subseteq q.seen))
      /\ assignees' = (assignees \ (q.seen \ q.next)) \cup (q.next \ q.seen)
      /\ newEvents' = {AssignmentEvent(q.by, q.seen, assignees')}
      /\ Answered(r)
      /\ UNCHANGED members

-----------------------------------------------------------------------------
(* POST /api/tickets/[id]/escalate: Prisma loads the included assignments  *)
(* with a second query (ReadAssignees).                                    *)

LoadEscalate(r, u, target) ==
  /\ Accepts(r, "escalate")
  /\ EscalateAllowed(members, u, ticket, target)
  /\ Hold(r, [op |-> "escalate", by |-> u, target |-> target,
              row |-> ticket, seen |-> {}, stage |-> "loaded"])

CommitEscalate(r) ==
  LET q == req[r]
      added == EscalationTargets(q.target) \ q.seen
  IN  /\ Holds(r, "escalate", "ready")
      /\ VersionMatches(r)
      /\ added \cap assignees = {}   \* unique (ticket_id, user_id)
      /\ ticket' = EscalateRow(ticket, q.row, added # {})
      /\ assignees' = assignees \cup added
      /\ newEvents' = EscalateEvents(q.by, q.row, q.seen, q.seen \cup added)
      /\ Answered(r)
      /\ UNCHANGED members

-----------------------------------------------------------------------------
(* POST /api/tickets/[id]/comments: no expectedVersion.                    *)

LoadComment(r, u, isInternal) ==
  /\ Accepts(r, "comment")
  /\ CommentAllowed(members, u, ticket, isInternal)
  /\ Hold(r, [op |-> "comment", by |-> u, isInternal |-> isInternal,
              isFirst |-> IsFirstPublicStaffResponse(u, ticket, isInternal),
              stage |-> "ready"])

CommitComment(r) ==
  LET q == req[r]
  IN  /\ Holds(r, "comment", "ready")
      /\ ticket' = CommentRow(ticket, q.isFirst)
      /\ newEvents' = CommentEvents(q.by, q.isInternal)
      /\ Answered(r)
      /\ UNCHANGED <<assignees, members>>

-----------------------------------------------------------------------------
(* A request ends without effect: the version no longer matches (409), the *)
(* assignee rows forbid the move or leave nothing to do, the transaction   *)
(* fails, or the process dies before the commit.                           *)
EndWithoutEffect(r) ==
  /\ req[r] # None
  /\ Answered(r)
  /\ UNCHANGED <<ticket, assignees, newEvents, members>>

(* An administrator replaces the departments of a user (PATCH /api/users), *)
(* without looking at tickets or at requests in flight.                    *)
ReplaceMemberships(u, queues) ==
  /\ {u} \X queues \subseteq Membership
  /\ members' = {m \in members : m[1] # u} \cup ({u} \X queues)
  /\ members' # members
  /\ UNCHANGED <<ticket, assignees, newEvents, req>>

Load(r) ==
  \E u \in Users :
    \/ \E c \in PatchInputs : LoadPatch(r, u, c)
    \/ LoadWithdraw(r, u)
    \/ \E a \in Users : LoadAdd(r, u, a)
    \/ \E a \in Users : LoadRemove(r, u, a)
    \/ \E next \in SUBSET Users : LoadReplace(r, u, next)
    \/ \E target \in Users \cup {None} : LoadEscalate(r, u, target)
    \/ \E isInternal \in BOOLEAN : LoadComment(r, u, isInternal)

Next ==
  \/ \E r \in Requests :
       \/ Load(r)
       \/ ReadAssigneesForMove(r) \/ ReadAssignees(r)
       \/ CommitPatch(r) \/ CommitWithdraw(r)
       \/ CommitAdd(r) \/ CommitRemove(r) \/ CommitReplace(r)
       \/ CommitEscalate(r) \/ CommitComment(r)
       \/ EndWithoutEffect(r)
  \/ \E u \in Users, queues \in SUBSET Queues : ReplaceMemberships(u, queues)

Spec == Init /\ [][Next]_vars

-----------------------------------------------------------------------------
(* Types.                                                                  *)

Stages == {"loaded", "ready"}

PatchRequest ==
  [op : {"patch"}, by : Users, changes : PatchInputs, row : TicketRow,
   stage : Stages]
WithdrawRequest ==
  [op : {"withdraw"}, by : Users, row : TicketRow, stage : {"ready"}]
AddRemoveRequest ==
  [op : {"add", "remove"}, by : Users, user : Users, row : TicketRow,
   seen : SUBSET Users, stage : Stages]
ReplaceRequest ==
  [op : {"replace"}, by : Users, next : SUBSET Users, row : TicketRow,
   seen : SUBSET Users, stage : Stages]
EscalateRequest ==
  [op : {"escalate"}, by : Users, target : Users \cup {None},
   row : TicketRow, seen : SUBSET Users, stage : Stages]
CommentRequest ==
  [op : {"comment"}, by : Users, isInternal : BOOLEAN, isFirst : BOOLEAN,
   stage : {"ready"}]

Held ==
  PatchRequest \cup WithdrawRequest \cup AddRemoveRequest \cup ReplaceRequest
    \cup EscalateRequest \cup CommentRequest

(* The shape of the row, the assignees and the requests in flight.         *)
TypeOK ==
  /\ ticket \in TicketRow
  /\ assignees \subseteq Users
  /\ members \subseteq Membership
  /\ req \in [Requests -> Held \cup {None}]

-----------------------------------------------------------------------------
(* Safety.                                                                 *)

HasRow(r) == req[r] # None /\ req[r].op # "comment"

HasAssignees(r) ==
  \E op \in {"add", "remove", "replace", "escalate"} : Holds(r, op, "ready")

(* While the version a handler read is still the version of the ticket,    *)
(* the row and the assignee rows it holds are exactly those of the         *)
(* database: a matching version proves that nothing changed, although the  *)
(* version column is the only thing the UPDATE compares and although       *)
(* assignees live in another table (claimMutationVersion, the updateMany   *)
(* of PATCH, DELETE and escalate).                                         *)
MatchingVersionMeansCurrent ==
  \A r \in Requests :
    (HasRow(r) /\ VersionMatches(r)) =>
      /\ req[r].row = ticket
      /\ HasAssignees(r) => req[r].seen = assignees

(* What the contract guarantees of the ticket, the assignees and the       *)
(* timeline (TicketContract states each one) holds here, with requests     *)
(* interleaving.                                                           *)
Contract ==
  INSTANCE TicketContract
    WITH ticket <- ticket, assignees <- assignees, newEvents <- newEvents

(* resolvedAt and closedAt agree with the status, dueAt is the one of the  *)
(* present department and priority, no assignee is foreign to the          *)
(* department, and an assigned ticket has firstAssignedAt (lifecycle.ts,   *)
(* PATCH, escalate, validateCandidate, claimMutationVersion).              *)
TicketIsConsistent ==
  /\ Contract!DatesMatchStatus
  /\ Contract!DeadlineFollowsPolicy
  /\ Contract!AssigneesBelongToQueue
  /\ Contract!FirstAssignmentIsDated

(* No stale request revives a withdrawn ticket, and requesters never       *)
(* withdraw an assigned one, whatever races them (DELETE, canDeleteTicket).*)
WithdrawalIsGuarded ==
  Contract!WithdrawnIsFinal /\ Contract!AssignedIsNotWithdrawn

(* The timeline is the history of the ticket: a status change has its row, *)
(* naming the real statuses, an assignment row names the sets before and   *)
(* after it, no two escalations claim the same level, and nothing changes  *)
(* without a new version (every updateMany).                               *)
ChangesAreRecorded ==
  /\ Contract!StatusChangesAreRecorded
  /\ Contract!AssignmentsAreRecorded
  /\ Contract!EscalationsAreCounted
  /\ Contract!ChangesRaiseVersion

(* Every accepted request behaves as if it had run alone at the instant of *)
(* its commit: guards, written values and timeline rows are those of the   *)
(* ticket at that instant.                                                 *)
ImplementsContract == Contract!Spec

=============================================================================
