--------------------------- MODULE TicketContract ---------------------------
(***************************************************************************)
(* What the ticket API promises: every accepted mutation takes effect at   *)
(* one instant, on the ticket as it is at that instant, together with its  *)
(* timeline rows.  No request in flight, no stale read.  TicketHandlers    *)
(* is shown to implement this.                                             *)
(*                                                                         *)
(* Memberships are judged when a request starts, so the contract only      *)
(* asks that the membership was held at some time: "Membership" is every   *)
(* pair ever granted.                                                      *)
(***************************************************************************)
EXTENDS TicketRules

VARIABLES
  ticket,     \* the ticket row
  assignees,  \* the ticket_assignees rows of the ticket: a set of users
  newEvents   \* the timeline rows the latest transaction inserted

contractVars == <<ticket, assignees, newEvents>>

Init ==
  /\ \E q \in Queues, p \in Priorities : ticket = NewTicket(q, p)
  /\ assignees = {}
  /\ newEvents = {[type |-> "CREATED", by |-> Requester]}

Patch(u, c) ==
  /\ PatchAllowed(Membership, u, ticket, c)
  /\ Moves(ticket, c) => MoveAllowed(Membership, assignees, c.queueId)
  /\ ticket' = PatchRow(ticket, ticket, c)
  /\ newEvents' = PatchEvents(u, ticket, c)
  /\ UNCHANGED assignees

Withdraw(u) ==
  /\ WithdrawAllowed(u, ticket, assignees)
  /\ ticket' = WithdrawRow(ticket)
  /\ newEvents' = WithdrawEvents(u, ticket)
  /\ UNCHANGED assignees

AddAssignee(u, a) ==
  /\ ManageAllowed(Membership, u, ticket)
  /\ CanBeAssigned(Membership, a, ticket.queueId)
  /\ a \notin assignees
  /\ ticket' = AssignmentRow(ticket, ticket, TRUE)
  /\ assignees' = assignees \cup {a}
  /\ newEvents' = {AssignmentEvent(u, assignees, assignees')}

RemoveAssignee(u, a) ==
  /\ ManageAllowed(Membership, u, ticket)
  /\ a \in assignees
  /\ ticket' = AssignmentRow(ticket, ticket, FALSE)
  /\ assignees' = assignees \ {a}
  /\ newEvents' = {AssignmentEvent(u, assignees, assignees')}

ReplaceAssignmentSet(u, next) ==
  /\ ReplaceAllowed(Membership, u, ticket, next)
  /\ next # assignees
  /\ ticket' = AssignmentRow(ticket, ticket, ~(next \subseteq assignees))
  /\ assignees' = next
  /\ newEvents' = {AssignmentEvent(u, assignees, assignees')}

Escalate(u, target) ==
  LET added == EscalationTargets(target) \ assignees
  IN  /\ EscalateAllowed(Membership, u, ticket, target)
      /\ ticket' = EscalateRow(ticket, ticket, added # {})
      /\ assignees' = assignees \cup added
      /\ newEvents' = EscalateEvents(u, ticket, assignees, assignees')

(* A comment carries no version, so its author's access is not promised at *)
(* the instant it is stored, only that the author could ever comment.      *)
Comment(u, isInternal) ==
  /\ u = Requester \/ IsAgentRole(u)
  /\ isInternal => IsAgentRole(u)
  /\ ticket' =
       CommentRow(ticket, IsFirstPublicStaffResponse(u, ticket, isInternal))
  /\ newEvents' = CommentEvents(u, isInternal)
  /\ UNCHANGED assignees

Next ==
  \E u \in Users :
    \/ \E c \in Changes : Patch(u, c)
    \/ Withdraw(u)
    \/ \E a \in Users : AddAssignee(u, a)
    \/ \E a \in Users : RemoveAssignee(u, a)
    \/ \E next \in SUBSET Users : ReplaceAssignmentSet(u, next)
    \/ \E target \in Users \cup {None} : Escalate(u, target)
    \/ \E isInternal \in BOOLEAN : Comment(u, isInternal)

Spec == Init /\ [][Next]_contractVars

-----------------------------------------------------------------------------
(* The shape of the row and of the assignee set.                           *)
TypeOK == ticket \in TicketRow /\ assignees \subseteq Users

(* resolvedAt and closedAt always agree with the status, whatever sequence *)
(* of resolve, close, reopen, escalate and withdraw led here, and however  *)
(* those requests interleaved (statusTimestampChanges, escalate, DELETE).  *)
DatesMatchStatus ==
  /\ ticket.status \in OpenStatuses => ~ticket.resolvedAt /\ ~ticket.closedAt
  /\ ticket.status = "RESOLVED" => ticket.resolvedAt /\ ~ticket.closedAt
  /\ ticket.status = "CLOSED" => ticket.closedAt
  /\ ticket.status = "WITHDRAWN" => ~ticket.resolvedAt /\ ticket.closedAt

(* The resolution deadline is always the one of the policy of the ticket's *)
(* present department and priority, although PATCH and escalate pick the   *)
(* policy before their transaction starts (restart-on-policy-change).      *)
DeadlineFollowsPolicy ==
  ticket.dueAt = DueAt(ticket.queueId, ticket.priority)

(* Nobody is assigned who never had access to the department the ticket is *)
(* in, although a move checks the assignees and an assignment checks the   *)
(* department at different times (PATCH lines 250-257, validateCandidate). *)
AssigneesBelongToQueue ==
  \A a \in assignees : CanBeAssigned(Membership, a, ticket.queueId)

(* A ticket with assignees has firstAssignedAt, whichever of add, claim,   *)
(* replace and escalate brought the first one.                             *)
FirstAssignmentIsDated == assignees # {} => ticket.firstAssignedAt

(* Withdrawal is final: no request that read the ticket before brings it   *)
(* back (transition map, escalate's status check, PATCH's 400).            *)
WithdrawnIsFinal ==
  [][ticket.status = "WITHDRAWN" => ticket'.status = "WITHDRAWN"]_contractVars

(* A ticket with assignees is only ever withdrawn by a super administrator *)
(* (canDeleteTicket), even when the assignment and the withdrawal race.    *)
AssignedIsNotWithdrawn ==
  [][(/\ ticket.status # "WITHDRAWN"
      /\ ticket'.status = "WITHDRAWN"
      /\ assignees # {}) => \A e \in newEvents' : IsSuperAdmin(e.by)]_contractVars

(* The status changes only together with a timeline row, and a             *)
(* STATUS_CHANGE row names the status the ticket really left and the one   *)
(* it really entered.                                                      *)
StatusChangesAreRecorded ==
  [][/\ ticket'.status # ticket.status =>
          \E e \in newEvents' : e.type \in {"STATUS_CHANGE", "ESCALATED"}
     /\ newEvents' # newEvents =>
          \A e \in newEvents' : e.type = "STATUS_CHANGE" =>
            e.from = ticket.status /\ e.to = ticket'.status]_contractVars

(* The assignee set changes only together with an ASSIGNMENT_CHANGE row,   *)
(* and the sets in that row, read before the transaction, are the sets     *)
(* before and after it: replaying the rows gives the assignees.            *)
AssignmentsAreRecorded ==
  [][assignees' # assignees =>
       \E e \in newEvents' : /\ e.type = "ASSIGNMENT_CHANGE"
                             /\ e.previous = assignees
                             /\ e.resulting = assignees']_contractVars

(* Two concurrent escalations never both claim the same level: every       *)
(* ESCALATED row is one step up, and nothing else changes the level.       *)
EscalationsAreCounted ==
  [][LET escalated == \E e \in newEvents' : e.type = "ESCALATED"
         oneUp == ticket'.escalationLevel = ticket.escalationLevel + 1
     IN  /\ ticket'.escalationLevel # ticket.escalationLevel => escalated
         /\ newEvents' # newEvents /\ escalated => oneUp]_contractVars

(* No change of the ticket or of its assignees goes without a new version, *)
(* the premise of every expectedVersion check.                             *)
ChangesRaiseVersion ==
  [][<<ticket, assignees>>' # <<ticket, assignees>> =>
       ticket'.version = ticket.version + 1]_contractVars

=============================================================================
