---------------------------- MODULE TicketRules ----------------------------
(***************************************************************************)
(* The rules one ticket obeys, without any concurrency: who may do what    *)
(* (src/lib/permissions.ts), which status follows which                    *)
(* (src/lib/utils.ts), what each mutation writes to the ticket row and     *)
(* which timeline rows it inserts (the ticket routes and                   *)
(* src/lib/tickets/assignment-service.ts).                                 *)
(*                                                                         *)
(* Every "...Row" operator has two rows: "now", the row the UPDATE finds,  *)
(* and "row", the one the handler read earlier and computed its data from. *)
(* The two are the same only if nothing happened in between.               *)
(***************************************************************************)
EXTENDS Naturals, FiniteSets

CONSTANTS
  Users,            \* user ids
  Role,             \* Role[u]: the role of user u
  Queues,           \* departments
  Membership,       \* the <<user, queue>> pairs that may ever be in force
  Requester,        \* the user the ticket belongs to
  SlaPolicies,      \* the <<queue, priority>> pairs that have a policy
  PriorityEditors,  \* roles the form snapshot lets edit the priority
  None              \* null, and an absent optional field

Roles == {"USER", "AGENT", "ADMIN", "SUPER_ADMIN"}
OpenStatuses == {"NEW", "OPEN", "PENDING_USER", "PENDING_AGENT"}
Statuses == OpenStatuses \cup {"RESOLVED", "CLOSED", "WITHDRAWN"}
Priorities == {"LOW", "NORMAL", "HIGH", "URGENT"}

ASSUME RulesAssumption ==
  /\ Role \in [Users -> Roles]
  /\ Membership \subseteq Users \X Queues
  /\ Requester \in Users
  /\ SlaPolicies \subseteq Queues \X Priorities
  /\ PriorityEditors \subseteq Roles
  /\ None \notin Users \cup Queues \cup Statuses \cup Priorities

-----------------------------------------------------------------------------
(* The ticket row.  A nullable date is TRUE when set; dueAt is the policy  *)
(* the deadline was computed from, or None.                                *)

Deadlines == (Queues \X Priorities) \cup {None}

TicketRow ==
  [version : Nat, status : Statuses, priority : Priorities, queueId : Queues,
   escalationLevel : Nat, dueAt : Deadlines, resolvedAt : BOOLEAN,
   closedAt : BOOLEAN, firstAssignedAt : BOOLEAN,
   firstPublicResponseAt : BOOLEAN]

DueAt(queueId, priority) ==
  IF <<queueId, priority>> \in SlaPolicies THEN <<queueId, priority>> ELSE None

NewTicket(queueId, priority) ==
  [version |-> 1, status |-> "NEW", priority |-> priority,
   queueId |-> queueId, escalationLevel |-> 0,
   dueAt |-> DueAt(queueId, priority), resolvedAt |-> FALSE,
   closedAt |-> FALSE, firstAssignedAt |-> FALSE,
   firstPublicResponseAt |-> FALSE]

(* The optional fields of a PATCH body; title, description, severity, tags *)
(* and category have no effect below and are the body with all None.       *)
Changes ==
  [status : Statuses \cup {None}, priority : Priorities \cup {None},
   queueId : Queues \cup {None}]

-----------------------------------------------------------------------------
(* Permissions, given the memberships in force.                            *)

IsAgentRole(u) == Role[u] \in {"AGENT", "ADMIN", "SUPER_ADMIN"}
IsSuperAdmin(u) == Role[u] = "SUPER_ADMIN"

CanAccessQueue(members, u, queueId) ==
  \/ IsSuperAdmin(u)
  \/ IsAgentRole(u) /\ <<u, queueId>> \in members

CanAccessTicket(members, u, row) ==
  IF Role[u] = "USER" THEN u = Requester
                      ELSE CanAccessQueue(members, u, row.queueId)

CanDeleteTicket(u, assignees) ==
  IsSuperAdmin(u) \/ (u = Requester /\ assignees = {})

CanBeAssigned(members, u, queueId) ==
  IsAgentRole(u) /\ CanAccessQueue(members, u, queueId)

-----------------------------------------------------------------------------
(* Status transitions and the dates they set.                              *)

UserTransitions == {<<"OPEN", "PENDING_AGENT">>,
                    <<"PENDING_USER", "PENDING_AGENT">>}

AgentTransitions ==
  {<<"NEW", "OPEN">>, <<"RESOLVED", "CLOSED">>, <<"RESOLVED", "OPEN">>}
    \cup ({"OPEN"} \X {"PENDING_USER", "RESOLVED"})
    \cup ({"PENDING_AGENT"} \X {"OPEN", "PENDING_USER", "RESOLVED"})
    \cup ({"PENDING_USER"} \X {"OPEN", "RESOLVED"})

AdminTransitions ==
  AgentTransitions
    \cup ((OpenStatuses \cup {"RESOLVED"}) \X {"CLOSED"})
    \cup {<<"OPEN", "PENDING_AGENT">>, <<"PENDING_USER", "PENDING_AGENT">>,
          <<"CLOSED", "OPEN">>}

AllowedTransitions(role) ==
  CASE role = "USER" -> UserTransitions
    [] role = "AGENT" -> AgentTransitions
    [] role \in {"ADMIN", "SUPER_ADMIN"} -> AdminTransitions

CanTransition(from, to, role) == <<from, to>> \in AllowedTransitions(role)

ResolvedAtAfter(from, to, at) ==
  IF to = from THEN at ELSE to = "RESOLVED" \/ (to = "CLOSED" /\ at)

\* Mutant: reopening leaves closedAt.
ClosedAtAfter(from, to, at) ==
  IF to = from THEN at ELSE to \in {"CLOSED", "WITHDRAWN"}

-----------------------------------------------------------------------------
(* PATCH /api/tickets/[id].                                                *)

Given(field, value) == IF field = None THEN value ELSE field

Moves(row, c) == Given(c.queueId, row.queueId) # row.queueId

PatchAllowed(members, u, row, c) ==
  /\ CanAccessTicket(members, u, row)
  /\ c.priority # None => Role[u] \in PriorityEditors
  /\ c.status # "WITHDRAWN"
  /\ Role[u] = "USER" =>
       c.status # None /\ c.priority = None /\ c.queueId = None
  /\ Moves(row, c) => CanAccessQueue(members, u, c.queueId)
  /\ LET to == Given(c.status, row.status)
     IN  to # row.status => CanTransition(row.status, to, Role[u])

\* Mutant: the assignees of a moved ticket are not checked against the target.
AgentsMoveAnywhere(members, assignees, queueId) ==
  \A a \in assignees : IsAgentRole(a)

MoveAllowed(members, assignees, queueId) ==
  \A a \in assignees : CanBeAssigned(members, a, queueId)

\* Mutant: absent fields are written as null.
PatchRowWithoutDefaults(now, row, c) ==
  [now EXCEPT !.version = @ + 1, !.status = Given(c.status, @),
              !.priority = c.priority]

PatchRow(now, row, c) ==
  LET to == Given(c.status, row.status)
      queueId == Given(c.queueId, row.queueId)
      priority == Given(c.priority, row.priority)
      slaPolicyChanged == queueId # row.queueId \/ priority # row.priority
  IN  [now EXCEPT
        !.version = @ + 1,
        !.status = Given(c.status, @),
        !.priority = Given(c.priority, @),
        !.queueId = Given(c.queueId, @),
        !.resolvedAt = ResolvedAtAfter(row.status, to, @),
        !.closedAt = ClosedAtAfter(row.status, to, @),
        !.dueAt = IF slaPolicyChanged THEN DueAt(queueId, priority) ELSE @]

PatchEvents(u, row, c) ==
  {[type |-> "STATUS_CHANGE", by |-> u, from |-> row.status, to |-> s] :
     s \in {c.status} \ {None, row.status}}
  \cup
  {[type |-> "PRIORITY_CHANGE", by |-> u, from |-> row.priority, to |-> p] :
     p \in {c.priority} \ {None, row.priority}}

-----------------------------------------------------------------------------
(* DELETE /api/tickets/[id]: the history-preserving withdrawal.            *)

WithdrawAllowed(u, row, assignees) ==
  CanDeleteTicket(u, assignees) /\ row.status # "WITHDRAWN"

WithdrawRow(now) ==
  [now EXCEPT !.version = @ + 1, !.status = "WITHDRAWN",
              !.resolvedAt = FALSE, !.closedAt = TRUE]

WithdrawEvents(u, row) ==
  {[type |-> "STATUS_CHANGE", by |-> u, from |-> row.status,
    to |-> "WITHDRAWN"]}

-----------------------------------------------------------------------------
(* Assignment: add and claim, remove and unclaim, replace the whole set.   *)

ManageAllowed(members, u, row) ==
  IsAgentRole(u) /\ CanAccessTicket(members, u, row)

ReplaceAllowed(members, u, row, next) ==
  /\ Role[u] \in {"ADMIN", "SUPER_ADMIN"}
  /\ CanAccessTicket(members, u, row)
  /\ \A a \in next : CanBeAssigned(members, a, row.queueId)

\* Mutants: firstAssignedAt is rewritten by later changes; no new version.
(* claimMutationVersion: firstAssignedAt is written if the row the handler *)
(* read had none and the mutation adds somebody.                           *)
AssignmentRow(now, row, adds) ==
  [now EXCEPT !.version = @ + 1,
              !.firstAssignedAt = @ \/ (adds /\ ~row.firstAssignedAt)]

AssignmentEvent(u, previous, resulting) ==
  [type |-> "ASSIGNMENT_CHANGE", by |-> u, previous |-> previous,
   resulting |-> resulting]

-----------------------------------------------------------------------------
(* POST /api/tickets/[id]/escalate.                                        *)

EscalatedPriority(row) ==
  IF row.escalationLevel + 1 >= 2 THEN "URGENT"
  ELSE IF row.priority = "NORMAL" THEN "HIGH" ELSE row.priority

EscalateAllowed(members, u, row, target) ==
  /\ IsAgentRole(u)
  /\ CanAccessTicket(members, u, row)
  /\ row.status \notin {"CLOSED", "RESOLVED", "WITHDRAWN"}
  /\ target # None => CanBeAssigned(members, target, row.queueId)
  /\ EscalatedPriority(row) # row.priority => Role[u] \in PriorityEditors

EscalationTargets(target) == {target} \ {None}

EscalateRow(now, row, adds) ==
  [now EXCEPT
    !.version = @ + 1,
    !.escalationLevel = row.escalationLevel + 1,
    !.priority = EscalatedPriority(row),
    !.status = "OPEN",
    !.resolvedAt = FALSE,
    !.closedAt = FALSE,
    !.dueAt = IF EscalatedPriority(row) # row.priority
                THEN DueAt(row.queueId, EscalatedPriority(row)) ELSE @,
    !.firstAssignedAt = @ \/ (adds /\ ~row.firstAssignedAt)]

EscalateEvents(u, row, previous, resulting) ==
  {[type |-> "ESCALATED", by |-> u, level |-> row.escalationLevel + 1,
    previous |-> previous, resulting |-> resulting]}
  \cup IF resulting = previous THEN {}
       ELSE {AssignmentEvent(u, previous, resulting)}

-----------------------------------------------------------------------------
(* POST /api/tickets/[id]/comments.                                        *)

CommentAllowed(members, u, row, isInternal) ==
  /\ isInternal => IsAgentRole(u)
  /\ CanAccessTicket(members, u, row)

IsFirstPublicStaffResponse(u, row, isInternal) ==
  ~row.firstPublicResponseAt /\ IsAgentRole(u) /\ ~isInternal

\* Mutant: the first response does not raise the version.
CommentRowUnversioned(now, isFirst) ==
  [now EXCEPT !.firstPublicResponseAt = @ \/ isFirst]

(* The UPDATE has its own condition: the row still has no first response.  *)
CommentRow(now, isFirst) ==
  IF isFirst /\ ~now.firstPublicResponseAt
    THEN [now EXCEPT !.version = @ + 1, !.firstPublicResponseAt = TRUE]
    ELSE now

CommentEvents(u, isInternal) ==
  {[type |-> IF isInternal THEN "INTERNAL_NOTE" ELSE "COMMENT", by |-> u]}

=============================================================================
