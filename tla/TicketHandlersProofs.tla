------------------------ MODULE TicketHandlersProofs ------------------------
(***************************************************************************)
(* The handlers implement the contract.  The invariant says, for each      *)
(* request in flight, which of its guards still hold of the row it read    *)
(* (RequestGuard) and what follows if the version it read is still the     *)
(* version of the ticket (CurrentIfMatching).  The second half is about    *)
(* the pages that show tickets, whatever the tickets do meanwhile: the     *)
(* page of one ticket, its conversation, the lists and their filters.      *)
(***************************************************************************)
EXTENDS MCTickets, TicketRulesProofs, FiniteSetTheorems, SequenceTheorems, TLAPS

RequestGuard(q) ==
  /\ q.op = "patch" => PatchAllowed(Membership, q.by, q.row, q.changes)
  /\ q.op \in {"add", "remove"} => ManageAllowed(Membership, q.by, q.row)
  /\ q.op = "add" => CanBeAssigned(Membership, q.user, q.row.queueId)
  /\ q.op = "replace" => ReplaceAllowed(Membership, q.by, q.row, q.next)
  /\ q.op = "escalate" => EscalateAllowed(Membership, q.by, q.row, q.target)

CurrentIfMatching(q) ==
  q.op # "comment" =>
    /\ q.row.version <= ticket.version
    /\ q.row.version = ticket.version =>
         /\ q.row = ticket
         /\ q.op = "withdraw" => WithdrawAllowed(q.by, q.row, assignees)
         /\ (q.op = "patch" /\ q.stage = "ready" /\ Moves(q.row, q.changes)) =>
              MoveAllowed(Membership, assignees, q.changes.queueId)
         /\ (/\ q.op \in {"add", "remove", "replace", "escalate"}
             /\ q.stage = "ready") =>
               q.seen = assignees /\ HasEffect(q, assignees)

CommentIsSound(q) ==
  q.op = "comment" =>
    /\ q.by = Requester \/ IsAgentRole(q.by)
    /\ q.isInternal => IsAgentRole(q.by)
    /\ q.isFirst => IsAgentRole(q.by) /\ ~q.isInternal
    /\ (IsAgentRole(q.by) /\ ~q.isInternal /\ ~q.isFirst) =>
         ticket.firstPublicResponseAt

RequestInv(q) == RequestGuard(q) /\ CurrentIfMatching(q) /\ CommentIsSound(q)

HandlersInv ==
  /\ TypeOK
  /\ \A r \in Requests : req[r] # None => RequestInv(req[r])

-----------------------------------------------------------------------------
(* What a request holds, by its operation.                                 *)

LEMMA HeldByOperation ==
  ASSUME NEW q \in Held
  PROVE  /\ q.op = "patch" => q \in PatchRequest
         /\ q.op = "withdraw" => q \in WithdrawRequest
         /\ q.op \in {"add", "remove"} => q \in AddRemoveRequest
         /\ q.op = "replace" => q \in ReplaceRequest
         /\ q.op = "escalate" => q \in EscalateRequest
         /\ q.op = "comment" => q \in CommentRequest
BY DEF Held, PatchRequest, WithdrawRequest, AddRemoveRequest, ReplaceRequest,
       EscalateRequest, CommentRequest

(* A request that takes or changes what it holds disturbs nothing else.    *)
LEMMA HoldPreservesInv ==
  ASSUME HandlersInv, NEW r \in Requests, NEW held \in Held,
         RequestInv(held), Hold(r, held)
  PROVE  HandlersInv'
<1>1. /\ ticket' = ticket /\ assignees' = assignees /\ members' = members
      /\ req' = [req EXCEPT ![r] = held]
  BY DEF Hold
<1>2. TypeOK'
  BY <1>1 DEF HandlersInv, TypeOK
<1>3. ASSUME NEW x \in Requests, req'[x] # None
      PROVE  RequestInv(req[x])'
  <2>1. req'[x] = held \/ (req'[x] = req[x])
    BY <1>1 DEF HandlersInv, TypeOK
  <2>2. RequestInv(req'[x])
    BY <1>3, <2>1 DEF HandlersInv
  <2> QED
    BY <1>1, <2>2, Zenon
       DEF RequestInv, RequestGuard, CurrentIfMatching, CommentIsSound
<1> QED BY <1>2, <1>3 DEF HandlersInv

(* A commit either raises the version, so that every other request that    *)
(* holds a row no longer matches, or leaves ticket and assignees alone.    *)
LEMMA CommitPreservesInv ==
  ASSUME HandlersInv, NEW r \in Requests, Answered(r), members' = members,
         ticket' \in TicketRow, assignees' \subseteq Users,
         ticket.firstPublicResponseAt => ticket'.firstPublicResponseAt,
         \/ ticket'.version = ticket.version + 1
         \/ ticket' = ticket /\ assignees' = assignees
  PROVE  HandlersInv'
<1>1. req' = [req EXCEPT ![r] = None] /\ ticket.version \in Nat
  BY DEF Answered, HandlersInv, TypeOK, TicketRow
<1>2. TypeOK'
  BY <1>1 DEF HandlersInv, TypeOK
<1>3. ASSUME NEW x \in Requests, req'[x] # None
      PROVE  RequestInv(req[x])'
  <2>1. req'[x] = req[x] /\ req[x] # None /\ req[x] \in Held
    BY <1>1, <1>3 DEF HandlersInv, TypeOK
  <2>2. RequestInv(req[x])
    BY <2>1 DEF HandlersInv
  <2>3. RequestGuard(req[x])' /\ CommentIsSound(req[x])'
    BY <2>1, <2>2 DEF RequestInv, RequestGuard, CommentIsSound
  <2>4. CASE ticket' = ticket /\ assignees' = assignees
    BY <2>1, <2>2, <2>3, <2>4 DEF RequestInv, CurrentIfMatching
  <2>5. CASE ticket'.version = ticket.version + 1
    <3>1. req[x].op # "comment" => req[x].row.version \in Nat
      BY <2>1, HeldByOperation DEF Held, PatchRequest, WithdrawRequest,
           AddRemoveRequest, ReplaceRequest, EscalateRequest, CommentRequest,
           TicketRow
    <3>2. req[x].op # "comment" => req[x].row.version <= ticket.version
      BY <2>2 DEF RequestInv, CurrentIfMatching
    <3>3. CurrentIfMatching(req[x])'
      BY <1>1, <2>1, <2>5, <3>1, <3>2 DEF CurrentIfMatching
    <3> QED BY <2>3, <3>3 DEF RequestInv
  <2> QED BY <2>4, <2>5
<1> QED BY <1>2, <1>3 DEF HandlersInv

-----------------------------------------------------------------------------
(* The steps before the commit: reading and checking.                      *)

LEMMA LoadPreservesInv ==
  ASSUME HandlersInv, NEW r \in Requests, Load(r)
  PROVE  HandlersInv'
<1>0. /\ ticket \in TicketRow /\ ticket.version <= ticket.version
      /\ members \in SUBSET Membership
  BY DEF HandlersInv, TypeOK, TicketRow
<1>1. ASSUME NEW u \in Users, NEW c \in PatchInputs, LoadPatch(r, u, c)
      PROVE  HandlersInv'
  <2> DEFINE stage == IF Moves(ticket, c) THEN "loaded" ELSE "ready"
             held == [op |-> "patch", by |-> u, changes |-> c, row |-> ticket,
                      stage |-> stage]
  <2>1. PatchAllowed(members, u, ticket, c) /\ Hold(r, held)
    BY <1>1 DEF LoadPatch
  <2>2. held \in Held
    BY <1>0 DEF Held, PatchRequest, Stages
  <2>3. PatchAllowed(Membership, u, ticket, c)
    BY <1>0, <2>1, AccessIsMonotone DEF PatchAllowed
  <2>4. stage = "ready" => ~Moves(ticket, c)
    OBVIOUS
  <2> HIDE DEF stage
  <2>5. RequestInv(held)
    BY <1>0, <2>3, <2>4
       DEF RequestInv, RequestGuard, CurrentIfMatching, CommentIsSound
  <2> QED BY <2>1, <2>2, <2>5, HoldPreservesInv
<1>2. ASSUME NEW u \in Users, LoadWithdraw(r, u)
      PROVE  HandlersInv'
  <2> DEFINE held == [op |-> "withdraw", by |-> u, row |-> ticket,
                      stage |-> "ready"]
  <2>1. WithdrawAllowed(u, ticket, assignees) /\ Hold(r, held)
    BY <1>2 DEF LoadWithdraw
  <2>2. held \in Held
    BY <1>0 DEF Held, WithdrawRequest
  <2>3. RequestInv(held)
    BY <1>0, <2>1
       DEF RequestInv, RequestGuard, CurrentIfMatching, CommentIsSound
  <2> QED BY <2>1, <2>2, <2>3, HoldPreservesInv
<1>3. ASSUME NEW u \in Users, NEW a \in Users, NEW op \in {"add", "remove"},
             ManageAllowed(members, u, ticket),
             op = "add" => CanBeAssigned(members, a, ticket.queueId),
             Hold(r, [op |-> op, by |-> u, user |-> a, row |-> ticket,
                      seen |-> {}, stage |-> "loaded"])
      PROVE  HandlersInv'
  <2> DEFINE held == [op |-> op, by |-> u, user |-> a, row |-> ticket,
                      seen |-> {}, stage |-> "loaded"]
  <2>1. held \in Held
    BY <1>0 DEF Held, AddRemoveRequest, Stages
  <2>2. /\ ManageAllowed(Membership, u, ticket)
        /\ op = "add" => CanBeAssigned(Membership, a, ticket.queueId)
    BY <1>0, <1>3, AccessIsMonotone DEF ManageAllowed
  <2>3. RequestInv(held)
    BY <1>0, <2>2
       DEF RequestInv, RequestGuard, CurrentIfMatching, CommentIsSound
  <2> QED BY <1>3, <2>1, <2>3, HoldPreservesInv
<1>4. ASSUME NEW u \in Users, NEW a \in Users,
             LoadAdd(r, u, a) \/ LoadRemove(r, u, a)
      PROVE  HandlersInv'
  BY <1>3, <1>4 DEF LoadAdd, LoadRemove
<1>5. ASSUME NEW u \in Users, NEW next \in SUBSET Users,
             LoadReplace(r, u, next)
      PROVE  HandlersInv'
  <2> DEFINE held == [op |-> "replace", by |-> u, next |-> next,
                      row |-> ticket, seen |-> {}, stage |-> "loaded"]
  <2>1. ReplaceAllowed(members, u, ticket, next) /\ Hold(r, held)
    BY <1>5 DEF LoadReplace
  <2>2. held \in Held
    BY <1>0 DEF Held, ReplaceRequest, Stages
  <2>3. ReplaceAllowed(Membership, u, ticket, next)
    BY <1>0, <2>1, AccessIsMonotone DEF ReplaceAllowed
  <2>4. RequestInv(held)
    BY <1>0, <2>3
       DEF RequestInv, RequestGuard, CurrentIfMatching, CommentIsSound
  <2> QED BY <2>1, <2>2, <2>4, HoldPreservesInv
<1>6. ASSUME NEW u \in Users, NEW target \in Users \cup {None},
             LoadEscalate(r, u, target)
      PROVE  HandlersInv'
  <2> DEFINE held == [op |-> "escalate", by |-> u, target |-> target,
                      row |-> ticket, seen |-> {}, stage |-> "loaded"]
  <2>1. EscalateAllowed(members, u, ticket, target) /\ Hold(r, held)
    BY <1>6 DEF LoadEscalate
  <2>2. held \in Held
    BY <1>0 DEF Held, EscalateRequest, Stages
  <2>3. EscalateAllowed(Membership, u, ticket, target)
    BY <1>0, <2>1, AccessIsMonotone DEF EscalateAllowed
  <2>4. RequestInv(held)
    BY <1>0, <2>3
       DEF RequestInv, RequestGuard, CurrentIfMatching, CommentIsSound
  <2> QED BY <2>1, <2>2, <2>4, HoldPreservesInv
<1>7. ASSUME NEW u \in Users, NEW isInternal \in BOOLEAN,
             LoadComment(r, u, isInternal)
      PROVE  HandlersInv'
  <2> DEFINE isFirst == IsFirstPublicStaffResponse(u, ticket, isInternal)
             held == [op |-> "comment", by |-> u, isInternal |-> isInternal,
                      isFirst |-> isFirst, stage |-> "ready"]
  <2>1. CommentAllowed(members, u, ticket, isInternal) /\ Hold(r, held)
    BY <1>7 DEF LoadComment
  <2>2. isFirst \in BOOLEAN
    BY DEF IsFirstPublicStaffResponse
  <2>3. /\ u = Requester \/ IsAgentRole(u)
        /\ isInternal => IsAgentRole(u)
        /\ isFirst => IsAgentRole(u) /\ ~isInternal
        /\ IsAgentRole(u) /\ ~isInternal /\ ~isFirst =>
             ticket.firstPublicResponseAt
    BY <2>1 DEF CommentAllowed, CanAccessTicket, CanAccessQueue, IsSuperAdmin,
         IsAgentRole, IsFirstPublicStaffResponse
  <2> HIDE DEF isFirst
  <2>4. held \in Held
    BY <2>2 DEF Held, CommentRequest
  <2>5. RequestInv(held)
    BY <2>3 DEF RequestInv, RequestGuard, CurrentIfMatching, CommentIsSound
  <2> QED BY <2>1, <2>4, <2>5, HoldPreservesInv
<1> QED BY <1>1, <1>2, <1>4, <1>5, <1>6, <1>7 DEF Load

LEMMA ReadPreservesInv ==
  ASSUME HandlersInv, NEW r \in Requests,
         ReadAssigneesForMove(r) \/ ReadAssignees(r)
  PROVE  HandlersInv'
<1> DEFINE q == req[r]
<1>1. q # None => q \in Held /\ RequestInv(q)
  BY DEF HandlersInv, TypeOK
<1>2. CASE ReadAssigneesForMove(r)
  <2> DEFINE held == [q EXCEPT !.stage = "ready"]
  <2>1. /\ q # None /\ q.op = "patch" /\ Hold(r, held)
        /\ MoveAllowed(members, assignees, q.changes.queueId)
    BY <1>2 DEF ReadAssigneesForMove, Holds
  <2>2. q \in PatchRequest
    BY <1>1, <2>1, HeldByOperation
  <2>3. /\ held \in PatchRequest /\ held.op = "patch" /\ held.by = q.by
        /\ held.changes = q.changes /\ held.row = q.row
    BY <2>1, <2>2 DEF PatchRequest, Stages
  <2>4. MoveAllowed(Membership, assignees, q.changes.queueId)
    BY <2>1, AccessIsMonotone DEF MoveAllowed, HandlersInv, TypeOK
  <2> HIDE DEF q, held
  <2>5. RequestInv(held)
    BY <1>1, <2>1, <2>3, <2>4
       DEF RequestInv, RequestGuard, CurrentIfMatching, CommentIsSound
  <2>6. held \in Held
    BY <2>3 DEF Held
  <2> QED BY <2>1, <2>5, <2>6, HoldPreservesInv
<1>3. CASE ReadAssignees(r)
  <2> DEFINE held == [q EXCEPT !.seen = assignees, !.stage = "ready"]
  <2>1. /\ q # None /\ q.op \in {"add", "remove", "replace", "escalate"}
        /\ HasEffect(q, assignees) /\ Hold(r, held)
    BY <1>3 DEF ReadAssignees, Holds
  <2>2. assignees \in SUBSET Users
    BY DEF HandlersInv, TypeOK
  <2>3. CASE q.op \in {"add", "remove"}
    <3>1. q \in AddRemoveRequest
      BY <1>1, <2>1, <2>3, HeldByOperation
    <3>2. /\ held \in AddRemoveRequest /\ held.op = q.op /\ held.by = q.by
          /\ held.user = q.user /\ held.row = q.row /\ held.seen = assignees
      BY <2>2, <3>1 DEF AddRemoveRequest, Stages
    <3> HIDE DEF q, held
    <3>3. RequestInv(held)
      BY <1>1, <2>1, <2>3, <3>2 DEF RequestInv, RequestGuard,
           CurrentIfMatching, CommentIsSound, HasEffect
    <3>4. held \in Held
      BY <3>2 DEF Held
    <3> QED BY <2>1, <3>3, <3>4, HoldPreservesInv
  <2>4. CASE q.op = "replace"
    <3>1. q \in ReplaceRequest
      BY <1>1, <2>1, <2>4, HeldByOperation
    <3>2. /\ held \in ReplaceRequest /\ held.op = q.op /\ held.by = q.by
          /\ held.next = q.next /\ held.row = q.row /\ held.seen = assignees
      BY <2>2, <3>1 DEF ReplaceRequest, Stages
    <3> HIDE DEF q, held
    <3>3. RequestInv(held)
      BY <1>1, <2>1, <2>4, <3>2 DEF RequestInv, RequestGuard,
           CurrentIfMatching, CommentIsSound, HasEffect
    <3>4. held \in Held
      BY <3>2 DEF Held
    <3> QED BY <2>1, <3>3, <3>4, HoldPreservesInv
  <2>5. CASE q.op = "escalate"
    <3>1. q \in EscalateRequest
      BY <1>1, <2>1, <2>5, HeldByOperation
    <3>2. /\ held \in EscalateRequest /\ held.op = q.op /\ held.by = q.by
          /\ held.target = q.target /\ held.row = q.row
          /\ held.seen = assignees
      BY <2>2, <3>1 DEF EscalateRequest, Stages
    <3> HIDE DEF q, held
    <3>3. RequestInv(held)
      BY <1>1, <2>1, <2>5, <3>2 DEF RequestInv, RequestGuard,
           CurrentIfMatching, CommentIsSound, HasEffect
    <3>4. held \in Held
      BY <3>2 DEF Held
    <3> QED BY <2>1, <3>3, <3>4, HoldPreservesInv
  <2> QED BY <2>1, <2>3, <2>4, <2>5
<1> QED BY <1>2, <1>3

-----------------------------------------------------------------------------
(* The commits.  The instance brings in its own copy of every rule.        *)

LEMMA SameRules ==
  /\ \A m, u, row, c :
       Contract!PatchAllowed(m, u, row, c) <=> PatchAllowed(m, u, row, c)
  /\ \A row, c : Contract!Moves(row, c) <=> Moves(row, c)
  /\ \A m, s, queueId :
       Contract!MoveAllowed(m, s, queueId) <=> MoveAllowed(m, s, queueId)
  /\ \A now, row, c : Contract!PatchRow(now, row, c) = PatchRow(now, row, c)
  /\ \A u, row, c : Contract!PatchEvents(u, row, c) = PatchEvents(u, row, c)
  /\ \A u, row, s :
       Contract!WithdrawAllowed(u, row, s) <=> WithdrawAllowed(u, row, s)
  /\ \A row : Contract!WithdrawRow(row) = WithdrawRow(row)
  /\ \A u, row : Contract!WithdrawEvents(u, row) = WithdrawEvents(u, row)
  /\ Contract!Changes = Changes
<1> USE DEF Contract!CanAccessTicket, CanAccessTicket,
      Contract!CanAccessQueue, CanAccessQueue, Contract!IsSuperAdmin,
      IsSuperAdmin, Contract!IsAgentRole, IsAgentRole, Contract!Given, Given,
      Contract!Moves, Moves
<1>1. ASSUME NEW m, NEW u, NEW row, NEW c
      PROVE  Contract!PatchAllowed(m, u, row, c) <=> PatchAllowed(m, u, row, c)
  BY Zenon DEF Contract!PatchAllowed, PatchAllowed, Contract!CanTransition,
       CanTransition, Contract!AllowedTransitions, AllowedTransitions,
       Contract!UserTransitions, UserTransitions, Contract!AgentTransitions,
       AgentTransitions, Contract!AdminTransitions, AdminTransitions,
       Contract!OpenStatuses, OpenStatuses
<1>2. \A row, c : Contract!Moves(row, c) <=> Moves(row, c)
  BY Zenon
<1>3. \A m, s, queueId :
        Contract!MoveAllowed(m, s, queueId) <=> MoveAllowed(m, s, queueId)
  BY Zenon DEF Contract!MoveAllowed, MoveAllowed, Contract!CanBeAssigned,
       CanBeAssigned
<1>4. ASSUME NEW now, NEW row, NEW c
      PROVE  Contract!PatchRow(now, row, c) = PatchRow(now, row, c)
  BY Zenon DEF Contract!PatchRow, PatchRow, Contract!DueAt, DueAt,
       Contract!ResolvedAtAfter, ResolvedAtAfter, Contract!ClosedAtAfter,
       ClosedAtAfter
<1>5. ASSUME NEW u, NEW row, NEW c
      PROVE  Contract!PatchEvents(u, row, c) = PatchEvents(u, row, c)
  BY Zenon DEF Contract!PatchEvents, PatchEvents
<1>6. /\ \A u, row, s :
           Contract!WithdrawAllowed(u, row, s) <=> WithdrawAllowed(u, row, s)
      /\ \A row : Contract!WithdrawRow(row) = WithdrawRow(row)
      /\ \A u, row : Contract!WithdrawEvents(u, row) = WithdrawEvents(u, row)
  BY Zenon DEF Contract!WithdrawAllowed, WithdrawAllowed,
       Contract!CanDeleteTicket, CanDeleteTicket, Contract!WithdrawRow,
       WithdrawRow, Contract!WithdrawEvents, WithdrawEvents
<1>7. Contract!Changes = Changes
  BY Zenon DEF Contract!Changes, Changes, Contract!Statuses, Statuses,
       Contract!OpenStatuses, OpenStatuses, Contract!Priorities, Priorities
<1> QED BY <1>1, <1>2, <1>3, <1>4, <1>5, <1>6, <1>7

LEMMA SameAssignmentRules ==
  /\ \A m, u, queueId :
       Contract!CanBeAssigned(m, u, queueId) <=> CanBeAssigned(m, u, queueId)
  /\ \A m, u, row : Contract!ManageAllowed(m, u, row) <=> ManageAllowed(m, u, row)
  /\ \A m, u, row, next :
       Contract!ReplaceAllowed(m, u, row, next) <=> ReplaceAllowed(m, u, row, next)
  /\ \A now, row, adds :
       Contract!AssignmentRow(now, row, adds) = AssignmentRow(now, row, adds)
  /\ \A u, s, t : Contract!AssignmentEvent(u, s, t) = AssignmentEvent(u, s, t)
  /\ \A m, u, row, target :
       Contract!EscalateAllowed(m, u, row, target)
         <=> EscalateAllowed(m, u, row, target)
  /\ \A target : Contract!EscalationTargets(target) = EscalationTargets(target)
  /\ \A now, row, adds :
       Contract!EscalateRow(now, row, adds) = EscalateRow(now, row, adds)
  /\ \A u, row, s, t :
       Contract!EscalateEvents(u, row, s, t) = EscalateEvents(u, row, s, t)
  /\ \A u : Contract!IsAgentRole(u) <=> IsAgentRole(u)
  /\ \A u, row, isInternal :
       Contract!IsFirstPublicStaffResponse(u, row, isInternal)
         <=> IsFirstPublicStaffResponse(u, row, isInternal)
  /\ \A now, isFirst : Contract!CommentRow(now, isFirst) = CommentRow(now, isFirst)
  /\ \A u, isInternal :
       Contract!CommentEvents(u, isInternal) = CommentEvents(u, isInternal)
<1> USE DEF Contract!CanAccessTicket, CanAccessTicket,
      Contract!CanAccessQueue, CanAccessQueue, Contract!IsSuperAdmin,
      IsSuperAdmin, Contract!IsAgentRole, IsAgentRole,
      Contract!CanBeAssigned, CanBeAssigned
<1>1. /\ \A m, u, queueId :
           Contract!CanBeAssigned(m, u, queueId) <=> CanBeAssigned(m, u, queueId)
      /\ \A m, u, row :
           Contract!ManageAllowed(m, u, row) <=> ManageAllowed(m, u, row)
      /\ \A m, u, row, next :
           Contract!ReplaceAllowed(m, u, row, next)
             <=> ReplaceAllowed(m, u, row, next)
      /\ \A now, row, adds :
           Contract!AssignmentRow(now, row, adds) = AssignmentRow(now, row, adds)
      /\ \A u, s, t :
           Contract!AssignmentEvent(u, s, t) = AssignmentEvent(u, s, t)
  BY Zenon DEF Contract!ManageAllowed, ManageAllowed, Contract!ReplaceAllowed,
       ReplaceAllowed, Contract!AssignmentRow, AssignmentRow,
       Contract!AssignmentEvent, AssignmentEvent
<1>2. ASSUME NEW m, NEW u, NEW row, NEW target
      PROVE  Contract!EscalateAllowed(m, u, row, target)
               <=> EscalateAllowed(m, u, row, target)
  BY Zenon DEF Contract!EscalateAllowed, EscalateAllowed,
       Contract!EscalatedPriority, EscalatedPriority
<1>3. ASSUME NEW now, NEW row, NEW adds
      PROVE  Contract!EscalateRow(now, row, adds) = EscalateRow(now, row, adds)
  BY Zenon DEF Contract!EscalateRow, EscalateRow, Contract!EscalatedPriority,
       EscalatedPriority, Contract!DueAt, DueAt
<1>4. /\ \A target : Contract!EscalationTargets(target) = EscalationTargets(target)
      /\ \A u, row, s, t :
           Contract!EscalateEvents(u, row, s, t) = EscalateEvents(u, row, s, t)
  BY Zenon DEF Contract!EscalationTargets, EscalationTargets,
       Contract!EscalateEvents, EscalateEvents, Contract!AssignmentEvent,
       AssignmentEvent
<1>5. /\ \A u : Contract!IsAgentRole(u) <=> IsAgentRole(u)
      /\ \A u, row, isInternal :
           Contract!IsFirstPublicStaffResponse(u, row, isInternal)
             <=> IsFirstPublicStaffResponse(u, row, isInternal)
      /\ \A now, isFirst :
           Contract!CommentRow(now, isFirst) = CommentRow(now, isFirst)
      /\ \A u, isInternal :
           Contract!CommentEvents(u, isInternal) = CommentEvents(u, isInternal)
  BY Zenon DEF Contract!IsFirstPublicStaffResponse, IsFirstPublicStaffResponse,
       Contract!CommentRow, CommentRow, Contract!CommentEvents, CommentEvents
<1> QED BY <1>1, <1>2, <1>3, <1>4, <1>5

(* Each commit is a step of the contract and preserves the invariant.      *)

LEMMA CommitPatchStep ==
  ASSUME HandlersInv, NEW r \in Requests, CommitPatch(r)
  PROVE  HandlersInv' /\ Contract!Next
<1> DEFINE q == req[r]
<1>1. /\ q # None /\ q.op = "patch" /\ q.stage = "ready"
      /\ q.row.version = ticket.version
      /\ ticket' = PatchRow(ticket, q.row, q.changes)
      /\ newEvents' = PatchEvents(q.by, q.row, q.changes)
      /\ Answered(r) /\ assignees' = assignees /\ members' = members
  BY DEF CommitPatch, Holds, VersionMatches
<1>2. /\ q \in Held /\ RequestInv(q)
      /\ ticket \in TicketRow /\ assignees \subseteq Users
  BY <1>1 DEF HandlersInv, TypeOK
<1>3. q.by \in Users /\ q.changes \in Changes
  BY <1>1, <1>2, HeldByOperation, HandlersAssumption DEF PatchRequest
<1>4. /\ q.row = ticket
      /\ PatchAllowed(Membership, q.by, ticket, q.changes)
      /\ Moves(ticket, q.changes) =>
           MoveAllowed(Membership, assignees, q.changes.queueId)
  BY <1>1, <1>2 DEF RequestInv, RequestGuard, CurrentIfMatching
<1> HIDE DEF q
<1>5. ticket' \in TicketRow /\ ticket'.version = ticket.version + 1
        /\ ticket'.firstPublicResponseAt = ticket.firstPublicResponseAt
  BY <1>1, <1>2, <1>3, <1>4, PatchRowFields
<1>6. HandlersInv'
  BY <1>1, <1>2, <1>5, CommitPreservesInv
<1>7. Contract!Patch(q.by, q.changes)
  BY <1>1, <1>4, SameRules DEF Contract!Patch
<1> QED BY <1>3, <1>6, <1>7, SameRules DEF Contract!Next

LEMMA CommitWithdrawStep ==
  ASSUME HandlersInv, NEW r \in Requests, CommitWithdraw(r)
  PROVE  HandlersInv' /\ Contract!Next
<1> DEFINE q == req[r]
<1>1. /\ q # None /\ q.op = "withdraw" /\ q.row.version = ticket.version
      /\ ticket' = WithdrawRow(ticket)
      /\ newEvents' = WithdrawEvents(q.by, q.row)
      /\ Answered(r) /\ assignees' = assignees /\ members' = members
  BY DEF CommitWithdraw, Holds, VersionMatches
<1>2. /\ q \in Held /\ RequestInv(q)
      /\ ticket \in TicketRow /\ assignees \subseteq Users
  BY <1>1 DEF HandlersInv, TypeOK
<1>3. q.by \in Users
  BY <1>1, <1>2, HeldByOperation DEF WithdrawRequest
<1>4. q.row = ticket /\ WithdrawAllowed(q.by, ticket, assignees)
  BY <1>1, <1>2 DEF RequestInv, CurrentIfMatching
<1> HIDE DEF q
<1>5. ticket' \in TicketRow /\ ticket'.version = ticket.version + 1
        /\ ticket'.firstPublicResponseAt = ticket.firstPublicResponseAt
  BY <1>1, <1>2, WithdrawRowFields
<1>6. HandlersInv'
  BY <1>1, <1>2, <1>5, CommitPreservesInv
<1>7. Contract!Withdraw(q.by)
  BY <1>1, <1>4, SameRules DEF Contract!Withdraw
<1> QED BY <1>3, <1>6, <1>7 DEF Contract!Next

LEMMA CommitAddRemoveStep ==
  ASSUME HandlersInv, NEW r \in Requests, CommitAdd(r) \/ CommitRemove(r)
  PROVE  HandlersInv' /\ Contract!Next
<1> DEFINE q == req[r]
           adds == q.op = "add"
<1>1. /\ q # None /\ q.op \in {"add", "remove"} /\ q.stage = "ready"
      /\ q.row.version = ticket.version
      /\ ticket' = AssignmentRow(ticket, q.row, adds)
      /\ adds => /\ q.user \notin assignees
                 /\ assignees' = assignees \cup {q.user}
                 /\ newEvents' =
                      {AssignmentEvent(q.by, q.seen, q.seen \cup {q.user})}
      /\ ~adds => /\ q.user \in assignees
                  /\ assignees' = assignees \ {q.user}
                  /\ newEvents' =
                       {AssignmentEvent(q.by, q.seen, q.seen \ {q.user})}
      /\ Answered(r) /\ members' = members
  <2>1. CASE CommitAdd(r)
    BY <2>1 DEF CommitAdd, Holds, VersionMatches
  <2>2. CASE CommitRemove(r)
    BY <2>2 DEF CommitRemove, Holds, VersionMatches
  <2> QED BY <2>1, <2>2
<1>2. /\ q \in Held /\ RequestInv(q)
      /\ ticket \in TicketRow /\ assignees \subseteq Users
  BY <1>1 DEF HandlersInv, TypeOK
<1>3. q.by \in Users /\ q.user \in Users
  BY <1>1, <1>2, HeldByOperation DEF AddRemoveRequest
<1>4. /\ q.row = ticket /\ q.seen = assignees
      /\ ManageAllowed(Membership, q.by, ticket)
      /\ adds => CanBeAssigned(Membership, q.user, ticket.queueId)
  BY <1>1, <1>2 DEF RequestInv, RequestGuard, CurrentIfMatching
<1>5. adds \in BOOLEAN
  OBVIOUS
<1> HIDE DEF q, adds
<1>6. ticket' \in TicketRow /\ ticket'.version = ticket.version + 1
        /\ ticket'.firstPublicResponseAt = ticket.firstPublicResponseAt
  BY <1>1, <1>2, <1>4, <1>5, AssignmentRowFields
<1>7. assignees' \subseteq Users
  BY <1>1, <1>2, <1>3
<1>8. HandlersInv'
  BY <1>1, <1>6, <1>7, CommitPreservesInv
<1>9. CASE adds
  <2>1. ticket' = AssignmentRow(ticket, ticket, TRUE)
    BY <1>1, <1>4, <1>9
  <2>2. Contract!AddAssignee(q.by, q.user)
    BY <1>1, <1>4, <1>9, <2>1, SameAssignmentRules DEF Contract!AddAssignee
  <2> QED BY <1>3, <1>8, <2>2 DEF Contract!Next
<1>10. CASE ~adds
  <2>1. ticket' = AssignmentRow(ticket, ticket, FALSE)
    BY <1>1, <1>4, <1>5, <1>10
  <2>2. Contract!RemoveAssignee(q.by, q.user)
    BY <1>1, <1>4, <1>10, <2>1, SameAssignmentRules
       DEF Contract!RemoveAssignee
  <2> QED BY <1>3, <1>8, <2>2 DEF Contract!Next
<1> QED BY <1>9, <1>10

LEMMA CommitReplaceStep ==
  ASSUME HandlersInv, NEW r \in Requests, CommitReplace(r)
  PROVE  HandlersInv' /\ Contract!Next
<1> DEFINE q == req[r]
           adds == ~(q.next \subseteq assignees)
<1>1. /\ q # None /\ q.op = "replace" /\ q.stage = "ready"
      /\ q.row.version = ticket.version
      /\ ticket' = AssignmentRow(ticket, q.row, ~(q.next \subseteq q.seen))
      /\ assignees' = (assignees \ (q.seen \ q.next)) \cup (q.next \ q.seen)
      /\ newEvents' = {AssignmentEvent(q.by, q.seen, assignees')}
      /\ Answered(r) /\ members' = members
  BY DEF CommitReplace, Holds, VersionMatches
<1>2. /\ q \in Held /\ RequestInv(q)
      /\ ticket \in TicketRow /\ assignees \subseteq Users
  BY <1>1 DEF HandlersInv, TypeOK
<1>3. q.by \in Users /\ q.next \in SUBSET Users
  BY <1>1, <1>2, HeldByOperation DEF ReplaceRequest
<1>4. /\ q.row = ticket /\ q.seen = assignees
      /\ q.next # assignees
      /\ ReplaceAllowed(Membership, q.by, ticket, q.next)
  BY <1>1, <1>2 DEF RequestInv, RequestGuard, CurrentIfMatching, HasEffect
<1>5. assignees' = q.next
  BY <1>1, <1>4
<1>6. adds \in BOOLEAN /\ ticket' = AssignmentRow(ticket, ticket, adds)
  BY <1>1, <1>4
<1> HIDE DEF q
<1>7. Contract!ReplaceAssignmentSet(q.by, q.next)
  BY <1>1, <1>4, <1>5, <1>6, SameAssignmentRules
     DEF Contract!ReplaceAssignmentSet
<1> HIDE DEF adds
<1>8. ticket' \in TicketRow /\ ticket'.version = ticket.version + 1
        /\ ticket'.firstPublicResponseAt = ticket.firstPublicResponseAt
  BY <1>2, <1>6, AssignmentRowFields
<1>9. HandlersInv'
  BY <1>1, <1>3, <1>5, <1>8, CommitPreservesInv
<1> QED BY <1>3, <1>7, <1>9 DEF Contract!Next

LEMMA CommitEscalateStep ==
  ASSUME HandlersInv, NEW r \in Requests, CommitEscalate(r)
  PROVE  HandlersInv' /\ Contract!Next
<1> DEFINE q == req[r]
           added == EscalationTargets(q.target) \ assignees
           adds == added # {}
<1>1. /\ q # None /\ q.op = "escalate" /\ q.stage = "ready"
      /\ q.row.version = ticket.version
      /\ Answered(r) /\ members' = members
  BY DEF CommitEscalate, Holds, VersionMatches
<1>2. /\ q \in Held /\ RequestInv(q)
      /\ ticket \in TicketRow /\ assignees \subseteq Users
  BY <1>1 DEF HandlersInv, TypeOK
<1>3. q.by \in Users /\ q.target \in Users \cup {None}
  BY <1>1, <1>2, HeldByOperation DEF EscalateRequest
<1>4. /\ q.row = ticket /\ q.seen = assignees
      /\ EscalateAllowed(Membership, q.by, ticket, q.target)
  BY <1>1, <1>2 DEF RequestInv, RequestGuard, CurrentIfMatching
<1>5. /\ ticket' = EscalateRow(ticket, ticket, adds)
      /\ assignees' = assignees \cup added
      /\ newEvents' = EscalateEvents(q.by, ticket, assignees, assignees')
  BY <1>4, Zenon DEF CommitEscalate
<1>6. assignees' \subseteq Users /\ adds \in BOOLEAN
  BY <1>2, <1>3, <1>5 DEF EscalationTargets
<1>7. Contract!Escalate(q.by, q.target)
  BY <1>4, <1>5, SameAssignmentRules, Zenon DEF Contract!Escalate
<1> HIDE DEF q, adds
<1>8. ticket' \in TicketRow /\ ticket'.version = ticket.version + 1
        /\ ticket'.firstPublicResponseAt = ticket.firstPublicResponseAt
  BY <1>2, <1>5, <1>6, EscalateRowFields
<1>9. HandlersInv'
  BY <1>1, <1>6, <1>8, CommitPreservesInv
<1> QED BY <1>3, <1>7, <1>9 DEF Contract!Next

LEMMA CommitCommentStep ==
  ASSUME HandlersInv, NEW r \in Requests, CommitComment(r)
  PROVE  HandlersInv' /\ Contract!Next
<1> DEFINE q == req[r]
           isFirst == IsFirstPublicStaffResponse(q.by, ticket, q.isInternal)
<1>1. /\ q # None /\ q.op = "comment"
      /\ ticket' = CommentRow(ticket, q.isFirst)
      /\ newEvents' = CommentEvents(q.by, q.isInternal)
      /\ Answered(r) /\ assignees' = assignees /\ members' = members
  BY DEF CommitComment, Holds
<1>2. /\ q \in Held /\ RequestInv(q)
      /\ ticket \in TicketRow /\ assignees \subseteq Users
  BY <1>1 DEF HandlersInv, TypeOK
<1>3. q.by \in Users /\ q.isInternal \in BOOLEAN /\ q.isFirst \in BOOLEAN
  BY <1>1, <1>2, HeldByOperation DEF CommentRequest
<1>4. CommentIsSound(q)
  BY <1>2 DEF RequestInv
<1> HIDE DEF q
<1>5. /\ ticket' \in TicketRow
      /\ ticket' # ticket => ticket'.version = ticket.version + 1
      /\ ticket.firstPublicResponseAt => ticket'.firstPublicResponseAt
  BY <1>1, <1>2, <1>3, CommentRowFields
<1>6. HandlersInv'
  BY <1>1, <1>2, <1>5, CommitPreservesInv
<1>7. ticket' = CommentRow(ticket, isFirst)
  <2>1. q.isFirst /\ ~ticket.firstPublicResponseAt <=>
          isFirst /\ ~ticket.firstPublicResponseAt
    BY <1>1, <1>4 DEF CommentIsSound, IsFirstPublicStaffResponse
  <2> HIDE DEF isFirst
  <2> QED BY <1>1, <2>1 DEF CommentRow
<1>8. Contract!Comment(q.by, q.isInternal)
  <2>1. /\ q.by = Requester \/ IsAgentRole(q.by)
        /\ q.isInternal => IsAgentRole(q.by)
    BY <1>1, <1>4 DEF CommentIsSound
  <2>2. ticket' = Contract!CommentRow(ticket,
          Contract!IsFirstPublicStaffResponse(q.by, ticket, q.isInternal))
    <3>1. Contract!IsFirstPublicStaffResponse(q.by, ticket, q.isInternal)
            = isFirst
      BY Zenon DEF Contract!IsFirstPublicStaffResponse, Contract!IsAgentRole,
           IsFirstPublicStaffResponse, IsAgentRole
    <3> HIDE DEF isFirst
    <3> QED BY <1>7, <3>1, SameAssignmentRules
  <2> QED
    BY <1>1, <2>1, <2>2, SameAssignmentRules DEF Contract!Comment
<1> QED BY <1>3, <1>6, <1>8 DEF Contract!Next

-----------------------------------------------------------------------------
(* The theorems.                                                           *)

LEMMA InitEstablishesHandlersInv == Init => HandlersInv
<1> SUFFICES ASSUME Init PROVE HandlersInv
  OBVIOUS
<1>1. ticket \in TicketRow
  BY DueAtType DEF Init, NewTicket, TicketRow, Statuses, OpenStatuses
<1>2. TypeOK /\ \A r \in Requests : req[r] = None
  BY <1>1 DEF Init, TypeOK
<1> QED BY <1>2 DEF HandlersInv

LEMMA StepIsContractStep ==
  ASSUME HandlersInv, [Next]_vars
  PROVE  HandlersInv' /\ [Contract!Next]_(Contract!contractVars)
<1>1. CASE UNCHANGED vars
  <2>1. HandlersInv'
    BY <1>1 DEF vars, HandlersInv, TypeOK, RequestInv, RequestGuard,
         CurrentIfMatching, CommentIsSound
  <2> QED BY <1>1, <2>1 DEF vars, Contract!contractVars
<1>2. ASSUME NEW r \in Requests,
             Load(r) \/ ReadAssigneesForMove(r) \/ ReadAssignees(r)
      PROVE  HandlersInv' /\ UNCHANGED Contract!contractVars
  <2>1. HandlersInv'
    BY <1>2, LoadPreservesInv, ReadPreservesInv
  <2>2. UNCHANGED <<ticket, assignees, newEvents>>
    BY <1>2 DEF Load, LoadPatch, LoadWithdraw, LoadAdd, LoadRemove,
         LoadReplace, LoadEscalate, LoadComment, ReadAssigneesForMove,
         ReadAssignees, Hold
  <2> QED BY <2>1, <2>2 DEF Contract!contractVars
<1>3. ASSUME NEW r \in Requests, EndWithoutEffect(r)
      PROVE  HandlersInv' /\ UNCHANGED Contract!contractVars
  <2>1. HandlersInv'
    BY <1>3, CommitPreservesInv DEF EndWithoutEffect, HandlersInv, TypeOK
  <2> QED BY <1>3, <2>1 DEF EndWithoutEffect, Contract!contractVars
<1>4. ASSUME NEW u \in Users, NEW queues \in SUBSET Queues,
             ReplaceMemberships(u, queues)
      PROVE  HandlersInv' /\ UNCHANGED Contract!contractVars
  <2>1. TypeOK'
    BY <1>4 DEF ReplaceMemberships, HandlersInv, TypeOK
  <2>2. ASSUME NEW r \in Requests, req'[r] # None
        PROVE  RequestInv(req[r])'
    BY <1>4, <2>2 DEF ReplaceMemberships, HandlersInv, RequestInv,
         RequestGuard, CurrentIfMatching, CommentIsSound
  <2> QED
    BY <1>4, <2>1, <2>2 DEF HandlersInv, ReplaceMemberships, Contract!contractVars
<1> QED
  BY <1>1, <1>2, <1>3, <1>4, CommitPatchStep, CommitWithdrawStep,
     CommitAddRemoveStep, CommitReplaceStep, CommitEscalateStep,
     CommitCommentStep
     DEF Next

(* Every reachable state satisfies the invariant, whatever the number of   *)
(* requests in flight (all handlers of the ticket routes).                 *)
THEOREM HandlersInvariant == Spec => []HandlersInv
<1>1. HandlersInv /\ [Next]_vars => HandlersInv'
  BY StepIsContractStep
<1> QED BY <1>1, InitEstablishesHandlersInv, PTL DEF Spec

(* The row, the assignees and the requests in flight keep their types.     *)
THEOREM TypeCorrect == Spec => []TypeOK
<1>1. HandlersInv => TypeOK
  BY DEF HandlersInv
<1> QED BY <1>1, HandlersInvariant, PTL

(* A matching version proves that the ticket and its assignees are as the  *)
(* handler read them (claimMutationVersion, the updateMany of PATCH,       *)
(* DELETE and escalate).                                                   *)
THEOREM VersionCheckIsSound == Spec => []MatchingVersionMeansCurrent
<1>1. HandlersInv => MatchingVersionMeansCurrent
  BY DEF HandlersInv, RequestInv, CurrentIfMatching,
       MatchingVersionMeansCurrent, HasRow, HasAssignees, Holds, VersionMatches
<1> QED BY <1>1, HandlersInvariant, PTL

(* The handlers, interleaved in any number, implement the atomic contract. *)
THEOREM Refinement == Spec => ImplementsContract
<1>1. Init => Contract!Init
  BY DEF Init, Contract!Init, NewTicket, Contract!NewTicket, DueAt,
       Contract!DueAt, Priorities, Contract!Priorities
<1>2. HandlersInv /\ [Next]_vars => [Contract!Next]_(Contract!contractVars)
  BY StepIsContractStep
<1> QED
  BY <1>1, <1>2, HandlersInvariant, PTL DEF Spec, ImplementsContract,
     Contract!Spec

-----------------------------------------------------------------------------
(* What is proved of the contract holds of the handlers.  Proved! is the   *)
(* contract once more, with its theorems; both copies are the same         *)
(* formulas, which the next two lemmas unfold.                             *)

Proved ==
  INSTANCE TicketContractProofs
    WITH ticket <- ticket, assignees <- assignees, newEvents <- newEvents

LEMMA SameContract ==
  /\ Contract!Init => Proved!Init
  /\ [Contract!Next]_(Contract!contractVars) =>
       [Proved!Next]_(Proved!contractVars)
<1>1. Contract!Init => Proved!Init
  BY DEF Contract!Init, Proved!Init, Contract!NewTicket, Proved!NewTicket,
       Contract!DueAt, Proved!DueAt, Contract!Priorities, Proved!Priorities
<1>2. Contract!Next => Proved!Next
  BY Zenon DEF Contract!Next, Proved!Next, Contract!Patch, Proved!Patch,
       Contract!Withdraw, Proved!Withdraw, Contract!AddAssignee,
       Proved!AddAssignee, Contract!RemoveAssignee, Proved!RemoveAssignee,
       Contract!ReplaceAssignmentSet, Proved!ReplaceAssignmentSet,
       Contract!Escalate, Proved!Escalate, Contract!Comment, Proved!Comment,
       Contract!Changes, Proved!Changes, Contract!Statuses, Proved!Statuses,
       Contract!OpenStatuses, Proved!OpenStatuses, Contract!Priorities,
       Proved!Priorities, Contract!DueAt, Proved!DueAt,
       Contract!IsAgentRole, Proved!IsAgentRole, Contract!IsSuperAdmin,
       Proved!IsSuperAdmin, Contract!CanAccessQueue, Proved!CanAccessQueue,
       Contract!CanAccessTicket, Proved!CanAccessTicket,
       Contract!CanDeleteTicket, Proved!CanDeleteTicket,
       Contract!CanBeAssigned, Proved!CanBeAssigned,
       Contract!UserTransitions, Proved!UserTransitions,
       Contract!AgentTransitions, Proved!AgentTransitions,
       Contract!AdminTransitions, Proved!AdminTransitions,
       Contract!AllowedTransitions, Proved!AllowedTransitions,
       Contract!CanTransition, Proved!CanTransition,
       Contract!ResolvedAtAfter, Proved!ResolvedAtAfter,
       Contract!ClosedAtAfter, Proved!ClosedAtAfter, Contract!Given,
       Proved!Given, Contract!Moves, Proved!Moves, Contract!PatchAllowed,
       Proved!PatchAllowed, Contract!MoveAllowed, Proved!MoveAllowed,
       Contract!PatchRow, Proved!PatchRow, Contract!PatchEvents,
       Proved!PatchEvents, Contract!WithdrawAllowed, Proved!WithdrawAllowed,
       Contract!WithdrawRow, Proved!WithdrawRow, Contract!WithdrawEvents,
       Proved!WithdrawEvents, Contract!ManageAllowed, Proved!ManageAllowed,
       Contract!ReplaceAllowed, Proved!ReplaceAllowed,
       Contract!AssignmentRow, Proved!AssignmentRow,
       Contract!AssignmentEvent, Proved!AssignmentEvent,
       Contract!EscalatedPriority, Proved!EscalatedPriority,
       Contract!EscalateAllowed, Proved!EscalateAllowed,
       Contract!EscalationTargets, Proved!EscalationTargets,
       Contract!EscalateRow, Proved!EscalateRow, Contract!EscalateEvents,
       Proved!EscalateEvents, Contract!IsFirstPublicStaffResponse,
       Proved!IsFirstPublicStaffResponse, Contract!CommentRow,
       Proved!CommentRow, Contract!CommentEvents, Proved!CommentEvents
<1> QED BY <1>1, <1>2 DEF Contract!contractVars, Proved!contractVars

LEMMA SameAssumption == Proved!RulesAssumption
BY RulesAssumption DEF Proved!RulesAssumption, Proved!Roles, Roles,
     Proved!Statuses, Statuses, Proved!OpenStatuses, OpenStatuses,
     Proved!Priorities, Priorities

LEMMA ProvedSpec == Spec => Proved!Spec
BY SameContract, Refinement, PTL
   DEF ImplementsContract, Contract!Spec, Proved!Spec

(* The invariants of the contract, with requests interleaving: the dates   *)
(* match the status, the deadline follows the policy in force, nobody is   *)
(* assigned from outside the department, the first assignment is dated     *)
(* (PATCH, DELETE, escalate, assignment-service.ts).                       *)
THEOREM HandlersKeepInvariants == Spec => []TicketIsConsistent
<1>1. Proved!Spec => []Proved!ContractInv
  BY SameAssumption, Proved!ContractInvariant, PTL
<1>2. Proved!ContractInv => TicketIsConsistent
  BY DEF Proved!ContractInv, TicketIsConsistent, Proved!DatesMatchStatus,
       Contract!DatesMatchStatus, Contract!OpenStatuses, Proved!OpenStatuses,
       Proved!DeadlineFollowsPolicy,
       Contract!DeadlineFollowsPolicy, Contract!DueAt, Proved!DueAt,
       Proved!AssigneesBelongToQueue,
       Contract!AssigneesBelongToQueue, Contract!CanBeAssigned,
       Proved!CanBeAssigned, Contract!CanAccessQueue, Proved!CanAccessQueue,
       Contract!IsAgentRole, Proved!IsAgentRole, Contract!IsSuperAdmin,
       Proved!IsSuperAdmin, Proved!FirstAssignmentIsDated, Contract!FirstAssignmentIsDated
<1> QED BY <1>1, <1>2, ProvedSpec, PTL

(* A withdrawn ticket stays withdrawn, and an assigned one is withdrawn    *)
(* only by a super administrator, whatever raced it (canDeleteTicket, the  *)
(* transition map, the version check).                                     *)
THEOREM HandlersWithdrawal == Spec => WithdrawalIsGuarded
<1>1. Proved!Spec => Proved!WithdrawnIsFinal /\ Proved!AssignedIsNotWithdrawn
  BY SameAssumption, Proved!ContractWithdrawal, PTL
<1>2. \A u : Proved!IsSuperAdmin(u) <=> Contract!IsSuperAdmin(u)
  BY DEF Proved!IsSuperAdmin, Contract!IsSuperAdmin
<1>3. [(/\ ticket.status # "WITHDRAWN"
        /\ ticket'.status = "WITHDRAWN"
        /\ assignees # {}) =>
           \A e \in newEvents' : Proved!IsSuperAdmin(e.by)]_(Proved!contractVars)
      => [(/\ ticket.status # "WITHDRAWN"
           /\ ticket'.status = "WITHDRAWN"
           /\ assignees # {}) =>
              \A e \in newEvents' :
                Contract!IsSuperAdmin(e.by)]_(Contract!contractVars)
  BY <1>2 DEF Proved!contractVars, Contract!contractVars
<1>4. [ticket.status = "WITHDRAWN" =>
         ticket'.status = "WITHDRAWN"]_(Proved!contractVars)
      => [ticket.status = "WITHDRAWN" =>
            ticket'.status = "WITHDRAWN"]_(Contract!contractVars)
  BY DEF Proved!contractVars, Contract!contractVars
<1> QED
  BY <1>1, <1>3, <1>4, ProvedSpec, PTL
     DEF WithdrawalIsGuarded, Contract!WithdrawnIsFinal,
         Proved!WithdrawnIsFinal, Contract!AssignedIsNotWithdrawn,
         Proved!AssignedIsNotWithdrawn

(* The timeline rows the handlers insert, computed from what they read     *)
(* before their transaction, describe the change that really happened, and *)
(* every change raises the version (every updateMany sets version:         *)
(* { increment: 1 }).                                                      *)
THEOREM HandlersTimeline == Spec => ChangesAreRecorded
<1>1. Proved!Spec => /\ Proved!StatusChangesAreRecorded
                     /\ Proved!AssignmentsAreRecorded
                     /\ Proved!EscalationsAreCounted
  BY SameAssumption, Proved!ContractTimeline, PTL
<1>2. Proved!Spec => Proved!ChangesRaiseVersion
  BY SameAssumption, Proved!ContractVersions, PTL
<1> USE DEF Proved!contractVars, Contract!contractVars
<1> QED
  BY <1>1, <1>2, ProvedSpec, PTL
     DEF ChangesAreRecorded, Contract!StatusChangesAreRecorded,
         Proved!StatusChangesAreRecorded, Contract!AssignmentsAreRecorded,
         Proved!AssignmentsAreRecorded, Contract!EscalationsAreCounted,
         Proved!EscalationsAreCounted, Contract!ChangesRaiseVersion,
         Proved!ChangesRaiseVersion

-----------------------------------------------------------------------------
(* A version stands for the ticket: what was read of it, is shown, or was  *)
(* shown when a change was made is the ticket as long as its version is    *)
(* the ticket's.                                                           *)
IsOf(t, now) == t.version <= now.version /\ (t.version = now.version => t = now)

Reading ==
  {Blank, [stage |-> "asked"]} \cup [stage : {"row", "whole"}, ticket : Stored]

OneAssignment ==
  /\ \A u, w \in updates : u.op \in AssignmentOps /\ w.op \in AssignmentOps => u = w
  /\ \A u \in updates : u.op \in AssignmentOps => assignLock

TicketPageInv ==
  /\ TicketPageTypeOK /\ reading \in Reading
  /\ Shown => IsOf(view, stored)
  /\ picker => Shown
  /\ reading # Blank /\ reading.stage \in {"row", "whole"} => IsOf(reading.ticket, stored)
  /\ \A u \in updates : /\ u.version = u.shown.version /\ IsOf(u.shown, stored)
                        /\ u.op = "add" => u.user \in Colleagues
  /\ OneAssignment

LEMMA TicketPageInitIsSound == TicketPageInit => TicketPageInv
BY DEF TicketPageInit, TicketPageInv, TicketPageTypeOK, Stored, Reading, Shown,
       OneAssignment

LEMMA ReadingKeepsPage ==
  ASSUME TicketPageInv, Poll \/ ReadTicketRow \/ ReadIncluded \/ Show
  PROVE  TicketPageInv'
<1> USE DEF labelVars
<1>1. CASE Poll
  BY <1>1 DEF Poll, TicketPageInv, TicketPageTypeOK, Reading, Shown, OneAssignment, IsOf
<1>2. CASE ReadTicketRow
  <2>1. reading' = [stage |-> "row", ticket |-> stored] /\ stored \in Stored
    BY <1>2 DEF ReadTicketRow, TicketPageInv, TicketPageTypeOK
  <2>2. PICK asked : asked = [stage |-> "row", ticket |-> stored]
    OBVIOUS
  <2>3. asked \in [stage : {"row", "whole"}, ticket : Stored] /\ asked.ticket = stored
    BY <2>1, <2>2
  <2>4. stored.version <= stored.version
    BY <2>1 DEF Stored
  <2>5. reading' \in Reading /\ IsOf(reading'.ticket, stored)
    BY <2>1, <2>2, <2>3, <2>4 DEF Reading, IsOf
  <2> QED
    BY <1>2, <2>5 DEF ReadTicketRow, TicketPageInv, TicketPageTypeOK, Shown, OneAssignment, IsOf
<1>3. CASE ReadIncluded
  <2>1. PICK t \in Stored : t = reading.ticket /\ IsOf(t, stored)
    BY <1>3 DEF ReadIncluded, TicketPageInv, Reading
  <2>2. PICK s \in Stored : s = stored
    BY DEF TicketPageInv, TicketPageTypeOK
  <2>3. PICK whole : whole = [t EXCEPT !.labels = s.labels, !.assigned = s.assigned]
    OBVIOUS
  <2>4. whole = [version |-> t.version, withdrawn |-> t.withdrawn, labels |-> s.labels,
                 assigned |-> s.assigned]
    BY <2>3 DEF Stored
  <2>5. whole \in Stored /\ whole.version = t.version
    BY <2>4 DEF Stored
  <2>6. t = s => whole = s
    BY <2>4 DEF Stored
  <2>7. IsOf(whole, stored)
    BY <2>1, <2>2, <2>5, <2>6 DEF IsOf
  <2>8. reading' = [stage |-> "whole", ticket |-> whole]
    BY <1>3, <2>1, <2>2, <2>3 DEF ReadIncluded
  <2>9. reading' \in Reading /\ reading'.ticket = whole
    BY <2>5, <2>8 DEF Reading
  <2> QED
    BY <1>3, <2>7, <2>9 DEF ReadIncluded, TicketPageInv, TicketPageTypeOK, Shown, OneAssignment, IsOf
<1>4. CASE Show
  <2>1. view' \in Stored /\ IsOf(view', stored)
    BY <1>4 DEF Show, TicketPageInv, Reading
  <2> QED
    BY <1>4, <2>1, BlankAssumption DEF Show, TicketPageInv, TicketPageTypeOK, Reading, Shown, OneAssignment, IsOf
<1> QED
  BY <1>1, <1>2, <1>3, <1>4

(* A change that goes out with what the page shows.                        *)
LEMMA SendingKeepsPage ==
  ASSUME TicketPageInv, NEW op \in Operation, NEW labels \in SUBSET Labels,
         NEW u \in Colleagues \cup {Blank}, Shown, Send(op, labels, u),
         op \in AssignmentOps => ~assignLock /\ assignLock' /\ u \in Colleagues,
         assignLock => assignLock',
         labelDraft' \in (SUBSET Labels) \cup {Blank}, picker' => picker
  PROVE  TicketPageInv'
<1>1. PICK t \in Stored : t = view /\ IsOf(t, stored)
  BY DEF TicketPageInv, TicketPageTypeOK, Shown
<1>2. PICK k : k = [op |-> op, labels |-> labels, user |-> u, version |-> t.version,
                    shown |-> t, answer |-> "none"]
  OBVIOUS
<1>3. k \in Update /\ k.version = k.shown.version /\ k.shown = t /\ k.op = op
      /\ (k.op = "add" => k.user \in Colleagues)
  BY <1>2 DEF Update, Stored, AssignmentOps
<1>4. updates' = updates \cup {k}
  BY <1>1, <1>2 DEF Send, VersionSent
<1>5. OneAssignment'
  BY <1>3, <1>4 DEF OneAssignment, TicketPageInv
<1>6. UNCHANGED <<stored, view, reading>>
  BY DEF Send
<1>7. TicketPageTypeOK'
  BY <1>3, <1>4, <1>6 DEF TicketPageInv, TicketPageTypeOK, Shown
<1> QED
  BY <1>1, <1>3, <1>4, <1>5, <1>6, <1>7 DEF TicketPageInv, Shown, IsOf

LEMMA ClicksKeepPage ==
  ASSUME TicketPageInv,
         \/ OpenPicker \/ ClosePicker \/ ChooseStatus \/ Withdraw
         \/ \E l \in Labels : ToggleLabel(l) \/ RemoveChip(l)
         \/ \E op \in AssignmentOps, u \in Colleagues : RunAssignment(op, u)
  PROVE  TicketPageInv'
<1> USE DEF labelVars
<1>0. /\ labelDraft \in (SUBSET Labels) \cup {Blank}
      /\ Shown => view.labels \in SUBSET Labels
  BY DEF TicketPageInv, TicketPageTypeOK, Stored
<1>a. AssignmentOps \subseteq Operation /\ {"labels", "chip", "status", "withdraw"} \subseteq Operation
      /\ {"labels", "chip", "status", "withdraw"} \cap AssignmentOps = {}
  BY DEF Operation, AssignmentOps
<1>1. CASE OpenPicker
  BY <1>1 DEF OpenPicker, Acting, TicketPageInv, TicketPageTypeOK, Shown, OneAssignment, IsOf
<1>2. ASSUME NEW l \in Labels, ToggleLabel(l) PROVE TicketPageInv'
  <2>1. labelDraft' \in SUBSET Labels
    BY <1>0, <1>2 DEF ToggleLabel, Toggled, Acting
  <2> QED
    BY <1>2, <2>1 DEF ToggleLabel, TicketPageInv, TicketPageTypeOK, Shown, OneAssignment, IsOf
<1>3. CASE ClosePicker
  <2>1. CASE labelDraft # Blank /\ labelDraft # view.labels
    <3>1. Send("labels", labelDraft, Blank) /\ assignLock' = assignLock /\ Shown
      BY <1>3, <2>1 DEF ClosePicker, TicketPageInv
    <3> QED
      BY <1>0, <1>a, <1>3, <2>1, <3>1, SendingKeepsPage DEF ClosePicker
  <2>2. CASE ~(labelDraft # Blank /\ labelDraft # view.labels)
    BY <1>3, <2>2 DEF ClosePicker, TicketPageInv, TicketPageTypeOK, Shown, OneAssignment, IsOf
  <2> QED
    BY <2>1, <2>2
<1>4. CASE ChooseStatus
  BY <1>0, <1>a, <1>4, SendingKeepsPage DEF ChooseStatus, Acting
<1>5. CASE Withdraw
  BY <1>0, <1>a, <1>5, SendingKeepsPage DEF Withdraw
<1>6. ASSUME NEW l \in Labels, RemoveChip(l) PROVE TicketPageInv'
  <2>1. view.labels \ {l} \in SUBSET Labels
    BY <1>0, <1>6 DEF RemoveChip, Acting
  <2> QED
    BY <1>0, <1>a, <1>6, <2>1, SendingKeepsPage DEF RemoveChip, Acting
<1>7. ASSUME NEW op \in AssignmentOps, NEW u \in Colleagues, RunAssignment(op, u)
      PROVE TicketPageInv'
  BY <1>0, <1>a, <1>7, SendingKeepsPage DEF RunAssignment, Acting, AssignmentFree
<1> QED
  BY <1>1, <1>2, <1>3, <1>4, <1>5, <1>6, <1>7

(* A change of the ticket raises its version, so that what was shown       *)
(* before is older.                                                        *)
LEMMA NewVersionKeepsPage ==
  ASSUME TicketPageInv, NEW s \in Stored, stored' = s, s.version = stored.version + 1
  PROVE  \A t \in Stored : IsOf(t, stored) => IsOf(t, stored')
BY DEF TicketPageInv, TicketPageTypeOK, IsOf, Stored

LEMMA ChangedIsStored ==
  ASSUME NEW t \in Stored, NEW u \in Update, u.op = "add" => u.user \in Colleagues
  PROVE  Changed(t, u) \in Stored /\ Changed(t, u).version = t.version + 1
<1>1. PICK withdrawn \in BOOLEAN : withdrawn = (t.withdrawn \/ u.op = "withdraw")
  OBVIOUS
<1>2. PICK labels \in SUBSET Labels :
        labels = IF u.op \in {"labels", "chip"} THEN u.labels ELSE t.labels
  BY DEF Stored, Update
<1>3. PICK assigned \in SUBSET Colleagues :
        assigned = IF u.op = "add" THEN t.assigned \cup {u.user}
                   ELSE IF u.op = "remove" THEN t.assigned \ {u.user} ELSE t.assigned
  BY DEF Stored
<1>4. Changed(t, u) = [t EXCEPT !.version = t.version + 1, !.withdrawn = withdrawn,
                         !.labels = labels, !.assigned = assigned]
  BY <1>1, <1>2, <1>3 DEF Changed
<1>5. Changed(t, u) = [version |-> t.version + 1, withdrawn |-> withdrawn,
                       labels |-> labels, assigned |-> assigned]
  BY <1>4 DEF Stored
<1> QED
  BY <1>5 DEF Stored

LEMMA ServingKeepsPage ==
  ASSUME TicketPageInv, NEW u \in updates, Serve(u)
  PROVE  TicketPageInv'
<1>0. u \in Update /\ u.version = u.shown.version /\ IsOf(u.shown, stored)
      /\ (u.op = "add" => u.user \in Colleagues) /\ stored \in Stored
      /\ updates \subseteq Update
  BY DEF TicketPageInv, TicketPageTypeOK
<1>1. stored' \in Stored /\ (stored' = stored \/ stored'.version = stored.version + 1)
  BY <1>0, ChangedIsStored DEF Serve
<1>2. \A t \in Stored : IsOf(t, stored) => IsOf(t, stored')
  BY <1>1, NewVersionKeepsPage
<1>3. PICK answer \in {"ok", "refused"} :
        answer = IF Acceptable(u) THEN "ok" ELSE "refused"
  OBVIOUS
<1>4. PICK k : k = [u EXCEPT !.answer = answer]
  OBVIOUS
<1>5. /\ k \in Update /\ k.op = u.op /\ k.version = u.version /\ k.shown = u.shown
      /\ k.user = u.user
  BY <1>0, <1>3, <1>4 DEF Update
<1>6. updates' = (updates \ {u}) \cup {k}
  BY <1>3, <1>4 DEF Serve
<1>7. OneAssignment'
  <2>1. assignLock' = assignLock /\ OneAssignment
    BY DEF Serve, TicketPageInv
  <2> QED
    BY <1>5, <1>6, <2>1 DEF OneAssignment
<1>8. \A w \in updates' : /\ w.version = w.shown.version /\ w.shown \in Stored
                          /\ IsOf(w.shown, stored')
                          /\ w.op = "add" => w.user \in Colleagues
  <2>1. \A w \in updates : /\ w.version = w.shown.version /\ w.shown \in Stored
                           /\ IsOf(w.shown, stored')
                           /\ w.op = "add" => w.user \in Colleagues
    BY <1>0, <1>2 DEF TicketPageInv, Update
  <2> QED
    BY <1>5, <1>6, <2>1
<1>9. UNCHANGED <<view, reading, picker, labelDraft>> /\ updates' \subseteq Update
  BY <1>0, <1>5, <1>6 DEF Serve, labelVars
<1>10. Shown => view \in Stored
  BY DEF TicketPageInv, TicketPageTypeOK
<1>11. reading # Blank /\ reading.stage \in {"row", "whole"} => reading.ticket \in Stored
  BY DEF TicketPageInv, Reading
<1> QED
  BY <1>1, <1>2, <1>7, <1>8, <1>9, <1>10, <1>11 DEF TicketPageInv, TicketPageTypeOK, Shown

LEMMA SettlingKeepsPage ==
  ASSUME TicketPageInv, NEW u \in updates, Settle(u)
  PROVE  TicketPageInv'
<1>1. updates' = updates \ {u} /\ stored' = stored
  BY DEF Settle
<1>2. OneAssignment'
  BY <1>1 DEF Settle, OneAssignment, TicketPageInv
<1>3. reading' \in Reading /\ labelDraft' \in (SUBSET Labels) \cup {Blank}
  BY DEF Settle, TicketPageInv, TicketPageTypeOK, Reading, labelVars
<1>4. /\ Shown' => Shown /\ view' = view
      /\ picker' => picker /\ view' = view
      /\ reading' # Blank /\ reading'.stage \in {"row", "whole"} => reading' = reading
  <2>1. CASE u.answer = "ok" /\ u.op = "withdraw"
    BY <2>1 DEF Settle, Shown
  <2>2. CASE ~(u.answer = "ok" /\ u.op = "withdraw")
    <3>1. UNCHANGED <<view, picker>> /\ reading' \in {reading, [stage |-> "asked"]}
      BY <2>2 DEF Settle, labelVars
    <3> QED
      BY <3>1 DEF Shown
  <2> QED
    BY <2>1, <2>2
<1> QED
  BY <1>1, <1>2, <1>3, <1>4 DEF TicketPageInv, TicketPageTypeOK, Shown

LEMMA ElsewhereKeepsPage ==
  ASSUME TicketPageInv, Elsewhere
  PROVE  TicketPageInv'
<1>0. stored \in Stored
  BY DEF TicketPageInv, TicketPageTypeOK
<1>1. stored' \in Stored /\ stored'.version = stored.version + 1
  <2>1. PICK s \in Stored : s = stored
    BY <1>0
  <2>2. ASSUME NEW labels \in SUBSET Labels, NEW assigned \in SUBSET Colleagues,
               \/ stored' = [s EXCEPT !.labels = labels, !.version = s.version + 1]
               \/ stored' = [s EXCEPT !.assigned = assigned, !.version = s.version + 1]
        PROVE  stored' \in Stored /\ stored'.version = s.version + 1
    <3>1. \/ stored' = [version |-> s.version + 1, withdrawn |-> s.withdrawn,
                        labels |-> labels, assigned |-> s.assigned]
          \/ stored' = [version |-> s.version + 1, withdrawn |-> s.withdrawn,
                        labels |-> s.labels, assigned |-> assigned]
      BY <2>2 DEF Stored
    <3>2. /\ s.version + 1 \in Nat /\ s.withdrawn \in BOOLEAN
          /\ s.labels \in SUBSET Labels /\ s.assigned \in SUBSET Colleagues
      BY DEF Stored
    <3> QED
      BY <3>1, <3>2 DEF Stored
  <2>3. \/ \E labels \in SUBSET Labels :
             stored' = [s EXCEPT !.labels = labels, !.version = s.version + 1]
        \/ \E assigned \in SUBSET Colleagues :
             stored' = [s EXCEPT !.assigned = assigned, !.version = s.version + 1]
    BY <2>1 DEF Elsewhere
  <2> QED
    BY <2>1, <2>2, <2>3
<1>2. \A t \in Stored : IsOf(t, stored) => IsOf(t, stored')
  BY <1>1, NewVersionKeepsPage
<1>3. UNCHANGED <<view, reading, picker, labelDraft, updates, assignLock>>
  BY DEF Elsewhere, labelVars
<1>4. /\ Shown => view \in Stored
      /\ reading # Blank /\ reading.stage \in {"row", "whole"} => reading.ticket \in Stored
      /\ \A w \in updates : w.shown \in Stored
  BY DEF TicketPageInv, TicketPageTypeOK, Reading, Update
<1> QED
  BY <1>1, <1>2, <1>3, <1>4 DEF TicketPageInv, TicketPageTypeOK, Shown, OneAssignment

LEMMA StepKeepsPage ==
  ASSUME TicketPageInv, [TicketPageNext]_ticketPageVars
  PROVE  TicketPageInv'
<1>1. CASE UNCHANGED ticketPageVars
  BY <1>1 DEF ticketPageVars, labelVars, TicketPageInv, TicketPageTypeOK, Shown,
     OneAssignment, IsOf
<1> QED
  BY <1>1, ReadingKeepsPage, ClicksKeepPage, ServingKeepsPage, SettlingKeepsPage,
     ElsewhereKeepsPage DEF TicketPageNext

(* The server takes a change only of the ticket that its user was shown.   *)
LEMMA ChangesAreSeen ==
  ASSUME TicketPageInv
  PROVE  NothingUnseenIsUndone
<1>1. ASSUME NEW u \in updates, Serve(u), stored' # stored
      PROVE  u.shown = stored
  BY <1>1 DEF Serve, Acceptable, TicketPageInv, IsOf
<1>2. Cardinality({u \in updates : u.op \in AssignmentOps}) <= 1
  <2> DEFINE S == {u \in updates : u.op \in AssignmentOps}
  <2>1. CASE S = {}
    BY <2>1, FS_EmptySet
  <2>2. CASE S # {}
    <3>1. PICK u : u \in S
      BY <2>2
    <3>2. \A w \in S : w = u
      BY <3>1 DEF TicketPageInv, OneAssignment
    <3>3. {w \in updates : w.op \in AssignmentOps} = {u}
      BY <3>1, <3>2
    <3>4. Cardinality({w \in updates : w.op \in AssignmentOps}) = 1
      BY <3>3, FS_Singleton, Zenon
    <3> QED
      BY <3>4
  <2> QED
    BY <2>1, <2>2
<1> QED
  BY <1>1, <1>2 DEF NothingUnseenIsUndone

-----------------------------------------------------------------------------
(* What is written, sent and stored as an internal note is an agent's, and *)
(* what is being sent is what the box holds.                               *)
TalkInv ==
  /\ ConversationTypeOK
  /\ composer.internal => IsAgent
  /\ posting # Blank => posting = composer
  /\ TRUE \in files => IsAgent
  /\ \A r \in replies : r.internal => IsAgent

LEMMA TalkInitIsSound == ConversationInit => TalkInv
<1> SUFFICES ASSUME ConversationInit PROVE TalkInv
  OBVIOUS
<1>1. remark \in Remark
  BY DEF ConversationInit, Remark
<1>2. remarkShown \in Remark \cup {Blank}
  BY <1>1 DEF ConversationInit, Visible
<1>3. composer \in Reply /\ ~composer.internal
  BY DEF ConversationInit, Reply
<1> QED
  BY <1>1, <1>2, <1>3 DEF ConversationInit, TalkInv, ConversationTypeOK

LEMMA WritingKeepsTalk ==
  ASSUME TalkInv, myRole' = myRole,
         \/ \E text \in Phrases \cup {Blank} : Write(text) \/ EditTo(text)
         \/ ToggleInternal \/ AddComment \/ StartEdit \/ SaveEdit
  PROVE  TalkInv'
<1>0. PICK box \in Reply : box = composer
  BY DEF TalkInv, ConversationTypeOK
<1>1. ASSUME NEW text \in Phrases \cup {Blank}, Write(text) PROVE TalkInv'
  <2>1. PICK new : new = [box EXCEPT !.text = text]
    OBVIOUS
  <2>2. new \in Reply /\ new.internal = box.internal
    BY <2>1 DEF Reply
  <2> QED
    BY <1>0, <1>1, <2>1, <2>2
       DEF Write, MayWrite, TalkInv, ConversationTypeOK, IsAgent
<1>2. ASSUME NEW text \in Phrases \cup {Blank}, EditTo(text) PROVE TalkInv'
  BY <1>2 DEF EditTo, TalkInv, ConversationTypeOK, IsAgent
<1>3. CASE ToggleInternal
  <2>1. PICK new : new = [box EXCEPT !.internal = ~box.internal]
    OBVIOUS
  <2>2. new \in Reply
    BY <2>1 DEF Reply
  <2>3. composer' = new
    BY <1>0, <1>3, <2>1 DEF ToggleInternal
  <2> QED
    BY <1>3, <2>2, <2>3 DEF ToggleInternal, TalkInv, ConversationTypeOK, IsAgent
<1>4. CASE AddComment
  BY <1>4 DEF AddComment, TalkInv, ConversationTypeOK, IsAgent
<1>5. CASE StartEdit
  <2>1. editor' \in Phrases
    BY <1>5 DEF StartEdit, TalkInv, ConversationTypeOK, Remark
  <2> QED
    BY <1>5, <2>1 DEF StartEdit, TalkInv, ConversationTypeOK, IsAgent
<1>6. CASE SaveEdit
  BY <1>6 DEF SaveEdit, TalkInv, ConversationTypeOK, IsAgent
<1> QED
  BY <1>1, <1>2, <1>3, <1>4, <1>5, <1>6

LEMMA AnswersKeepTalk ==
  ASSUME TalkInv, myRole' = myRole,
         \/ CommentAdded \/ CommentFailed \/ UploadToTicket
         \/ \E internal \in BOOLEAN : Uploaded(internal)
  PROVE  TalkInv'
<1>0. PICK box \in Reply : box = composer
  BY DEF TalkInv, ConversationTypeOK
<1>a. Refresh => remarkShown' \in Remark \cup {Blank}
  BY DEF Refresh, Visible, TalkInv, ConversationTypeOK
<1>1. CASE CommentAdded
  <2>1. PICK new : new = [box EXCEPT !.text = Blank]
    OBVIOUS
  <2>2. new \in Reply /\ new.internal = box.internal
    BY <2>1 DEF Reply
  <2>3. /\ composer' = new /\ replies' = replies \cup {box} /\ posting' = Blank
        /\ UNCHANGED <<remark, files, editor, saving, talk>>
    BY <1>0, <1>1, <2>1 DEF CommentAdded, TalkInv
  <2> QED
    BY <1>0, <1>a, <1>1, <2>2, <2>3
       DEF CommentAdded, TalkInv, ConversationTypeOK, IsAgent
<1>2. CASE CommentFailed
  BY <1>2 DEF CommentFailed, TalkInv, ConversationTypeOK, IsAgent
<1>3. CASE UploadToTicket
  <2>1. box.internal \in BOOLEAN
    BY DEF Reply
  <2> QED
    BY <1>0, <1>3, <2>1 DEF UploadToTicket, TalkInv, ConversationTypeOK, IsAgent
<1>4. ASSUME NEW internal \in BOOLEAN, Uploaded(internal) PROVE TalkInv'
  <2>1. PICK r : r = [text |-> Blank, internal |-> internal]
    OBVIOUS
  <2>a. r \in Reply /\ r.internal = internal
    BY <2>1 DEF Reply
  <2>2. internal => IsAgent
    BY <1>4 DEF Uploaded, TalkInv
  <2>3. replies' \in {replies, replies \cup {r}} /\ files' = files \ {internal}
    BY <1>4, <2>1 DEF Uploaded
  <2>4. remarkShown' \in Remark \cup {Blank}
    BY <1>4, <1>a DEF Uploaded, TalkInv, ConversationTypeOK
  <2> QED
    BY <1>4, <2>a, <2>2, <2>3, <2>4 DEF Uploaded, TalkInv, ConversationTypeOK, IsAgent
<1> QED
  BY <1>1, <1>2, <1>3, <1>4

LEMMA RemarkKeepsTalk ==
  ASSUME TalkInv, myRole' = myRole,
         EditSaved \/ DeleteComment \/ ReadAgain \/ RemarkChanges
  PROVE  TalkInv'
<1>0. PICK e \in Remark : e = remark
  BY DEF TalkInv, ConversationTypeOK
<1>1. UNCHANGED <<composer, posting, replies, files>>
  BY DEF EditSaved, DeleteComment, ReadAgain, RemarkChanges
<1>2. \A f \in Remark : Visible(f) \in Remark \cup {Blank}
  BY DEF Visible
<1>3. /\ \A text \in Phrases : [e EXCEPT !.text = text] \in Remark
      /\ [e EXCEPT !.deleted = TRUE] \in Remark /\ [e EXCEPT !.old = TRUE] \in Remark
  BY DEF Remark
<1>4. remark' \in Remark
  BY <1>0, <1>3 DEF EditSaved, DeleteComment, ReadAgain, RemarkChanges, TalkInv, ConversationTypeOK
<1>5. remarkShown' \in Remark \cup {Blank}
  <2>1. PICK f \in Remark : f = remark'
    BY <1>4
  <2>2. remarkShown' \in {remarkShown, Visible(e), Visible(f)}
    BY <1>0, <2>1 DEF EditSaved, DeleteComment, ReadAgain, RemarkChanges, Refresh
  <2> QED
    BY <1>2, <2>2 DEF TalkInv, ConversationTypeOK
<1>6. {editor', saving'} \subseteq {editor, saving, Blank}
  BY DEF EditSaved, DeleteComment, ReadAgain, RemarkChanges
<1> QED
  BY <1>1, <1>4, <1>5, <1>6 DEF TalkInv, ConversationTypeOK, IsAgent

LEMMA StepKeepsTalk ==
  ASSUME TalkInv, myRole' = myRole, [ConversationNext]_talkVars
  PROVE  TalkInv'
<1>1. CASE UNCHANGED talkVars
  BY <1>1 DEF talkVars, TalkInv, ConversationTypeOK, IsAgent
<1> QED
  BY <1>1, WritingKeepsTalk, AnswersKeepTalk, RemarkKeepsTalk DEF ConversationNext

(* The rules of the page and of the server are the same rules.             *)
LEMMA TalkIsAlwaysPermitted ==
  ASSUME TalkInv
  PROVE  TalkIsPermitted
BY DEF TalkInv, TalkIsPermitted, CanEditTimelineEvent, EditPermitted,
       CanDeleteTimelineEvent, DeletionPermitted, OwnConversationEntry, IsAgent

LEMMA RepliesAreSentAsWritten ==
  ASSUME TalkInv
  PROVE  SentAsWritten
BY DEF TalkInv, SentAsWritten

-----------------------------------------------------------------------------
(* A column is searched for a role exactly if the role is shown it, since  *)
(* a form has a key and a meaning once at most.                            *)
LEMMA SearchedIsShown ==
  ASSUME NEW t \in ListedTicket, NEW column \in Hideable \cup {"priority"}, NEW role
  PROVE  ColumnSearchable(t, column, role) <=> TicketBuiltInAllowed(t, column, role)
<1>0. /\ t.fields \in Snapshots /\ column # None /\ column # "other"
  BY SnapshotsAssumption, NoneAssumption DEF ListedTicket, Hideable
<1>1. ASSUME NEW found \in SUBSET t.fields, \A f, g \in found : f = g
      PROVE  Gate(found, role) <=> \A f \in found : f.isActive /\ role \in f.visibleTo
  BY <1>1 DEF Gate
<1>2. /\ \A f, g \in FoundByKey(t, column) : f = g
      /\ \A f, g \in FoundByMeaning(t, column) : f = g
  BY <1>0, SnapshotsAssumption DEF FoundByKey, FoundByMeaning
<1>3. /\ Gate(FoundByKey(t, column), role) <=>
           \A f \in FoundByKey(t, column) : f.isActive /\ role \in f.visibleTo
      /\ Gate(FoundByMeaning(t, column), role) <=>
           \A f \in FoundByMeaning(t, column) : f.isActive /\ role \in f.visibleTo
  BY <1>1, <1>2 DEF FoundByKey, FoundByMeaning
<1> QED
  BY <1>3 DEF ColumnSearchable, TicketBuiltInAllowed, FoundByKey, FoundByMeaning

LEMMA RoleOfReader ==
  ASSUME NEW r \in Reader
  PROVE  /\ r.id \in Users /\ r.queues \in SUBSET Queues
         /\ Role[r.id] \in {"USER", "AGENT", "ADMIN", "SUPER_ADMIN"}
BY RulesAssumption DEF Reader, Roles

(* Whoever is listed a ticket may open it.                                 *)
LEMMA ListedIsAccessible ==
  ASSUME NEW r \in Reader, NEW t \in ListedTicket, NEW q, ListTickets(r, q, t)
  PROVE  CanAccessTicket({<<r.id, queue>> : queue \in r.queues}, r.id, t)
<1>1. TicketVisible(r, NormalizeTicketView(Role[r.id], q.view, q.search), t)
  BY DEF ListTickets, Listed
<1> QED
  BY <1>1, RoleOfReader DEF TicketVisible, CanAccessTicket, CanAccessQueue, IsSuperAdmin, IsAgentRole

(* Whoever may open a ticket is listed it in their broadest view.          *)
LEMMA AccessibleIsListed ==
  ASSUME NEW r \in Reader, NEW t \in ListedTicket, t.status # "WITHDRAWN",
         CanAccessTicket({<<r.id, queue>> : queue \in r.queues}, r.id, t)
  PROVE  ListTickets(r, [NoFilter EXCEPT !.view = BroadestTicketView(Role[r.id])], t)
<1>1. PICK v \in Views : v = BroadestTicketView(Role[r.id])
  BY DEF BroadestTicketView, Views
<1>2. PICK q : q = [NoFilter EXCEPT !.view = v]
  OBVIOUS
<1>3. q = [view |-> v, queueId |-> None, statuses |-> {}, priority |-> None, search |-> FALSE]
  BY <1>2 DEF NoFilter
<1>4. /\ q.view = v /\ q.queueId = None /\ q.statuses = {} /\ q.priority = None
      /\ q.search = FALSE
  BY <1>3
<1>5. v # None /\ NormalizeTicketView(Role[r.id], v, FALSE) = v
  BY <1>1, NoneAssumption DEF NormalizeTicketView, Views, BroadestTicketView
<1>6. TicketVisible(r, v, t)
  BY <1>1, RoleOfReader
     DEF TicketVisible, BroadestTicketView, CanAccessTicket, CanAccessQueue, IsSuperAdmin, IsAgentRole
<1> QED
  BY <1>1, <1>2, <1>4, <1>5, <1>6 DEF ListTickets, ListRefused, Listed
(* What a card counts is in the list that it leads to: the same statuses,  *)
(* and the departments of the broadest view.                               *)
CardStatuses(card) ==
  CASE card = "total" -> {}
    [] card = "open" -> {"NEW", "OPEN"}
    [] card = "pending" -> {"PENDING_USER", "PENDING_AGENT"}
    [] card = "resolved" -> {"RESOLVED", "CLOSED"}
    [] card = "urgent" -> OpenStatuses

LEMMA CardQuery ==
  ASSUME NEW r \in Reader, NEW card \in Cards
  PROVE  \E v \in Views :
           /\ v = BroadestTicketView(Role[r.id])
           /\ TicketHref(card, r) =
                [view |-> v, queueId |-> None, statuses |-> CardStatuses(card),
                 priority |-> IF card = "urgent" THEN "URGENT" ELSE None,
                 search |-> FALSE]
<1>1. PICK v \in Views : v = BroadestTicketView(Role[r.id])
  BY DEF BroadestTicketView, Views
<1>2. TicketHref(card, r) =
        [NoFilter EXCEPT !.view = v, !.statuses = CardStatuses(card),
                         !.priority = IF card = "urgent" THEN "URGENT" ELSE None]
  BY <1>1, Zenon DEF TicketHref, CardStatuses
<1> QED
  BY <1>1, <1>2 DEF NoFilter

LEMMA CardsCountTheirLists ==
  ASSUME NEW r \in Reader, NEW t \in ListedTicket, NEW card \in Cards
  PROVE  Counted(card, r, t) <=> ListTickets(r, TicketHref(card, r), t)
<1>1. PICK v \in Views :
        /\ v = BroadestTicketView(Role[r.id])
        /\ TicketHref(card, r) =
             [view |-> v, queueId |-> None, statuses |-> CardStatuses(card),
              priority |-> IF card = "urgent" THEN "URGENT" ELSE None,
              search |-> FALSE]
  BY CardQuery
<1>2. PICK q : q = TicketHref(card, r)
  OBVIOUS
<1>3. /\ q.view = v /\ q.queueId = None /\ q.statuses = CardStatuses(card)
      /\ q.priority = IF card = "urgent" THEN "URGENT" ELSE None
      /\ q.search = FALSE
  BY <1>1, <1>2
<1>4. NormalizeTicketView(Role[r.id], v, FALSE) = v
  BY <1>1, NoneAssumption DEF NormalizeTicketView, Views, BroadestTicketView
<1>5. TicketVisible(r, v, t) <=> InDepartments(r, t)
  BY <1>1, RoleOfReader DEF TicketVisible, InDepartments, BroadestTicketView
<1>6. ListTickets(r, q, t) <=>
        /\ InDepartments(r, t)
        /\ IF q.statuses = {} THEN t.status # "WITHDRAWN" ELSE t.status \in q.statuses
        /\ q.priority # None =>
             ColumnSearchable(t, "priority", Role[r.id]) /\ t.priority = q.priority
  BY <1>3, <1>4, <1>5 DEF ListTickets, ListRefused, Listed
<1>7. t.status \in {"NEW", "OPEN", "PENDING_USER", "PENDING_AGENT", "RESOLVED", "CLOSED", "WITHDRAWN"}
  BY DEF ListedTicket, Statuses, OpenStatuses
<1>8. None # "URGENT"
  BY RulesAssumption DEF Priorities
<1>9. CASE card = "total"
  BY <1>2, <1>3, <1>6, <1>9 DEF Counted, CardStatuses
<1>10. CASE card = "urgent"
  <2>1. q.statuses = {"NEW", "OPEN", "PENDING_USER", "PENDING_AGENT"} /\ q.priority = "URGENT"
    BY <1>3, <1>10 DEF CardStatuses, OpenStatuses
  <2> QED
    BY <1>2, <1>6, <1>7, <1>8, <1>10, <2>1 DEF Counted
<1>11. CASE card \in {"open", "pending", "resolved"}
  <2>1. q.priority = None /\ q.statuses = CardStatuses(card)
    BY <1>3, <1>11
  <2> QED
    BY <1>2, <1>6, <1>7, <1>11, <2>1 DEF Counted, CardStatuses
<1> QED
  BY <1>9, <1>10, <1>11 DEF Cards

LEMMA ListsAlwaysAgree ==
  ASSUME reader \in Reader, listed \in ListedTicket
  PROVE  ListsAgree /\ SearchesWhatIsShown
<1>1. PICK r \in Reader, t \in ListedTicket : r = reader /\ t = listed
  OBVIOUS
<1>2. ListsAgree
  BY <1>1, ListedIsAccessible, AccessibleIsListed, CardsCountTheirLists DEF ListsAgree
<1>3. SearchesWhatIsShown
  BY <1>1, SearchedIsShown DEF SearchesWhatIsShown
<1> QED
  BY <1>2, <1>3

-----------------------------------------------------------------------------
(* The addresses that the page wrote are known to it until they come: the  *)
(* last one is the latest, the one before it is expected or there already. *)
(* And once no address of its own is on the way, the address is one of the *)
(* filters that are shown.                                                 *)
Routed == [url : Address, own : BOOLEAN]
OwnAreKnown(queue, pending, latest, a) ==
  \/ queue = <<>>
  \/ \E x \in Routed : queue = <<x>> /\ (x.own => x.url \in pending \cup {a})
  \/ \E x, y \in Routed :
       /\ queue = <<x, y>>
       /\ x.own => x.url \in pending \cup {a}
       /\ y.own => y.url \in pending /\ y.url = latest

FiltersInv ==
  /\ FiltersTypeOK
  /\ OwnAreKnown(routing, pendingUrls, latestOwnUrl, address)
  /\ latestOwnUrl = NoText => FromAddress(address) = filter

LEMMA FromAddressIsFilter ==
  ASSUME NEW a \in Address
  PROVE  FromAddress(a) \in Filter
<1>1. PICK v : v = IF a.view # NoText THEN a.view
                   ELSE IF a.search # NoText THEN Broadest ELSE "my"
  OBVIOUS
<1>2. v \in FilterView
  BY <1>1 DEF Address, FilterView
<1>3. FromAddress(a) = [a EXCEPT !.view = v]
  BY <1>1 DEF FromAddress
<1>4. FromAddress(a) = [view |-> v, search |-> a.search, page |-> a.page]
  BY <1>3 DEF Address
<1> QED
  BY <1>2, <1>4 DEF Filter, Address

(* The address of filters stands for them.                                 *)
LEMMA AddressOfFilters ==
  ASSUME NEW f \in Filter, NEW explicit \in BOOLEAN
  PROVE  ToAddress(f, explicit) \in Address /\ FromAddress(ToAddress(f, explicit)) = f
<1>1. PICK v : v = IF f.view # "my" \/ f.search # NoText \/ explicit THEN f.view ELSE NoText
  OBVIOUS
<1>2. PICK a : a = ToAddress(f, explicit)
  OBVIOUS
<1>3. a = [f EXCEPT !.view = v]
  BY <1>1, <1>2 DEF ToAddress
<1>4. a = [view |-> v, search |-> f.search, page |-> f.page]
  BY <1>3 DEF Filter
<1>5. v \in FilterView \cup {NoText} /\ f.view \in FilterView
  BY <1>1 DEF Filter
<1>6. a \in Address
  BY <1>4, <1>5 DEF Address, Filter
<1>7. f.view = IF v # NoText THEN v ELSE IF f.search # NoText THEN Broadest ELSE "my"
  BY <1>1, <1>5, NoTextAssumption
<1>8. FromAddress(a) = [a EXCEPT !.view = f.view]
  BY <1>4, <1>7 DEF FromAddress
<1>9. FromAddress(a) = [view |-> f.view, search |-> f.search, page |-> f.page]
  BY <1>4, <1>8
<1> QED
  BY <1>2, <1>6, <1>9 DEF Filter

LEMMA RequestedQueue ==
  ASSUME NEW x \in Routed, NEW y \in Routed, NEW z \in Routed
  PROVE  /\ Requested(<<>>, z) = <<z>>
         /\ Requested(<<x>>, z) = <<x, z>>
         /\ Requested(<<x, y>>, z) = <<x, z>>
<1>1. Len(<<>>) = 0 /\ Len(<<x>>) = 1 /\ Len(<<x, y>>) = 2 /\ Head(<<x, y>>) = x
  OBVIOUS
<1>2. Append(<<>>, z) = <<z>> /\ Append(<<x>>, z) = <<x, z>>
  <2>1. <<>> \in Seq(Routed) /\ <<x>> \in Seq(Routed) /\ <<z>> \in Seq(Routed)
        /\ <<x, z>> \in Seq(Routed)
    OBVIOUS
  <2>2. /\ Append(<<>>, z) \in Seq(Routed) /\ Len(Append(<<>>, z)) = 1
        /\ Append(<<>>, z)[1] = z
    BY <1>1, <2>1, AppendProperties
  <2>3. /\ Append(<<x>>, z) \in Seq(Routed) /\ Len(Append(<<x>>, z)) = 2
        /\ Append(<<x>>, z)[1] = x /\ Append(<<x>>, z)[2] = z
    BY <1>1, <2>1, AppendProperties
  <2>4. Append(<<>>, z) = <<z>>
    BY <2>1, <2>2, SeqEqual
  <2>5. Append(<<x>>, z) = <<x, z>>
    <3>1. Len(<<x, z>>) = 2 /\ <<x, z>>[1] = x /\ <<x, z>>[2] = z
      OBVIOUS
    <3>2. \A i \in 1 .. Len(<<x, z>>) : <<x, z>>[i] = Append(<<x>>, z)[i]
      BY <2>3, <3>1
    <3> QED
      BY <2>1, <2>3, <3>1, <3>2, SeqEqual
  <2> QED
    BY <2>4, <2>5
<1>3. Requested(<<>>, z) = <<z>>
  BY <1>1, <1>2 DEF Requested
<1>4. Requested(<<x>>, z) = <<x, z>>
  BY <1>1, <1>2 DEF Requested
<1>5. Requested(<<x, y>>, z) = <<x, z>>
  BY <1>1 DEF Requested
<1> QED
  BY <1>3, <1>4, <1>5

(* A request adds an address at the end, or in place of the last of two.   *)
LEMMA RequestingKeepsOwn ==
  ASSUME NEW queue, NEW pending, NEW latest, NEW a, OwnAreKnown(queue, pending, latest, a),
         NEW more, NEW last, pending \subseteq more, NEW z \in Routed,
         z.own => z.url \in more /\ z.url = last
  PROVE  OwnAreKnown(Requested(queue, z), more, last, a)
<1>1. CASE queue = <<>>
  <2>1. Requested(queue, z) = <<z>>
    BY <1>1, RequestedQueue
  <2> QED
    BY <2>1 DEF OwnAreKnown
<1>2. CASE \E x \in Routed : queue = <<x>> /\ (x.own => x.url \in pending \cup {a})
  <2>1. PICK x \in Routed : queue = <<x>> /\ (x.own => x.url \in pending \cup {a})
    BY <1>2
  <2>2. Requested(queue, z) = <<x, z>>
    BY <2>1, RequestedQueue
  <2> QED
    BY <2>1, <2>2 DEF OwnAreKnown
<1>3. CASE \E x, y \in Routed : queue = <<x, y>> /\ (x.own => x.url \in pending \cup {a})
  <2>1. PICK x \in Routed, y \in Routed :
          queue = <<x, y>> /\ (x.own => x.url \in pending \cup {a})
    BY <1>3
  <2>2. Requested(queue, z) = <<x, z>>
    BY <2>1, RequestedQueue
  <2> QED
    BY <2>1, <2>2 DEF OwnAreKnown
<1> QED
  BY <1>1, <1>2, <1>3 DEF OwnAreKnown

(* The effect that writes the address.                                     *)
LEMMA SyncKeepsFilters ==
  ASSUME NEW f \in Filter, NEW explicit \in BOOLEAN, NEW a \in Address,
         NEW pending \in SUBSET Address, NEW latest, latest \in Address \cup {NoText},
         NEW queue, OwnAreKnown(queue, pending, latest, a),
         SyncUrl(f, explicit, a, pending, latest, queue),
         filter' = f, scopeExplicit' = explicit, address' = a, searchInput' \in Texts
  PROVE  FiltersInv'
<1>1. PICK b \in Address : b = ToAddress(f, explicit) /\ FromAddress(b) = f
  BY AddressOfFilters
<1>2. CASE b = a
  <2>1. pendingUrls' = pending /\ latestOwnUrl' = latest /\ routing' = queue
    BY <1>1, <1>2 DEF SyncUrl
  <2> QED
    BY <1>1, <1>2, <2>1 DEF FiltersInv, FiltersTypeOK
<1>3. CASE b # a
  <2>a. [url |-> b, own |-> TRUE] \in Routed
    BY DEF Routed
  <2>1. PICK x \in Routed : x = [url |-> b, own |-> TRUE] /\ x.url = b
    BY <2>a
  <2>2. /\ pendingUrls' = pending \cup {b} /\ latestOwnUrl' = b
        /\ routing' = Requested(queue, x)
    BY <1>1, <1>3, <2>1 DEF SyncUrl
  <2>3. OwnAreKnown(routing', pendingUrls', latestOwnUrl', a)
    BY <2>1, <2>2, RequestingKeepsOwn
  <2> QED
    BY <1>1, <2>2, <2>3, NoTextAssumption DEF FiltersInv, FiltersTypeOK
<1> QED
  BY <1>2, <1>3

LEMMA ChangesKeepFilters ==
  ASSUME FiltersInv,
         \/ \E v \in FilterView : ChooseView(v)
         \/ \E p \in {1, 2} : ChoosePage(p)
         \/ ResetFilters \/ ApplySearch
  PROVE  FiltersInv'
<1>1. ASSUME NEW f \in Filter, NEW explicit \in BOOLEAN, ChangeFilters(f, explicit),
             searchInput' \in Texts
      PROVE  FiltersInv'
  <2>1. /\ SyncUrl(f, explicit, address, pendingUrls, latestOwnUrl, routing)
        /\ filter' = f /\ scopeExplicit' = explicit /\ address' = address
    BY <1>1 DEF ChangeFilters
  <2> QED
    BY <1>1, <2>1, SyncKeepsFilters DEF FiltersInv, FiltersTypeOK
<1>2. PICK f \in Filter : f = filter
  BY DEF FiltersInv, FiltersTypeOK
<1>3. searchInput \in Texts /\ scopeExplicit \in BOOLEAN
  BY DEF FiltersInv, FiltersTypeOK
<1>4. \A v \in FilterView : [f EXCEPT !.view = v, !.page = 1] \in Filter
  BY DEF Filter
<1>5. \A p \in {1, 2} : [f EXCEPT !.page = p] \in Filter
  BY DEF Filter
<1>6. \A v \in FilterView, text \in Texts : [view |-> v, search |-> text, page |-> 1] \in Filter
  BY DEF Filter
<1>7. ASSUME NEW v \in FilterView, ChooseView(v) PROVE FiltersInv'
  <2>1. [f EXCEPT !.view = v, !.page = 1] \in Filter
    BY <1>4
  <2> QED
    BY <1>1, <1>2, <1>3, <1>7, <2>1 DEF ChooseView
<1>8. ASSUME NEW p \in {1, 2}, ChoosePage(p) PROVE FiltersInv'
  BY <1>1, <1>2, <1>3, <1>5, <1>8 DEF ChoosePage
<1>9. CASE ResetFilters
  <2>1. [view |-> "my", search |-> NoText, page |-> 1] \in Filter /\ NoText \in Texts
    BY <1>6 DEF FilterView, Texts
  <2> QED
    BY <1>1, <1>9, <2>1 DEF ResetFilters
<1>10. CASE ApplySearch
  <2>1. PICK v \in FilterView :
          v = IF searchInput # NoText /\ filter.search = NoText /\ ~scopeExplicit
              THEN Broadest ELSE filter.view
    BY <1>2 DEF Filter, FilterView
  <2>2. ChangeFilters([view |-> v, search |-> searchInput, page |-> 1], scopeExplicit)
        /\ searchInput' = searchInput
    BY <1>10, <2>1 DEF ApplySearch
  <2> QED
    BY <1>1, <1>3, <1>6, <2>1, <2>2
<1> QED
  BY <1>7, <1>8, <1>9, <1>10

LEMMA WaysKeepFilters ==
  ASSUME FiltersInv,
         \/ \E text \in Texts : TypeSearch(text)
         \/ \E a \in Address : FollowLink(a)
         \/ PassOver
  PROVE  FiltersInv'
<1>1. ASSUME NEW text \in Texts, TypeSearch(text) PROVE FiltersInv'
  BY <1>1 DEF TypeSearch, FiltersInv, FiltersTypeOK
<1>2. ASSUME NEW a \in Address, FollowLink(a) PROVE FiltersInv'
  <2>a. [url |-> a, own |-> FALSE] \in Routed
    BY DEF Routed
  <2>1. PICK x \in Routed : x = [url |-> a, own |-> FALSE] /\ ~x.own
    BY <2>a
  <2>2. routing' = Requested(routing, x)
    BY <1>2, <2>1 DEF FollowLink
  <2>3. OwnAreKnown(routing', pendingUrls, latestOwnUrl, address)
    BY <2>1, <2>2, RequestingKeepsOwn DEF FiltersInv
  <2> QED
    BY <1>2, <2>3 DEF FollowLink, FiltersInv, FiltersTypeOK
<1>3. CASE PassOver
  <2>1. PICK x \in Routed, y \in Routed :
          routing = <<x, y>> /\ (y.own => y.url \in pendingUrls)
    BY <1>3 DEF PassOver, FiltersInv, OwnAreKnown
  <2>2. routing' = <<y>>
    BY <1>3, <2>1 DEF PassOver
  <2>3. OwnAreKnown(routing', pendingUrls, latestOwnUrl, address)
    BY <2>1, <2>2 DEF OwnAreKnown
  <2> QED
    BY <1>3, <2>3 DEF PassOver, FiltersInv, FiltersTypeOK
<1> QED
  BY <1>1, <1>2, <1>3

(* What is left of the queue when its first address has come.              *)
LEMMA RestOfQueue ==
  ASSUME FiltersInv, routing # <<>>
  PROVE  \E x \in Routed :
           /\ Head(routing) = x
           /\ x.own => x.url \in pendingUrls \cup {address}
           /\ \/ Tail(routing) = <<>> /\ routing = <<x>>
              \/ \E y \in Routed :
                   /\ Tail(routing) = <<y>> /\ routing = <<x, y>>
                   /\ y.own => y.url \in pendingUrls /\ y.url = latestOwnUrl
<1>1. CASE \E x \in Routed : routing = <<x>> /\ (x.own => x.url \in pendingUrls \cup {address})
  <2>1. PICK x \in Routed : routing = <<x>> /\ (x.own => x.url \in pendingUrls \cup {address})
    BY <1>1
  <2>2. Head(routing) = x /\ Tail(routing) = <<>>
    BY <2>1
  <2> QED
    BY <2>1, <2>2
<1>2. CASE \E x, y \in Routed :
             /\ routing = <<x, y>>
             /\ x.own => x.url \in pendingUrls \cup {address}
             /\ y.own => y.url \in pendingUrls /\ y.url = latestOwnUrl
  <2>1. PICK x \in Routed, y \in Routed :
             /\ routing = <<x, y>>
             /\ x.own => x.url \in pendingUrls \cup {address}
             /\ y.own => y.url \in pendingUrls /\ y.url = latestOwnUrl
    BY <1>2
  <2>2. Head(routing) = x /\ Tail(routing) = <<y>>
    BY <2>1
  <2> QED
    BY <2>1, <2>2
<1> QED
  BY <1>1, <1>2 DEF FiltersInv, OwnAreKnown

LEMMA OvertakenQueue ==
  ASSUME FiltersInv, routing # <<>>, NEW pending, NEW latest, NEW a
  PROVE  OwnAreKnown(Overtaken, pending, latest, a)
<1>1. PICK x \in Routed :
        routing = <<x>> \/ \E y \in Routed : routing = <<x, y>>
  BY RestOfQueue
<1>2. CASE routing = <<x>>
  <2>1. Overtaken = [i \in {} |-> [routing[i + 1] EXCEPT !.own = FALSE]]
    BY <1>2 DEF Overtaken
  <2>2. Overtaken = <<>>
    BY <2>1
  <2> QED
    BY <2>2 DEF OwnAreKnown
<1>3. CASE \E y \in Routed : routing = <<x, y>>
  <2>1. PICK y \in Routed : routing = <<x, y>>
    BY <1>3
  <2>a. [y EXCEPT !.own = FALSE] \in Routed /\ ~[y EXCEPT !.own = FALSE].own
    BY DEF Routed
  <2>2. PICK z \in Routed : z = [y EXCEPT !.own = FALSE] /\ ~z.own
    BY <2>a
  <2>b. Len(routing) = 2 /\ routing[2] = y
    BY <2>1
  <2>3. Overtaken = [i \in 1..1 |-> z]
    <3>1. ASSUME NEW i \in 1 .. 1 PROVE [routing[i + 1] EXCEPT !.own = FALSE] = z
      <4>1. i + 1 = 2
        OBVIOUS
      <4>2. routing[i + 1] = y
        BY <2>b, <4>1
      <4> QED
        BY <2>2, <4>2
    <3>a. Len(routing) - 1 = 1
      BY <2>b
    <3>2. 1 .. Len(routing) - 1 = 1 .. 1
      BY <3>a, Zenon
    <3>3. Overtaken = [i \in 1 .. 1 |-> [routing[i + 1] EXCEPT !.own = FALSE]]
      BY <3>2, Zenon DEF Overtaken
    <3>4. [i \in 1 .. 1 |-> [routing[i + 1] EXCEPT !.own = FALSE]] = [i \in 1 .. 1 |-> z]
      BY <3>1, Zenon
    <3> QED
      BY <3>3, <3>4
  <2>4. Overtaken = <<z>>
    BY <2>3
  <2> QED
    BY <2>2, <2>4 DEF OwnAreKnown
<1> QED
  BY <1>1, <1>2, <1>3

LEMMA CommitKeepsFilters ==
  ASSUME FiltersInv, CommitAddress
  PROVE  FiltersInv'
<1>0. routing # <<>>
  BY DEF CommitAddress
<1>1. PICK a \in Address : a = Head(routing).url
  BY <1>0, RestOfQueue DEF Routed
<1>2. address' = a
  BY <1>1 DEF CommitAddress
<1>3. CASE a = address
  <2>1. /\ routing' = Tail(routing)
        /\ UNCHANGED <<searchInput, filter, scopeExplicit, pendingUrls, latestOwnUrl>>
    BY <1>1, <1>3 DEF CommitAddress
  <2>2. OwnAreKnown(routing', pendingUrls, latestOwnUrl, address)
    BY <1>0, <2>1, RestOfQueue DEF FiltersInv, OwnAreKnown
  <2> QED
    BY <1>2, <1>3, <2>1, <2>2 DEF FiltersInv, FiltersTypeOK
<1>4. CASE a # address /\ IsOwn(a)
  <2>1. PICK pending \in SUBSET Address :
          pending = IF latestOwnUrl = a THEN {} ELSE pendingUrls \ {a}
    BY DEF FiltersInv, FiltersTypeOK
  <2>2. PICK latest : latest = IF latestOwnUrl = a THEN NoText ELSE latestOwnUrl
    OBVIOUS
  <2>3. /\ SyncUrl(filter, scopeExplicit, a, pending, latest, Tail(routing))
        /\ UNCHANGED <<searchInput, filter, scopeExplicit>>
    BY <1>1, <1>4, <2>1, <2>2 DEF CommitAddress
  <2>4. OwnAreKnown(Tail(routing), pending, latest, a)
    BY <1>0, <2>1, RestOfQueue DEF FiltersInv, OwnAreKnown
  <2>5. latest \in Address \cup {NoText} /\ filter \in Filter /\ scopeExplicit \in BOOLEAN
        /\ searchInput \in Texts
    BY <2>2 DEF FiltersInv, FiltersTypeOK
  <2> QED
    BY <1>2, <2>3, <2>4, <2>5, SyncKeepsFilters
<1>5. CASE a # address /\ ~IsOwn(a)
  <2>1. PICK f \in Filter : f = FromAddress(a)
    BY FromAddressIsFilter
  <2>2. PICK explicit \in BOOLEAN : explicit = (a.view # NoText)
    OBVIOUS
  <2>3. /\ filter' = f /\ searchInput' = a.search /\ scopeExplicit' = explicit
        /\ IF f = filter
             THEN pendingUrls' = {} /\ latestOwnUrl' = NoText /\ routing' = Overtaken
             ELSE SyncUrl(f, explicit, a, {}, NoText, Overtaken)
    BY <1>1, <1>5, <2>1, <2>2 DEF CommitAddress
  <2>4. searchInput' \in Texts
    BY <2>3 DEF Address
  <2>5. CASE f = filter
    BY <1>0, <1>2, <2>1, <2>3, <2>4, <2>5, OvertakenQueue DEF FiltersInv, FiltersTypeOK
  <2>6. CASE f # filter
    BY <1>0, <1>2, <2>3, <2>4, <2>6, OvertakenQueue, SyncKeepsFilters
  <2> QED
    BY <2>5, <2>6
<1> QED
  BY <1>3, <1>4, <1>5

LEMMA FiltersInitIsSound == FiltersInit => FiltersInv
<1> SUFFICES ASSUME FiltersInit PROVE FiltersInv
  OBVIOUS
<1>1. filter \in Filter /\ searchInput \in Texts
  BY FromAddressIsFilter DEF FiltersInit, Address
<1> QED
  BY <1>1 DEF FiltersInit, FiltersInv, FiltersTypeOK, OwnAreKnown

LEMMA StepKeepsFilters ==
  ASSUME FiltersInv, [FiltersNext]_filterVars
  PROVE  FiltersInv'
<1>1. CASE UNCHANGED filterVars
  BY <1>1 DEF filterVars, FiltersInv, FiltersTypeOK
<1> QED
  BY <1>1, ChangesKeepFilters, WaysKeepFilters, CommitKeepsFilters DEF FiltersNext

(* An address of the page's own, when it comes, changes no filter.         *)
LEMMA OwnAddressesChangeNothing ==
  ASSUME FiltersInv, [FiltersNext]_filterVars
  PROVE  AcknowledgmentsChangeNothing
<1> SUFFICES ASSUME address' # address, Head(routing).own
             PROVE  UNCHANGED <<filter, searchInput>>
  BY DEF AcknowledgmentsChangeNothing
<1>1. CommitAddress
  BY DEF FiltersNext, filterVars, ChooseView, ChoosePage, TypeSearch, FollowLink,
     ResetFilters, ApplySearch, PassOver, ChangeFilters
<1>2. PICK a \in Address : a = Head(routing).url /\ address' = a
  BY <1>1, RestOfQueue DEF CommitAddress, Routed
<1>3. a \in pendingUrls
  BY <1>1, <1>2, RestOfQueue DEF CommitAddress, FiltersInv, OwnAreKnown
<1> QED
  BY <1>1, <1>2, <1>3 DEF CommitAddress, IsOwn

LEMMA AddressAlwaysTells ==
  ASSUME FiltersInv
  PROVE  AddressTellsFilters
BY DEF FiltersInv, AddressTellsFilters

-----------------------------------------------------------------------------
(* The pages of tickets together: each part keeps its invariant, and the   *)
(* user of the page stays who they are.                                    *)
PagesInv ==
  /\ TicketPageInv /\ TalkInv /\ FiltersInv
  /\ reader \in Reader /\ listed \in ListedTicket

LEMMA TicketsInitIsSound == TicketsInit => PagesInv
<1> SUFFICES ASSUME TicketsInit PROVE PagesInv
  OBVIOUS
<1>1. TicketPageInit /\ ConversationInit /\ FiltersInit /\ ListsInit
  BY DEF TicketsInit, PageStart, TalkStart, FiltersStart, ListsStart
<1> QED
  BY <1>1, TicketPageInitIsSound, TalkInitIsSound, FiltersInitIsSound DEF PagesInv, ListsInit

LEMMA PageOfTicketSteps ==
  ASSUME [TicketsNext]_ticketsVars
  PROVE  /\ [TicketPageNext]_ticketPageVars /\ [ConversationNext]_talkVars
         /\ [FiltersNext]_filterVars /\ UNCHANGED listVars
<1>1. CASE UNCHANGED ticketsVars
  BY <1>1 DEF ticketsVars
<1>2. CASE TicketsNext
  BY <1>2, Zenon DEF TicketsNext, ListsNext
<1> QED
  BY <1>1, <1>2

LEMMA RoleStays ==
  ASSUME [TicketPageNext]_ticketPageVars
  PROVE  myRole' = myRole
BY DEF TicketPageNext, ticketPageVars, Poll, ReadTicketRow, ReadIncluded, Show, OpenPicker,
   ClosePicker, ChooseStatus, Withdraw, ToggleLabel, RemoveChip, RunAssignment, Send, Serve,
   Settle, Elsewhere

LEMMA StepKeepsPages ==
  ASSUME PagesInv, [TicketsNext]_ticketsVars
  PROVE  PagesInv'
<1>1. TicketPageInv' /\ FiltersInv'
  BY PageOfTicketSteps, StepKeepsPage, StepKeepsFilters DEF PagesInv
<1>2. TalkInv'
  BY PageOfTicketSteps, RoleStays, StepKeepsTalk DEF PagesInv
<1>3. UNCHANGED <<reader, listed>>
  BY PageOfTicketSteps DEF listVars
<1> QED
  BY <1>1, <1>2, <1>3 DEF PagesInv

(* What the pages show, what is in flight and what is at the server keeps  *)
(* its shape.                                                              *)
THEOREM PagesAreTyped == TicketsSpec => []PagesTypeOK
<1>1. PagesInv /\ [TicketsNext]_ticketsVars => PagesInv'
  BY StepKeepsPages
<1>2. PagesInv => PagesTypeOK
  BY DEF PagesInv, PagesTypeOK, TicketPageInv, TalkInv, FiltersInv
<1> QED
  BY <1>1, <1>2, TicketsInitIsSound, PTL DEF TicketsSpec

(* A page offers what the server permits, a list shows what may be opened  *)
(* and the number on its card, a column is searched for whom it is shown   *)
(* to, and the address tells the filters, for every form, department and   *)
(* search text.                                                            *)
THEOREM PagesAlwaysAgree == TicketsSpec => []PagesAgree
<1>1. PagesInv /\ [TicketsNext]_ticketsVars => PagesInv'
  BY StepKeepsPages
<1>2. PagesInv => PagesAgree
  BY TalkIsAlwaysPermitted, ListsAlwaysAgree, AddressAlwaysTells DEF PagesInv, PagesAgree
<1> QED
  BY <1>1, <1>2, TicketsInitIsSound, PTL DEF TicketsSpec

(* However reads, clicks and the changes of others meet, the server takes  *)
(* no change of a ticket that its user was not shown, a reply goes out as  *)
(* it was written, and an address of the page's own takes back no filter.  *)
THEOREM PagesNeverLose == TicketsSpec => PagesLoseNothing
<1>1. PagesInv /\ [TicketsNext]_ticketsVars => PagesInv'
  BY StepKeepsPages
<1>2. PagesInv /\ [TicketsNext]_ticketsVars =>
        [NothingUnseenIsUndone /\ SentAsWritten /\ AcknowledgmentsChangeNothing]_ticketsVars
  <2> SUFFICES ASSUME PagesInv, [TicketsNext]_ticketsVars
               PROVE  NothingUnseenIsUndone /\ SentAsWritten /\ AcknowledgmentsChangeNothing
    OBVIOUS
  <2> QED
    BY ChangesAreSeen, RepliesAreSentAsWritten, OwnAddressesChangeNothing,
       PageOfTicketSteps DEF PagesInv
<1> QED
  BY <1>1, <1>2, TicketsInitIsSound, PTL DEF TicketsSpec, PagesLoseNothing

(* A behaviour of the requests beside the pages is one of the requests     *)
(* alone, so that the theorems about Spec hold of it.                      *)
THEOREM PagesLeaveHandlersAlone == TicketsSpec => Spec
<1>1. TicketsInit => Init
  BY DEF TicketsInit, RequestsStart, MCInit
<1>2. [TicketsNext]_ticketsVars => [Next]_vars
  BY DEF TicketsNext, ticketsVars
<1> QED
  BY <1>1, <1>2, PTL DEF TicketsSpec, Spec
=============================================================================
