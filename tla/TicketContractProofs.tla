------------------------ MODULE TicketContractProofs ------------------------
(***************************************************************************)
(* Proofs about the ticket contract.  TicketContract has no requests in    *)
(* flight, so its invariants are inductive as a conjunction: ContractInv.  *)
(* The action properties then follow from one step under ContractInv.      *)
(***************************************************************************)
EXTENDS TicketContract, TicketRulesProofs, TLAPS

ContractInv ==
  /\ TypeOK
  /\ DatesMatchStatus
  /\ DeadlineFollowsPolicy
  /\ AssigneesBelongToQueue
  /\ FirstAssignmentIsDated

-----------------------------------------------------------------------------
(* The invariants.                                                         *)

LEMMA InitEstablishesContractInv == Init => ContractInv
<1> SUFFICES ASSUME NEW q \in Queues, NEW p \in Priorities,
                    ticket = NewTicket(q, p), assignees = {}
             PROVE  ContractInv
  BY DEF Init
<1>1. TypeOK
  BY DueAtType DEF TypeOK, NewTicket, TicketRow, Statuses, OpenStatuses
<1>2. DatesMatchStatus
  BY DEF DatesMatchStatus, NewTicket, OpenStatuses
<1>3. DeadlineFollowsPolicy /\ AssigneesBelongToQueue /\ FirstAssignmentIsDated
  BY DEF DeadlineFollowsPolicy, AssigneesBelongToQueue, FirstAssignmentIsDated,
         NewTicket
<1> QED BY <1>1, <1>2, <1>3 DEF ContractInv

LEMMA StepPreservesContractInv ==
  ContractInv /\ [Next]_contractVars => ContractInv'
<1> SUFFICES ASSUME ContractInv, [Next]_contractVars
             PROVE  ContractInv'
  OBVIOUS
<1> USE DEF ContractInv
<1>0. ticket \in TicketRow /\ assignees \subseteq Users
  BY DEF TypeOK
<1>1. CASE UNCHANGED contractVars
  BY <1>1 DEF contractVars, TypeOK, DatesMatchStatus, DeadlineFollowsPolicy,
       AssigneesBelongToQueue, FirstAssignmentIsDated
<1>2. ASSUME NEW u \in Users, NEW c \in Changes, Patch(u, c)
      PROVE  ContractInv'
  <2> DEFINE to == Given(c.status, ticket.status)
             queueId == Given(c.queueId, ticket.queueId)
             priority == Given(c.priority, ticket.priority)
  <2>1. /\ ticket' = PatchRow(ticket, ticket, c) /\ assignees' = assignees
        /\ PatchAllowed(Membership, u, ticket, c)
        /\ Moves(ticket, c) => MoveAllowed(Membership, assignees, c.queueId)
    BY <1>2 DEF Patch
  <2>2. /\ ticket' \in TicketRow /\ ticket'.status = to
        /\ ticket'.queueId = queueId /\ ticket'.priority = priority
        /\ ticket'.resolvedAt =
             ResolvedAtAfter(ticket.status, to, ticket.resolvedAt)
        /\ ticket'.closedAt = ClosedAtAfter(ticket.status, to, ticket.closedAt)
        /\ ticket'.dueAt = IF queueId # ticket.queueId
                               \/ priority # ticket.priority
                             THEN DueAt(queueId, priority) ELSE ticket.dueAt
        /\ ticket'.firstAssignedAt = ticket.firstAssignedAt
    BY <1>0, <2>1, PatchRowFields
  <2>3. TypeOK'
    BY <1>0, <2>1, <2>2 DEF TypeOK
  <2>4. to = ticket.status \/ to # "WITHDRAWN"
    BY <2>1 DEF PatchAllowed, Given
  <2>5. DatesMatchStatus'
    <3>1. CASE to = ticket.status
      BY <2>2, <3>1
         DEF DatesMatchStatus, ResolvedAtAfter, ClosedAtAfter
    <3>2. CASE to # ticket.status
      BY <2>2, <2>4, <3>2
         DEF DatesMatchStatus, ResolvedAtAfter, ClosedAtAfter, OpenStatuses
    <3> QED BY <3>1, <3>2
  <2>6. DeadlineFollowsPolicy'
    BY <2>2 DEF DeadlineFollowsPolicy
  <2>7. AssigneesBelongToQueue'
    BY <2>1, <2>2 DEF AssigneesBelongToQueue, Moves, MoveAllowed, Given
  <2>8. FirstAssignmentIsDated'
    BY <2>1, <2>2 DEF FirstAssignmentIsDated
  <2> QED BY <2>3, <2>5, <2>6, <2>7, <2>8
<1>3. ASSUME NEW u \in Users, Withdraw(u)
      PROVE  ContractInv'
  <2>1. ticket' = WithdrawRow(ticket) /\ assignees' = assignees
    BY <1>3 DEF Withdraw
  <2>2. /\ ticket' \in TicketRow /\ ticket'.status = "WITHDRAWN"
        /\ ~ticket'.resolvedAt /\ ticket'.closedAt
        /\ ticket'.priority = ticket.priority
        /\ ticket'.queueId = ticket.queueId /\ ticket'.dueAt = ticket.dueAt
        /\ ticket'.firstAssignedAt = ticket.firstAssignedAt
    BY <1>0, <2>1, WithdrawRowFields
  <2>3. TypeOK' /\ DatesMatchStatus'
    BY <1>0, <2>1, <2>2 DEF TypeOK, DatesMatchStatus, OpenStatuses
  <2>4. DeadlineFollowsPolicy' /\ AssigneesBelongToQueue'
          /\ FirstAssignmentIsDated'
    BY <2>1, <2>2 DEF DeadlineFollowsPolicy, AssigneesBelongToQueue,
                      FirstAssignmentIsDated
  <2> QED BY <2>3, <2>4
<1>4. ASSUME NEW adds \in BOOLEAN, NEW next \in SUBSET Users,
             ticket' = AssignmentRow(ticket, ticket, adds),
             assignees' = next,
             ~adds => next \subseteq assignees,
             \A a \in next \ assignees :
               CanBeAssigned(Membership, a, ticket.queueId)
      PROVE  ContractInv'
  <2>1. /\ ticket' \in TicketRow
        /\ ticket'.firstAssignedAt = (ticket.firstAssignedAt \/ adds)
        /\ ticket'.status = ticket.status
        /\ ticket'.resolvedAt = ticket.resolvedAt
        /\ ticket'.closedAt = ticket.closedAt
        /\ ticket'.priority = ticket.priority
        /\ ticket'.queueId = ticket.queueId /\ ticket'.dueAt = ticket.dueAt
    BY <1>0, <1>4, AssignmentRowFields
  <2>2. TypeOK' /\ DatesMatchStatus' /\ DeadlineFollowsPolicy'
    BY <1>4, <2>1 DEF TypeOK, DatesMatchStatus, DeadlineFollowsPolicy
  <2>3. AssigneesBelongToQueue'
    BY <1>4, <2>1 DEF AssigneesBelongToQueue
  <2>4. FirstAssignmentIsDated'
    BY <1>4, <2>1 DEF FirstAssignmentIsDated
  <2> QED BY <2>2, <2>3, <2>4
<1>5. ASSUME NEW u \in Users, NEW a \in Users, AddAssignee(u, a)
      PROVE  ContractInv'
  BY <1>0, <1>4, <1>5 DEF AddAssignee
<1>6. ASSUME NEW u \in Users, NEW a \in Users, RemoveAssignee(u, a)
      PROVE  ContractInv'
  BY <1>0, <1>4, <1>6 DEF RemoveAssignee
<1>7. ASSUME NEW u \in Users, NEW next \in SUBSET Users,
             ReplaceAssignmentSet(u, next)
      PROVE  ContractInv'
  BY <1>4, <1>7 DEF ReplaceAssignmentSet, ReplaceAllowed
<1>8. ASSUME NEW u \in Users, NEW target \in Users \cup {None},
             Escalate(u, target)
      PROVE  ContractInv'
  <2> DEFINE added == EscalationTargets(target) \ assignees
             adds == added # {}
             priority == EscalatedPriority(ticket)
  <2>1. /\ ticket' = EscalateRow(ticket, ticket, adds)
        /\ assignees' = assignees \cup added
        /\ \A a \in added : a \in Users
                           /\ CanBeAssigned(Membership, a, ticket.queueId)
    BY <1>8 DEF Escalate, EscalateAllowed, EscalationTargets
  <2> HIDE DEF added
  <2>2. /\ ticket' \in TicketRow /\ ticket'.status = "OPEN"
        /\ ~ticket'.resolvedAt /\ ~ticket'.closedAt
        /\ ticket'.priority = priority
        /\ ticket'.dueAt = IF priority # ticket.priority
                             THEN DueAt(ticket.queueId, priority)
                             ELSE ticket.dueAt
        /\ ticket'.firstAssignedAt = (ticket.firstAssignedAt \/ adds)
        /\ ticket'.queueId = ticket.queueId
    BY <1>0, <2>1, EscalateRowFields
  <2>3. TypeOK'
    BY <1>0, <2>1, <2>2 DEF TypeOK
  <2>4. DatesMatchStatus'
    BY <2>2 DEF DatesMatchStatus
  <2>5. DeadlineFollowsPolicy'
    BY <2>2 DEF DeadlineFollowsPolicy
  <2>6. AssigneesBelongToQueue'
    BY <2>1, <2>2 DEF AssigneesBelongToQueue
  <2>7. FirstAssignmentIsDated'
    BY <2>1, <2>2 DEF FirstAssignmentIsDated
  <2> QED BY <2>3, <2>4, <2>5, <2>6, <2>7
<1>9. ASSUME NEW u \in Users, NEW isInternal \in BOOLEAN,
             Comment(u, isInternal)
      PROVE  ContractInv'
  <2> DEFINE isFirst == IsFirstPublicStaffResponse(u, ticket, isInternal)
  <2>1. ticket' = CommentRow(ticket, isFirst) /\ assignees' = assignees
    BY <1>9 DEF Comment
  <2>2. isFirst \in BOOLEAN
    BY DEF IsFirstPublicStaffResponse
  <2> HIDE DEF isFirst
  <2>3. /\ ticket' \in TicketRow /\ ticket'.status = ticket.status
        /\ ticket'.resolvedAt = ticket.resolvedAt
        /\ ticket'.closedAt = ticket.closedAt
        /\ ticket'.priority = ticket.priority
        /\ ticket'.queueId = ticket.queueId /\ ticket'.dueAt = ticket.dueAt
        /\ ticket'.firstAssignedAt = ticket.firstAssignedAt
    BY <1>0, <2>1, <2>2, CommentRowFields
  <2>4. TypeOK' /\ DatesMatchStatus'
    BY <1>0, <2>1, <2>3 DEF TypeOK, DatesMatchStatus
  <2>5. DeadlineFollowsPolicy' /\ AssigneesBelongToQueue'
          /\ FirstAssignmentIsDated'
    BY <2>1, <2>3 DEF DeadlineFollowsPolicy, AssigneesBelongToQueue,
                      FirstAssignmentIsDated
  <2> QED BY <2>4, <2>5
<1> QED
  BY <1>1, <1>2, <1>3, <1>5, <1>6, <1>7, <1>8, <1>9 DEF Next

(* The five invariants of the contract hold in every reachable state, for  *)
(* any users, departments, policies and number of mutations (the ticket    *)
(* routes and assignment-service.ts).                                      *)
THEOREM ContractInvariant == Spec => []ContractInv
<1>1. Init => ContractInv
  BY InitEstablishesContractInv
<1>2. ContractInv /\ [Next]_contractVars => ContractInv'
  BY StepPreservesContractInv
<1> QED BY <1>1, <1>2, PTL DEF Spec

-----------------------------------------------------------------------------
(* The action properties: each one is what a step does, so one lemma on    *)
(* Next gives them all.                                                    *)

WithdrawalStep ==
  /\ ticket.status = "WITHDRAWN" => ticket'.status = "WITHDRAWN"
  /\ (ticket.status # "WITHDRAWN" /\ ticket'.status = "WITHDRAWN"
       /\ assignees # {}) => \A e \in newEvents' : IsSuperAdmin(e.by)

StatusStep ==
  /\ ticket'.status # ticket.status =>
       \E e \in newEvents' : e.type \in {"STATUS_CHANGE", "ESCALATED"}
  /\ \A e \in newEvents' : e.type = "STATUS_CHANGE" =>
       e.from = ticket.status /\ e.to = ticket'.status

AssignmentStep ==
  assignees' # assignees =>
    \E e \in newEvents' : /\ e.type = "ASSIGNMENT_CHANGE"
                          /\ e.previous = assignees
                          /\ e.resulting = assignees'

EscalationStep ==
  LET Escalated == \E e \in newEvents' : e.type = "ESCALATED"
      OneUp == ticket'.escalationLevel = ticket.escalationLevel + 1
  IN  /\ ticket'.escalationLevel # ticket.escalationLevel => Escalated
      /\ Escalated => OneUp

VersionStep ==
  <<ticket, assignees>>' # <<ticket, assignees>> =>
    ticket'.version = ticket.version + 1

ContractStep ==
  WithdrawalStep /\ StatusStep /\ AssignmentStep /\ EscalationStep /\ VersionStep

LEMMA NextIsContractStep ==
  ASSUME ContractInv, Next
  PROVE  ContractStep
<1>0. ticket \in TicketRow /\ assignees \subseteq Users
  BY DEF ContractInv, TypeOK
<1> USE DEF ContractStep, WithdrawalStep, StatusStep, AssignmentStep,
            EscalationStep, VersionStep
<1>1. ASSUME NEW u \in Users, NEW c \in Changes, Patch(u, c)
      PROVE  ContractStep
  <2> DEFINE to == Given(c.status, ticket.status)
  <2>1. /\ assignees' = assignees
        /\ PatchAllowed(Membership, u, ticket, c)
        /\ newEvents' = PatchEvents(u, ticket, c)
    BY <1>1 DEF Patch
  <2>2. /\ ticket'.version = ticket.version + 1 /\ ticket'.status = to
        /\ ticket'.escalationLevel = ticket.escalationLevel
    BY <1>0, <1>1, PatchRowFields DEF Patch
  <2>3. to # ticket.status =>
          to # "WITHDRAWN" /\ ticket.status # "WITHDRAWN"
    <3>1. to # ticket.status => CanTransition(ticket.status, to, Role[u])
      BY <2>1 DEF PatchAllowed
    <3>2. to # ticket.status => to # "WITHDRAWN"
      BY <2>1 DEF PatchAllowed, Given
    <3> QED BY <3>1, <3>2, NothingFollowsWithdrawn
  <2>4. \A e \in newEvents' :
          \/ /\ e.type = "STATUS_CHANGE"
             /\ e.from = ticket.status /\ e.to = c.status /\ c.status # None
          \/ e.type = "PRIORITY_CHANGE"
    BY <2>1 DEF PatchEvents
  <2>5. to # ticket.status => \E e \in newEvents' : e.type = "STATUS_CHANGE"
    <3> DEFINE event == [type |-> "STATUS_CHANGE", by |-> u,
                         from |-> ticket.status, to |-> c.status]
    <3>1. to # ticket.status => c.status \in {c.status} \ {None, ticket.status}
      BY DEF Given
    <3>2. to # ticket.status => event \in newEvents'
      BY <2>1, <3>1, Zenon DEF PatchEvents
    <3>3. event.type = "STATUS_CHANGE"
      OBVIOUS
    <3> QED BY <3>2, <3>3
  <2>6. StatusStep
    BY <2>2, <2>4, <2>5 DEF Given
  <2>7. WithdrawalStep
    BY <2>2, <2>3
  <2> QED BY <2>1, <2>2, <2>4, <2>6, <2>7
<1>2. ASSUME NEW u \in Users, Withdraw(u)
      PROVE  ContractStep
  <2>1. /\ assignees' = assignees
        /\ WithdrawAllowed(u, ticket, assignees)
        /\ newEvents' = {[type |-> "STATUS_CHANGE", by |-> u,
                           from |-> ticket.status, to |-> "WITHDRAWN"]}
    BY <1>2 DEF Withdraw, WithdrawEvents
  <2>2. /\ ticket'.version = ticket.version + 1
        /\ ticket'.status = "WITHDRAWN"
        /\ ticket'.escalationLevel = ticket.escalationLevel
    BY <1>0, <1>2, WithdrawRowFields DEF Withdraw
  <2> QED BY <2>1, <2>2 DEF WithdrawAllowed, CanDeleteTicket
<1>3. ASSUME NEW u \in Users, NEW adds \in BOOLEAN,
             ticket' = AssignmentRow(ticket, ticket, adds),
             newEvents' = {AssignmentEvent(u, assignees, assignees')}
      PROVE  ContractStep
  <2>1. /\ ticket'.version = ticket.version + 1
        /\ ticket'.status = ticket.status
        /\ ticket'.escalationLevel = ticket.escalationLevel
    BY <1>0, <1>3, AssignmentRowFields
  <2> QED BY <1>3, <2>1 DEF AssignmentEvent
<1>4. ASSUME NEW u \in Users, NEW a \in Users,
             AddAssignee(u, a) \/ RemoveAssignee(u, a)
      PROVE  ContractStep
  BY <1>3, <1>4 DEF AddAssignee, RemoveAssignee
<1>5. ASSUME NEW u \in Users, NEW next \in SUBSET Users,
             ReplaceAssignmentSet(u, next)
      PROVE  ContractStep
  BY <1>3, <1>5 DEF ReplaceAssignmentSet
<1>6. ASSUME NEW u \in Users, NEW target \in Users \cup {None},
             Escalate(u, target)
      PROVE  ContractStep
  <2> DEFINE added == EscalationTargets(target) \ assignees
             adds == added # {}
             event == [type |-> "ESCALATED", by |-> u,
                       level |-> ticket.escalationLevel + 1,
                       previous |-> assignees, resulting |-> assignees']
             change == AssignmentEvent(u, assignees, assignees')
  <2>1. /\ ticket' = EscalateRow(ticket, ticket, adds)
        /\ ticket.status # "WITHDRAWN"
        /\ newEvents' = {event} \cup IF assignees' = assignees THEN {}
                                     ELSE {change}
    BY <1>6 DEF Escalate, EscalateAllowed, EscalateEvents
  <2> HIDE DEF added
  <2>2. /\ ticket'.version = ticket.version + 1
        /\ ticket'.status = "OPEN"
        /\ ticket'.escalationLevel = ticket.escalationLevel + 1
    BY <1>0, <2>1, EscalateRowFields
  <2>3. /\ event.type = "ESCALATED" /\ change.type = "ASSIGNMENT_CHANGE"
        /\ change.previous = assignees /\ change.resulting = assignees'
    BY DEF AssignmentEvent
  <2>4. \A e \in newEvents' : e = event \/ e = change
    BY <2>1
  <2>5. event \in newEvents' /\ (assignees' # assignees => change \in newEvents')
    BY <2>1
  <2> HIDE DEF event, change
  <2>6. WithdrawalStep /\ VersionStep
    BY <2>1, <2>2
  <2>7. StatusStep
    BY <2>2, <2>3, <2>4, <2>5
  <2>8. AssignmentStep
    BY <2>3, <2>5
  <2>9. EscalationStep
    BY <2>2, <2>3, <2>5
  <2> QED BY <2>6, <2>7, <2>8, <2>9
<1>7. ASSUME NEW u \in Users, NEW isInternal \in BOOLEAN,
             Comment(u, isInternal)
      PROVE  ContractStep
  <2> DEFINE isFirst == IsFirstPublicStaffResponse(u, ticket, isInternal)
  <2>1. ticket' = CommentRow(ticket, isFirst) /\ assignees' = assignees
    BY <1>7 DEF Comment
  <2>2. isFirst \in BOOLEAN
    BY DEF IsFirstPublicStaffResponse
  <2> HIDE DEF isFirst
  <2>3. /\ ticket' # ticket => ticket'.version = ticket.version + 1
        /\ ticket'.status = ticket.status
        /\ ticket'.escalationLevel = ticket.escalationLevel
    BY <1>0, <2>1, <2>2, CommentRowFields
  <2>4. \A e \in newEvents' : e.type \in {"INTERNAL_NOTE", "COMMENT"}
    BY <1>7 DEF Comment, CommentEvents
  <2> QED BY <2>1, <2>3, <2>4
<1> QED BY <1>1, <1>2, <1>4, <1>5, <1>6, <1>7 DEF Next

(* Every step that changes something is a ContractStep.                    *)
THEOREM ContractSteps == Spec => [][ContractStep]_contractVars
<1>1. ContractInv /\ [Next]_contractVars => [ContractStep]_contractVars
  BY NextIsContractStep
<1> QED BY <1>1, ContractInvariant, PTL DEF Spec

(* Withdrawal is final, and an assigned ticket is only withdrawn by a      *)
(* super administrator (transition map, canDeleteTicket).                  *)
THEOREM ContractWithdrawal ==
  Spec => WithdrawnIsFinal /\ AssignedIsNotWithdrawn
<1>1. [ContractStep]_contractVars =>
        [ticket.status = "WITHDRAWN" => ticket'.status = "WITHDRAWN"]_contractVars
  BY DEF ContractStep, WithdrawalStep
<1>2. [ContractStep]_contractVars =>
        [(/\ ticket.status # "WITHDRAWN"
          /\ ticket'.status = "WITHDRAWN"
          /\ assignees # {}) =>
             \A e \in newEvents' : IsSuperAdmin(e.by)]_contractVars
  BY DEF ContractStep, WithdrawalStep
<1> QED
  BY <1>1, <1>2, ContractSteps, PTL
     DEF WithdrawnIsFinal, AssignedIsNotWithdrawn

(* The timeline is exact: a status change has its row and the row names    *)
(* the statuses really left and entered; an assignment row names the sets  *)
(* before and after; each escalation row is one level up.                  *)
THEOREM ContractTimeline ==
  Spec => /\ StatusChangesAreRecorded
          /\ AssignmentsAreRecorded
          /\ EscalationsAreCounted
<1>1. [ContractStep]_contractVars =>
        [/\ ticket'.status # ticket.status =>
              \E e \in newEvents' : e.type \in {"STATUS_CHANGE", "ESCALATED"}
         /\ newEvents' # newEvents =>
              \A e \in newEvents' : e.type = "STATUS_CHANGE" =>
                e.from = ticket.status /\ e.to = ticket'.status]_contractVars
  BY DEF ContractStep, StatusStep
<1>2. [ContractStep]_contractVars =>
        [assignees' # assignees =>
           \E e \in newEvents' : /\ e.type = "ASSIGNMENT_CHANGE"
                                 /\ e.previous = assignees
                                 /\ e.resulting = assignees']_contractVars
  BY DEF ContractStep, AssignmentStep
<1>3. [ContractStep]_contractVars =>
        [/\ ticket'.escalationLevel # ticket.escalationLevel =>
              \E e \in newEvents' : e.type = "ESCALATED"
         /\ newEvents' # newEvents
              /\ (\E e \in newEvents' : e.type = "ESCALATED") =>
              ticket'.escalationLevel = ticket.escalationLevel + 1]_contractVars
  BY DEF ContractStep, EscalationStep
<1> QED
  BY <1>1, <1>2, <1>3, ContractSteps, PTL
     DEF StatusChangesAreRecorded, AssignmentsAreRecorded,
         EscalationsAreCounted

(* Every change of the ticket or of its assignees raises the version by    *)
(* one, the premise of optimistic concurrency.                             *)
THEOREM ContractVersions == Spec => ChangesRaiseVersion
<1>1. [ContractStep]_contractVars =>
        [<<ticket, assignees>>' # <<ticket, assignees>> =>
           ticket'.version = ticket.version + 1]_contractVars
  BY DEF ContractStep, VersionStep
<1> QED BY <1>1, ContractSteps, PTL DEF ChangesRaiseVersion
=============================================================================
