------------------------- MODULE TicketRulesProofs -------------------------
(***************************************************************************)
(* Lemmas about the operators of TicketRules that the proofs about the     *)
(* contract and about the handlers share.                                  *)
(***************************************************************************)
EXTENDS TicketRules, TLAPS

-----------------------------------------------------------------------------
(* What the row operators return, field by field: what the steps below     *)
(* need of them, without the EXCEPTs.                                      *)

LEMMA DueAtType ==
  ASSUME NEW q \in Queues, NEW p \in Priorities
  PROVE  DueAt(q, p) \in Deadlines
BY DEF DueAt, Deadlines

LEMMA GivenType ==
  ASSUME NEW S, NEW field \in S \cup {None}, NEW value \in S
  PROVE  Given(field, value) \in S
BY DEF Given

LEMMA DatesType ==
  ASSUME NEW from, NEW to, NEW at \in BOOLEAN
  PROVE  /\ ResolvedAtAfter(from, to, at) \in BOOLEAN
         /\ ClosedAtAfter(from, to, at) \in BOOLEAN
<1>1. CASE to = from
  BY <1>1 DEF ResolvedAtAfter, ClosedAtAfter
<1>2. CASE to # from
  <2>1. ResolvedAtAfter(from, to, at) \in BOOLEAN
    BY <1>2 DEF ResolvedAtAfter
  <2>2. ClosedAtAfter(from, to, at) \in BOOLEAN
    BY <1>2 DEF ClosedAtAfter
  <2> QED BY <2>1, <2>2
<1> QED BY <1>1, <1>2

LEMMA PatchRowFields ==
  ASSUME NEW row \in TicketRow, NEW c \in Changes
  PROVE  LET new == PatchRow(row, row, c)
             to == Given(c.status, row.status)
             queueId == Given(c.queueId, row.queueId)
             priority == Given(c.priority, row.priority)
         IN  /\ new \in TicketRow
             /\ new.version = row.version + 1
             /\ new.status = to
             /\ new.priority = priority
             /\ new.queueId = queueId
             /\ new.resolvedAt = ResolvedAtAfter(row.status, to, row.resolvedAt)
             /\ new.closedAt = ClosedAtAfter(row.status, to, row.closedAt)
             /\ new.dueAt = IF queueId # row.queueId \/ priority # row.priority
                              THEN DueAt(queueId, priority) ELSE row.dueAt
             /\ new.escalationLevel = row.escalationLevel
             /\ new.firstAssignedAt = row.firstAssignedAt
             /\ new.firstPublicResponseAt = row.firstPublicResponseAt
<1> DEFINE version == row.version + 1
           to == Given(c.status, row.status)
           queueId == Given(c.queueId, row.queueId)
           priority == Given(c.priority, row.priority)
           resolvedAt == ResolvedAtAfter(row.status, to, row.resolvedAt)
           closedAt == ClosedAtAfter(row.status, to, row.closedAt)
           dueAt == IF queueId # row.queueId \/ priority # row.priority
                      THEN DueAt(queueId, priority) ELSE row.dueAt
<1>1. version \in Nat /\ to \in Statuses /\ queueId \in Queues
        /\ priority \in Priorities
  BY GivenType DEF TicketRow, Changes
<1>2. dueAt \in Deadlines
  BY <1>1, DueAtType DEF TicketRow
<1>3. resolvedAt \in BOOLEAN /\ closedAt \in BOOLEAN
  BY DatesType DEF TicketRow
<1>4. PatchRow(row, row, c) =
        [row EXCEPT !.version = version, !.status = to, !.priority = priority,
                    !.queueId = queueId, !.resolvedAt = resolvedAt,
                    !.closedAt = closedAt, !.dueAt = dueAt]
  BY Zenon DEF PatchRow
<1> HIDE DEF version, to, queueId, priority, resolvedAt, closedAt, dueAt
<1>5. PatchRow(row, row, c) \in TicketRow
  BY <1>1, <1>2, <1>3, <1>4 DEF TicketRow
<1>6. LET new == PatchRow(row, row, c)
      IN  /\ new.version = version /\ new.status = to
          /\ new.priority = priority /\ new.queueId = queueId
          /\ new.resolvedAt = resolvedAt /\ new.closedAt = closedAt
          /\ new.dueAt = dueAt
          /\ new.escalationLevel = row.escalationLevel
          /\ new.firstAssignedAt = row.firstAssignedAt
          /\ new.firstPublicResponseAt = row.firstPublicResponseAt
  BY <1>4 DEF TicketRow
<1> QED
  BY <1>5, <1>6, Zenon
     DEF version, to, queueId, priority, resolvedAt, closedAt, dueAt

LEMMA WithdrawRowFields ==
  ASSUME NEW row \in TicketRow
  PROVE  LET new == WithdrawRow(row)
         IN  /\ new \in TicketRow
             /\ new.version = row.version + 1
             /\ new.status = "WITHDRAWN" /\ ~new.resolvedAt /\ new.closedAt
             /\ new.priority = row.priority /\ new.queueId = row.queueId
             /\ new.dueAt = row.dueAt
             /\ new.escalationLevel = row.escalationLevel
             /\ new.firstAssignedAt = row.firstAssignedAt
             /\ new.firstPublicResponseAt = row.firstPublicResponseAt
<1> DEFINE version == row.version + 1
<1>1. version \in Nat
  BY DEF TicketRow
<1>2. WithdrawRow(row) = [row EXCEPT !.version = version,
                            !.status = "WITHDRAWN", !.resolvedAt = FALSE,
                            !.closedAt = TRUE]
  BY Zenon DEF WithdrawRow
<1> HIDE DEF version
<1>3. WithdrawRow(row) \in TicketRow
  BY <1>1, <1>2 DEF TicketRow, Statuses
<1> QED
  BY <1>2, <1>3 DEF TicketRow, version

LEMMA AssignmentRowFields ==
  ASSUME NEW row \in TicketRow, NEW adds \in BOOLEAN
  PROVE  LET new == AssignmentRow(row, row, adds)
         IN  /\ new \in TicketRow
             /\ new.version = row.version + 1
             /\ new.firstAssignedAt = (row.firstAssignedAt \/ adds)
             /\ new.status = row.status
             /\ new.resolvedAt = row.resolvedAt
             /\ new.closedAt = row.closedAt
             /\ new.priority = row.priority /\ new.queueId = row.queueId
             /\ new.dueAt = row.dueAt
             /\ new.escalationLevel = row.escalationLevel
             /\ new.firstPublicResponseAt = row.firstPublicResponseAt
<1> DEFINE version == row.version + 1
           dated == row.firstAssignedAt \/ (adds /\ ~row.firstAssignedAt)
<1>1. version \in Nat /\ dated \in BOOLEAN
  BY DEF TicketRow
<1>2. dated = (row.firstAssignedAt \/ adds)
  BY DEF TicketRow
<1>3. AssignmentRow(row, row, adds) =
        [row EXCEPT !.version = version, !.firstAssignedAt = dated]
  BY Zenon DEF AssignmentRow
<1> HIDE DEF version, dated
<1>4. AssignmentRow(row, row, adds) \in TicketRow
  BY <1>1, <1>3 DEF TicketRow
<1>5. LET new == AssignmentRow(row, row, adds)
      IN  /\ new.version = version /\ new.firstAssignedAt = dated
          /\ new.status = row.status /\ new.resolvedAt = row.resolvedAt
          /\ new.closedAt = row.closedAt /\ new.priority = row.priority
          /\ new.queueId = row.queueId /\ new.dueAt = row.dueAt
          /\ new.escalationLevel = row.escalationLevel
          /\ new.firstPublicResponseAt = row.firstPublicResponseAt
  BY <1>3 DEF TicketRow
<1> QED
  BY <1>2, <1>4, <1>5, Zenon DEF version

LEMMA EscalateRowFields ==
  ASSUME NEW row \in TicketRow, NEW adds \in BOOLEAN
  PROVE  LET new == EscalateRow(row, row, adds)
             priority == EscalatedPriority(row)
         IN  /\ new \in TicketRow
             /\ new.version = row.version + 1
             /\ new.escalationLevel = row.escalationLevel + 1
             /\ new.status = "OPEN" /\ ~new.resolvedAt /\ ~new.closedAt
             /\ new.priority = priority
             /\ new.dueAt = IF priority # row.priority
                              THEN DueAt(row.queueId, priority) ELSE row.dueAt
             /\ new.firstAssignedAt = (row.firstAssignedAt \/ adds)
             /\ new.queueId = row.queueId
             /\ new.firstPublicResponseAt = row.firstPublicResponseAt
<1> DEFINE version == row.version + 1
           level == row.escalationLevel + 1
           priority == EscalatedPriority(row)
           dueAt == IF priority # row.priority
                      THEN DueAt(row.queueId, priority) ELSE row.dueAt
           dated == row.firstAssignedAt \/ (adds /\ ~row.firstAssignedAt)
<1>1. version \in Nat /\ level \in Nat /\ dated \in BOOLEAN
  BY DEF TicketRow
<1>2. dated = (row.firstAssignedAt \/ adds)
  BY DEF TicketRow
<1>3. priority \in Priorities
  BY DEF TicketRow, EscalatedPriority, Priorities
<1>4. dueAt \in Deadlines
  BY <1>3, DueAtType DEF TicketRow
<1>5. EscalateRow(row, row, adds) =
        [row EXCEPT !.version = version, !.escalationLevel = level,
                    !.priority = priority, !.status = "OPEN",
                    !.resolvedAt = FALSE, !.closedAt = FALSE, !.dueAt = dueAt,
                    !.firstAssignedAt = dated]
  BY Zenon DEF EscalateRow
<1> HIDE DEF version, level, priority, dueAt, dated
<1>6. EscalateRow(row, row, adds) \in TicketRow
  BY <1>1, <1>3, <1>4, <1>5 DEF TicketRow, Statuses, OpenStatuses
<1>7. LET new == EscalateRow(row, row, adds)
      IN  /\ new.version = version /\ new.escalationLevel = level
          /\ new.status = "OPEN" /\ ~new.resolvedAt /\ ~new.closedAt
          /\ new.priority = priority /\ new.dueAt = dueAt
          /\ new.firstAssignedAt = dated /\ new.queueId = row.queueId
          /\ new.firstPublicResponseAt = row.firstPublicResponseAt
  BY <1>5 DEF TicketRow
<1> QED
  BY <1>2, <1>6, <1>7, Zenon DEF version, level, priority, dueAt

LEMMA CommentRowFields ==
  ASSUME NEW row \in TicketRow, NEW isFirst \in BOOLEAN
  PROVE  LET new == CommentRow(row, isFirst)
         IN  /\ new \in TicketRow
             /\ new # row => new.version = row.version + 1
             /\ row.firstPublicResponseAt => new.firstPublicResponseAt
             /\ new.status = row.status
             /\ new.resolvedAt = row.resolvedAt
             /\ new.closedAt = row.closedAt
             /\ new.priority = row.priority /\ new.queueId = row.queueId
             /\ new.dueAt = row.dueAt
             /\ new.escalationLevel = row.escalationLevel
             /\ new.firstAssignedAt = row.firstAssignedAt
<1>1. CASE ~(isFirst /\ ~row.firstPublicResponseAt)
  BY <1>1 DEF CommentRow
<1>2. CASE isFirst /\ ~row.firstPublicResponseAt
  <2> DEFINE version == row.version + 1
  <2>1. version \in Nat
    BY DEF TicketRow
  <2>2. CommentRow(row, isFirst) =
          [row EXCEPT !.version = version, !.firstPublicResponseAt = TRUE]
    BY <1>2, Zenon DEF CommentRow
  <2> HIDE DEF version
  <2>3. CommentRow(row, isFirst) \in TicketRow
    BY <2>1, <2>2 DEF TicketRow
  <2> QED
    BY <2>2, <2>3 DEF TicketRow, version
<1> QED BY <1>1, <1>2

LEMMA NothingFollowsWithdrawn ==
  ASSUME NEW u \in Users, NEW to
  PROVE  ~CanTransition("WITHDRAWN", to, Role[u])
<1>1. Role[u] \in Roles
  BY RulesAssumption
<1> QED
  BY <1>1 DEF CanTransition, AllowedTransitions, UserTransitions,
       AgentTransitions, AdminTransitions, OpenStatuses, Roles

-----------------------------------------------------------------------------
(* Access is monotone in the memberships: what a handler may do with the   *)
(* memberships in force it may do with all that were ever granted.         *)

LEMMA AccessIsMonotone ==
  ASSUME NEW members \in SUBSET Membership, NEW u, NEW row, NEW queueId
  PROVE  /\ CanAccessQueue(members, u, queueId) =>
              CanAccessQueue(Membership, u, queueId)
         /\ CanAccessTicket(members, u, row) =>
              CanAccessTicket(Membership, u, row)
         /\ CanBeAssigned(members, u, queueId) =>
              CanBeAssigned(Membership, u, queueId)
<1>1. \A q : CanAccessQueue(members, u, q) => CanAccessQueue(Membership, u, q)
  BY DEF CanAccessQueue
<1> QED
  BY <1>1 DEF CanAccessTicket, CanBeAssigned
=============================================================================
