-------------------------- MODULE RemindersProofs --------------------------
(***************************************************************************)
(* What the lease tokens, the guarded updates and the advisory lock of the *)
(* reminders guarantee, for any number of reminders, workers and requests. *)
(***************************************************************************)
EXTENDS Reminders, FiniteSetTheorems, TLAPS

(* A tick that is past the read holds the row that it read.                *)
InHand(w) == worker[w] # None /\ worker[w].stage # "next"

TypeInv ==
  /\ TypeOK
  /\ \A w \in Workers : InHand(w) => worker[w].id \in Ids /\ worker[w].seen \in Row
  /\ \A w \in Workers : ~InHand(w) /\ worker[w] # None => worker[w].id = None

LEMMA InitEstablishesTypeInv == Init => TypeInv
BY ReminderAssumption DEF Init, TypeInv, TypeOK, InHand

(* The rows that the updates write.                                        *)
LEMMA RowsAreRows ==
  ASSUME NEW row \in Row, NEW w \in Workers \cup {None, Lost}, NEW b \in BOOLEAN,
         NEW status \in Status
  PROVE  /\ [row EXCEPT !.live = b] \in Row
         /\ [row EXCEPT !.published = b] \in Row
         /\ [row EXCEPT !.emailAccepted = b] \in Row
         /\ [row EXCEPT !.lease = w] \in Row
         /\ [row EXCEPT !.status = status, !.lease = None, !.live = FALSE] \in Row
         /\ [row EXCEPT !.email = b, !.attempts = 0, !.lease = None, !.live = FALSE] \in Row
         /\ [row EXCEPT !.lease = w, !.live = TRUE, !.attempts = OneMore(@)] \in Row
<1>1. OneMore(row.attempts) \in 0 .. MaxAttempts + 1
  BY ReminderAssumption DEF Row, OneMore
<1> DEFINE more == OneMore(row.attempts)
<1>2. 0 \in 0 .. MaxAttempts + 1 /\ "PENDING" \in Status
  BY ReminderAssumption DEF Status
<1>3. /\ [row EXCEPT !.live = b] \in Row
      /\ [row EXCEPT !.published = b] \in Row
      /\ [row EXCEPT !.emailAccepted = b] \in Row
  BY Zenon DEF Row
<1>4. [row EXCEPT !.lease = w] \in Row
  BY Zenon DEF Row
<1>5. [row EXCEPT !.status = status, !.lease = None, !.live = FALSE] \in Row
  BY DEF Row
<1>6. [row EXCEPT !.email = b, !.attempts = 0, !.lease = None, !.live = FALSE] \in Row
  BY <1>2 DEF Row
<1>7. [row EXCEPT !.lease = w, !.live = TRUE, !.attempts = more] \in Row
  <2> HIDE DEF more
  <2> QED
    BY <1>1 DEF Row, more
<1> QED
  BY <1>3, <1>4, <1>5, <1>6, <1>7, Zenon

LEMMA UpdateOwnedEffect ==
  ASSUME TypeInv, NEW w \in Workers, InHand(w), NEW row, UpdateOwned(w, row),
         Owns(w, worker[w].id) => row \in Row
  PROVE  /\ reminder' \in [Ids -> Row \cup {None}]
         /\ \A j \in Ids : j # worker[w].id => reminder'[j] = reminder[j]
         /\ Owns(w, worker[w].id) => reminder'[worker[w].id] = row
         /\ ~Owns(w, worker[w].id) => reminder' = reminder
<1>1. worker[w].id \in Ids /\ reminder \in [Ids -> Row \cup {None}]
  BY DEF TypeInv, TypeOK
<1>2. CASE Owns(w, worker[w].id)
  BY <1>1, <1>2 DEF UpdateOwned
<1>3. CASE ~Owns(w, worker[w].id)
  BY <1>1, <1>3 DEF UpdateOwned
<1> QED
  BY <1>2, <1>3

LEMMA TickReplaced ==
  ASSUME TypeInv, NEW w \in Workers, NEW tick \in Tick,
         worker' = [worker EXCEPT ![w] = tick]
  PROVE  /\ worker' \in [Workers -> Tick \cup {None}]
         /\ worker'[w] = tick /\ tick # None
         /\ \A v \in Workers : v # w => worker'[v] = worker[v]
BY SentinelAssumption DEF TypeInv, TypeOK

LEMMA NextRowEffect ==
  ASSUME TypeInv, NEW w \in Workers, InHand(w), NextRow(w)
  PROVE  /\ worker' \in [Workers -> Tick \cup {None}]
         /\ worker'[w] # None /\ worker'[w].batch = worker[w].batch
         /\ worker'[w].stage = "next" /\ worker'[w].id = None
         /\ \A v \in Workers : v # w => worker'[v] = worker[v]
<1> DEFINE tick == [worker[w] EXCEPT !.stage = "next", !.id = None, !.seen = None,
                                     !.isOpen = FALSE, !.sent = FALSE]
<1>1. worker[w] \in Tick /\ worker \in [Workers -> Tick \cup {None}]
  BY DEF TypeInv, TypeOK, InHand
<1>2. tick \in Tick
  BY <1>1 DEF Tick, Stages
<1>3. tick.batch = worker[w].batch /\ tick.stage = "next" /\ tick.id = None
  BY <1>1 DEF Tick
<1>4. worker' = [worker EXCEPT ![w] = tick]
  BY <1>1 DEF NextRow
<1> HIDE DEF tick
<1> QED
  BY <1>2, <1>3, <1>4, TickReplaced

LEMMA GoOnEffect ==
  ASSUME TypeInv, NEW w \in Workers, InHand(w), NEW stage \in Handling, GoOn(w, stage)
  PROVE  /\ worker' \in [Workers -> Tick \cup {None}]
         /\ worker'[w] # None
         /\ worker'[w].stage = stage /\ worker'[w].batch = worker[w].batch
         /\ worker'[w].id = worker[w].id /\ worker'[w].seen = worker[w].seen
         /\ worker'[w].isOpen = worker[w].isOpen /\ worker'[w].sent = worker[w].sent
         /\ \A v \in Workers : v # w => worker'[v] = worker[v]
<1>1. worker[w] \in Tick /\ worker \in [Workers -> Tick \cup {None}]
  BY DEF TypeInv, TypeOK, InHand
<1>2. stage \in Stages
  BY DEF Stages
<1>3. [worker[w] EXCEPT !.stage = stage] \in Tick
  BY <1>1, <1>2 DEF Tick
<1>4. worker' = [worker EXCEPT ![w] = [worker[w] EXCEPT !.stage = stage]]
  BY <1>1 DEF GoOn
<1> QED
  BY <1>1, <1>3, <1>4, SentinelAssumption DEF Tick

(* The mail step: the worker knows whether the mail was sent.              *)
LEMMA SentEffect ==
  ASSUME TypeInv, NEW w \in Workers, InHand(w), NEW told \in BOOLEAN,
         worker' = [worker EXCEPT ![w].stage = "sent", ![w].sent = told]
  PROVE  /\ worker' \in [Workers -> Tick \cup {None}]
         /\ worker'[w] # None
         /\ worker'[w].stage = "sent" /\ worker'[w].batch = worker[w].batch
         /\ worker'[w].id = worker[w].id /\ worker'[w].seen = worker[w].seen
         /\ worker'[w].sent = told
         /\ \A v \in Workers : v # w => worker'[v] = worker[v]
<1>1. worker[w] \in Tick /\ worker \in [Workers -> Tick \cup {None}]
  BY DEF TypeInv, TypeOK, InHand
<1> DEFINE tick == [worker[w] EXCEPT !.stage = "sent", !.sent = told]
<1>2. tick \in Tick
  BY <1>1 DEF Tick, Stages, Handling
<1>3. worker' = [worker EXCEPT ![w] = tick]
  BY <1>1
<1>4. /\ tick.stage = "sent" /\ tick.batch = worker[w].batch
      /\ tick.id = worker[w].id /\ tick.seen = worker[w].seen
  BY <1>1 DEF Tick
<1>5. tick.sent = told
  BY <1>1, Zenon DEF Tick
<1> HIDE DEF tick
<1> QED
  BY <1>2, <1>3, <1>4, <1>5, TickReplaced

LEMMA ReadEffect ==
  ASSUME TypeInv, NEW w \in Workers, NEW i \in Ids, Read(w, i)
  PROVE  /\ worker' \in [Workers -> Tick \cup {None}]
         /\ \A v \in Workers : v # w => worker'[v] = worker[v]
         /\ worker[w] # None /\ worker[w].stage = "next" /\ worker'[w] # None
         /\ i \in worker[w].batch /\ worker'[w].batch = worker[w].batch \ {i}
         /\ Owns(w, i) => /\ worker'[w].stage = "read" /\ worker'[w].id = i
                          /\ worker'[w].seen = reminder[i] /\ reminder[i] \in Row
         /\ ~Owns(w, i) => /\ worker'[w].stage = "next"
                           /\ worker'[w].id = worker[w].id
<1>1. /\ worker[w] \in Tick /\ worker \in [Workers -> Tick \cup {None}]
      /\ worker[w] # None /\ worker[w].stage = "next" /\ i \in worker[w].batch
  BY DEF TypeInv, TypeOK, Read, At
<1>2. CASE Owns(w, i)
  <2> DEFINE tick == [batch |-> worker[w].batch \ {i}, stage |-> "read", id |-> i,
                      seen |-> reminder[i], isOpen |-> open, sent |-> FALSE]
  <2>1. reminder[i] \in Row
    BY <1>2 DEF TypeInv, TypeOK, Owns, Pending, Stored
  <2>2. tick \in Tick
    BY <1>1, <2>1 DEF Tick, Stages, TypeInv, TypeOK
  <2>3. worker' = [worker EXCEPT ![w] = tick]
    BY <1>1, <1>2 DEF Read
  <2> QED
    BY <1>1, <1>2, <2>1, <2>2, <2>3, SentinelAssumption
<1>3. CASE ~Owns(w, i)
  <2> DEFINE tick == [worker[w] EXCEPT !.batch = @ \ {i}]
  <2>1. tick \in Tick /\ tick.stage = "next" /\ tick.id = worker[w].id
        /\ tick.batch = worker[w].batch \ {i}
    BY <1>1 DEF Tick
  <2>2. worker' = [worker EXCEPT ![w] = tick]
    <3> DEFINE read == [batch |-> worker[w].batch \ {i}, stage |-> "read", id |-> i,
                        seen |-> reminder[i], isOpen |-> open, sent |-> FALSE]
    <3>1. worker' = [worker EXCEPT ![w] = IF Owns(w, i) THEN read ELSE tick]
      BY DEF Read
    <3> HIDE DEF read, tick
    <3> QED
      BY <1>1, <1>3, <3>1
  <2> HIDE DEF tick
  <2> QED
    BY <1>1, <1>3, <2>1, <2>2, SentinelAssumption
<1> QED
  BY <1>2, <1>3

LEMMA ClaimEffect ==
  ASSUME TypeInv, NEW w \in Workers, NEW batch \in SUBSET Ids, Claim(w, batch)
  PROVE  /\ worker[w] = None /\ worker'[w] # None
         /\ worker' \in [Workers -> Tick \cup {None}]
         /\ worker'[w].stage = "next" /\ worker'[w].id = None
         /\ \A v \in Workers : v # w => worker'[v] = worker[v]
         /\ reminder' \in [Ids -> Row \cup {None}]
         /\ \A i \in Ids \ batch : reminder'[i] = reminder[i]
         /\ \A i \in batch :
              /\ Claimable(i) /\ reminder[i] \in Row /\ reminder'[i] \in Row
              /\ reminder'[i].lease = w /\ reminder'[i].live = TRUE
              /\ reminder'[i].status = "PENDING"
              /\ reminder'[i].attempts = OneMore(reminder[i].attempts)
              /\ reminder'[i].email = reminder[i].email
              /\ reminder'[i].published = reminder[i].published
              /\ reminder'[i].emailAccepted = reminder[i].emailAccepted
<1> DEFINE tick == [batch |-> batch, stage |-> "next", id |-> None, seen |-> None,
                    isOpen |-> FALSE, sent |-> FALSE]
<1>1. worker' = [worker EXCEPT ![w] = tick] /\ worker[w] = None
  BY DEF Claim
<1>2. tick \in Tick
  BY DEF Tick, Stages
<1>3. worker \in [Workers -> Tick \cup {None}] /\ reminder \in [Ids -> Row \cup {None}]
  BY DEF TypeInv, TypeOK
<1>4. \A i \in batch : Claimable(i) /\ reminder[i] \in Row
  BY <1>3 DEF Claim, Claimable, Pending, Stored
<1>5. ASSUME NEW i \in batch
      PROVE  /\ ClaimedRow(w, i) \in Row
             /\ ClaimedRow(w, i).lease = w /\ ClaimedRow(w, i).live = TRUE
             /\ ClaimedRow(w, i).status = "PENDING"
             /\ ClaimedRow(w, i).attempts = OneMore(reminder[i].attempts)
             /\ ClaimedRow(w, i).email = reminder[i].email
             /\ ClaimedRow(w, i).published = reminder[i].published
             /\ ClaimedRow(w, i).emailAccepted = reminder[i].emailAccepted
  <2>1. reminder[i] \in Row /\ reminder[i].status = "PENDING"
    BY <1>4, <1>5 DEF Claimable, Pending
  <2>2. ClaimedRow(w, i) \in Row
    <3>1. w \in Workers \cup {None, Lost} /\ TRUE \in BOOLEAN /\ "PENDING" \in Status
      BY DEF Status
    <3>2. [reminder[i] EXCEPT !.lease = w, !.live = TRUE, !.attempts = OneMore(@)] \in Row
      BY <2>1, <3>1, RowsAreRows
    <3> QED
      BY <3>2, Zenon DEF ClaimedRow
  <2> DEFINE more == OneMore(reminder[i].attempts)
  <2>3. ClaimedRow(w, i) = [reminder[i] EXCEPT !.lease = w, !.live = TRUE, !.attempts = more]
    BY Zenon DEF ClaimedRow
  <2> HIDE DEF more
  <2>4. ClaimedRow(w, i).attempts = more
    BY <2>1, <2>3 DEF Row
  <2> QED
    BY <2>1, <2>2, <2>3, <2>4 DEF Row, more
<1>6. reminder' = [i \in Ids |-> IF i \in batch THEN ClaimedRow(w, i) ELSE reminder[i]]
  BY Zenon DEF Claim
<1>7. \A i \in batch : reminder'[i] = ClaimedRow(w, i)
  BY <1>6, Zenon
<1>8. /\ \A i \in Ids \ batch : reminder'[i] = reminder[i]
      /\ reminder' \in [Ids -> Row \cup {None}]
  <2> DEFINE new(i) == IF i \in batch THEN ClaimedRow(w, i) ELSE reminder[i]
  <2>1. \A i \in Ids : new(i) \in Row \cup {None}
    BY <1>3, <1>5
  <2>2. reminder' = [i \in Ids |-> new(i)]
    BY <1>6
  <2>3. \A i \in Ids \ batch : new(i) = reminder[i]
    OBVIOUS
  <2> HIDE DEF new
  <2> QED
    BY <2>1, <2>2, <2>3
<1>9. tick # None
  BY <1>2, SentinelAssumption
<1>10. /\ worker'[w] # None /\ worker' \in [Workers -> Tick \cup {None}]
       /\ worker'[w].stage = "next" /\ worker'[w].id = None
       /\ \A v \in Workers : v # w => worker'[v] = worker[v]
  BY <1>1, <1>2, <1>3, <1>9
<1>11. \A i \in batch :
         /\ Claimable(i) /\ reminder[i] \in Row /\ reminder'[i] \in Row
         /\ reminder'[i].lease = w /\ reminder'[i].live = TRUE
         /\ reminder'[i].status = "PENDING"
         /\ reminder'[i].attempts = OneMore(reminder[i].attempts)
         /\ reminder'[i].email = reminder[i].email
         /\ reminder'[i].published = reminder[i].published
         /\ reminder'[i].emailAccepted = reminder[i].emailAccepted
  BY <1>4, <1>5, <1>7, Zenon
<1> HIDE DEF tick
<1> QED
  BY <1>1, <1>8, <1>10, <1>11, Zenon

LEMMA EndTickEffect ==
  ASSUME TypeInv, NEW w \in Workers, EndTick(w)
  PROVE  /\ worker' \in [Workers -> Tick \cup {None}] /\ worker'[w] = None
         /\ \A v \in Workers : v # w => worker'[v] = worker[v]
         /\ reminder' \in [Ids -> Row \cup {None}]
         /\ \A i \in Ids : Stored(i)' <=> Stored(i)
         /\ \A i \in Ids : ~Stored(i) \/ reminder[i].lease # w => reminder'[i] = reminder[i]
         /\ \A i \in Ids : Stored(i) /\ reminder[i].lease = w =>
              /\ reminder[i] \in Row
              /\ reminder'[i] = [reminder[i] EXCEPT !.lease = Lost]
<1>1. worker \in [Workers -> Tick \cup {None}] /\ reminder \in [Ids -> Row \cup {None}]
  BY DEF TypeInv, TypeOK
<1>2. \A i \in Ids : Stored(i) => reminder[i] \in Row
  BY <1>1 DEF Stored
<1>3. ASSUME NEW row \in Row PROVE [row EXCEPT !.lease = Lost] \in Row
  BY Zenon DEF Row
<1> DEFINE new(i) == IF Stored(i) /\ reminder[i].lease = w
                       THEN [reminder[i] EXCEPT !.lease = Lost] ELSE reminder[i]
<1>4. reminder' = [i \in Ids |-> new(i)]
  BY DEF EndTick
<1>5. \A i \in Ids : new(i) \in Row \cup {None}
  BY <1>1, <1>2, <1>3
<1>6. \A i \in Ids : ~(Stored(i) /\ reminder[i].lease = w) => new(i) = reminder[i]
  BY Zenon
<1>7. \A i \in Ids : Stored(i) /\ reminder[i].lease = w =>
        new(i) = [reminder[i] EXCEPT !.lease = Lost] /\ new(i) \in Row
  BY <1>2, <1>3, Zenon
<1>8. \A i \in Ids : (new(i) # None) <=> Stored(i)
  BY <1>6, <1>7, SentinelAssumption DEF Stored
<1> HIDE DEF new
<1>9. \A i \in Ids : reminder'[i] = new(i)
  BY <1>4
<1>10. reminder' \in [Ids -> Row \cup {None}]
  BY <1>4, <1>5
<1>11. worker' = [worker EXCEPT ![w] = None]
  BY DEF EndTick
<1>12. /\ worker' \in [Workers -> Tick \cup {None}] /\ worker'[w] = None
       /\ \A v \in Workers : v # w => worker'[v] = worker[v]
  BY <1>1, <1>11
<1>13. \A i \in Ids : Stored(i)' <=> Stored(i)
  BY <1>8, <1>9 DEF Stored
<1>14. \A i \in Ids : ~Stored(i) \/ reminder[i].lease # w => reminder'[i] = reminder[i]
  BY <1>6, <1>9, Zenon
<1>15. \A i \in Ids : Stored(i) /\ reminder[i].lease = w =>
         reminder[i] \in Row /\ reminder'[i] = [reminder[i] EXCEPT !.lease = Lost]
  BY <1>2, <1>7, <1>9, Zenon
<1> QED
  BY <1>10, <1>12, <1>13, <1>14, <1>15, Zenon

LEMMA RequestsAreTyped ==
  ASSUME TypeInv, NEW q \in Requests
  PROVE  /\ request[q] # None => request[q] \in Request /\ request[q].id \in Ids
         /\ Done(q) =>
              /\ request' \in [Requests -> Request \cup {None}]
              /\ request'[q] = None
              /\ \A p \in Requests : p # q => request'[p] = request[p]
BY DEF TypeInv, TypeOK, Request, Done

LEMMA ScheduleEffect ==
  ASSUME TypeInv, NEW i \in Ids, NEW row \in Row, Schedule(i, row)
  PROVE  /\ reminder' \in [Ids -> Row \cup {None}] /\ reminder'[i] = row
         /\ \A j \in Ids : j # i => reminder'[j] = reminder[j]
         /\ due' \subseteq Ids /\ accepted' \subseteq Ids
         /\ mails' \in [Ids -> Nat] /\ mails'[i] = 0
         /\ \A j \in Ids : j # i => mails'[j] = mails[j]
         /\ accepted' = accepted \ {i}
BY DEF TypeInv, TypeOK, Schedule

LEMMA ScheduledIsARow ==
  ASSUME NEW email \in BOOLEAN
  PROVE  Scheduled(email) \in Row
BY ReminderAssumption DEF Scheduled, Row, Status

LEMMA EditedIsARow ==
  ASSUME TypeInv, NEW i \in Ids, Pending(i), NEW email \in BOOLEAN
  PROVE  /\ reminder[i] \in Row
         /\ [reminder[i] EXCEPT !.email = email, !.attempts = 0, !.lease = None,
                                !.live = FALSE] \in Row
<1>1. reminder[i] \in Row
  BY DEF TypeInv, TypeOK, Pending, Stored
<1>2. 0 \in 0 .. MaxAttempts + 1
  BY ReminderAssumption
<1> QED
  BY <1>1, <1>2 DEF Row

LEMMA WithStatusIsARow ==
  ASSUME TypeInv, NEW i \in Ids, Pending(i), NEW status \in Status
  PROVE  /\ reminder[i] \in Row /\ WithStatus(i, status) \in Row
         /\ \A sent \in BOOLEAN :
              [WithStatus(i, status) EXCEPT !.emailAccepted = sent] \in Row
<1>1. reminder[i] \in Row
  BY DEF TypeInv, TypeOK, Pending, Stored
<1>2. WithStatus(i, status) \in Row
  BY <1>1 DEF Row, WithStatus
<1>3. ASSUME NEW sent \in BOOLEAN
      PROVE  [WithStatus(i, status) EXCEPT !.emailAccepted = sent] \in Row
  BY <1>2, Zenon DEF Row
<1> QED
  BY <1>1, <1>2, <1>3

LEMMA OutcomeIsAStatus == \A seen, sent : Outcome(seen, sent) \in {"DELIVERED", "FAILED", "PENDING"}
BY DEF Outcome

(* The parts of the invariant that the rows and the ticks carry.           *)
LEMMA TypeInvFromParts ==
  ASSUME reminder' \in [Ids -> Row \cup {None}],
         worker' \in [Workers -> Tick \cup {None}],
         \A w \in Workers : InHand(w)' => worker'[w].id \in Ids /\ worker'[w].seen \in Row,
         \A w \in Workers : ~InHand(w)' /\ worker'[w] # None => worker'[w].id = None,
         due' \subseteq Ids, open' \in BOOLEAN, access' \in BOOLEAN,
         request' \in [Requests -> Request \cup {None}],
         mails' \in [Ids -> Nat], accepted' \subseteq Ids,
         faults' \in Nat, saves' \in Nat
  PROVE  TypeInv'
BY DEF TypeInv, TypeOK

LEMMA StepPreservesTypeInv == TypeInv /\ [Next]_vars => TypeInv'
<1> SUFFICES ASSUME TypeInv, [Next]_vars PROVE TypeInv'
  OBVIOUS
<1>0. /\ reminder \in [Ids -> Row \cup {None}] /\ worker \in [Workers -> Tick \cup {None}]
      /\ \A w \in Workers : InHand(w) => worker[w].id \in Ids /\ worker[w].seen \in Row
      /\ \A w \in Workers : ~InHand(w) /\ worker[w] # None => worker[w].id = None
      /\ due \subseteq Ids /\ open \in BOOLEAN /\ access \in BOOLEAN
      /\ request \in [Requests -> Request \cup {None}]
      /\ mails \in [Ids -> Nat] /\ accepted \subseteq Ids
      /\ faults \in Nat /\ saves \in Nat
  BY DEF TypeInv, TypeOK
<1> USE DEF rows, world, history
(* The owner's requests leave the ticks alone.                             *)
<1>1. ASSUME NEW q \in Requests, NEW op \in Operations, NEW i \in Ids, Admit(q, op, i)
      PROVE  TypeInv'
  <2>1. [op |-> op, id |-> i, locked |-> FALSE] \in Request
    BY DEF Request
  <2>2. request' \in [Requests -> Request \cup {None}] /\ saves' \in Nat
    BY <1>0, <1>1, <2>1 DEF Admit
  <2> QED
    BY <1>0, <1>1, <2>2, TypeInvFromParts DEF Admit, InHand
<1>2. ASSUME NEW q \in Requests, Count(q) PROVE TypeInv'
  <2>1. request[q] \in Request /\ request[q] # None
    BY <1>2, RequestsAreTyped DEF Count, Admitted
  <2>2. [request[q] EXCEPT !.locked = TRUE] \in Request
    BY <2>1 DEF Request
  <2>3. request' \in [Requests -> Request \cup {None}]
    BY <1>0, <1>2, <2>1, <2>2, RequestsAreTyped DEF Count
  <2> QED
    BY <1>0, <1>2, <2>3, TypeInvFromParts DEF Count, InHand
<1>3. ASSUME NEW q \in Requests, NEW email \in BOOLEAN, Create(q, email) PROVE TypeInv'
  <2>1. request[q].id \in Ids /\ request' \in [Requests -> Request \cup {None}]
    BY <1>3, RequestsAreTyped DEF Create, Admitted
  <2> QED
    BY <1>0, <1>3, <2>1, ScheduleEffect, ScheduledIsARow, TypeInvFromParts DEF Create, InHand
<1>4. ASSUME NEW q \in Requests, NEW email \in BOOLEAN, Edit(q, email) PROVE TypeInv'
  <2>1. request[q].id \in Ids /\ request' \in [Requests -> Request \cup {None}]
    BY <1>4, RequestsAreTyped DEF Edit, Admitted
  <2>2. Pending(request[q].id)
    BY <1>4 DEF Edit, Editable
  <2> QED
    BY <1>0, <1>4, <2>1, <2>2, ScheduleEffect, EditedIsARow, TypeInvFromParts DEF Edit, InHand
<1>5. ASSUME NEW q \in Requests, Cancel(q) PROVE TypeInv'
  <2>1. request[q].id \in Ids /\ request' \in [Requests -> Request \cup {None}]
    BY <1>5, RequestsAreTyped DEF Cancel, Admitted
  <2>2. WithStatus(request[q].id, "CANCELLED") \in Row
    BY <1>5, <2>1, WithStatusIsARow DEF Cancel, Cancellable, Status
  <2>3. reminder' \in [Ids -> Row \cup {None}]
    BY <1>0, <1>5, <2>1, <2>2 DEF Cancel
  <2> QED
    BY <1>0, <1>5, <2>1, <2>3, TypeInvFromParts DEF Cancel, InHand
<1>6. ASSUME NEW q \in Requests, Refuse(q) PROVE TypeInv'
  BY <1>0, <1>6, RequestsAreTyped, TypeInvFromParts DEF Refuse, InHand
(* Time and the world.                                                     *)
<1>7. ASSUME NEW i \in Ids, BecomeDue(i) PROVE TypeInv'
  BY <1>0, <1>7, TypeInvFromParts DEF BecomeDue, InHand
<1>8. ASSUME NEW i \in Ids, EndLease(i) PROVE TypeInv'
  <2>1. reminder[i] \in Row
    BY <1>0, <1>8 DEF EndLease, Pending, Stored
  <2>2. [reminder[i] EXCEPT !.live = FALSE] \in Row
    BY <2>1 DEF Row
  <2>3. reminder' \in [Ids -> Row \cup {None}] /\ faults' \in Nat
    BY <1>0, <1>8, <2>2 DEF EndLease
  <2> QED
    BY <1>0, <1>8, <2>3, TypeInvFromParts DEF EndLease, InHand
<1>9. ASSUME ChangeWorld PROVE TypeInv'
  BY <1>0, <1>9, TypeInvFromParts DEF ChangeWorld, InHand
(* The workers.                                                            *)
<1>10. ASSUME NEW w \in Workers, NEW batch \in SUBSET Ids, Claim(w, batch) PROVE TypeInv'
  <2>1. /\ worker' \in [Workers -> Tick \cup {None}] /\ reminder' \in [Ids -> Row \cup {None}]
        /\ worker'[w] # None /\ worker'[w].stage = "next" /\ worker'[w].id = None
        /\ \A v \in Workers : v # w => worker'[v] = worker[v]
    BY <1>10, ClaimEffect
  <2>2. UNCHANGED <<due, world, request, history, faults, saves>>
    BY <1>10 DEF Claim
  <2> QED
    BY <1>0, <2>1, <2>2, TypeInvFromParts DEF InHand
<1>11. ASSUME NEW w \in Workers, NEW i \in Ids, Read(w, i) PROVE TypeInv'
  <2>1. /\ worker' \in [Workers -> Tick \cup {None}]
        /\ \A v \in Workers : v # w => worker'[v] = worker[v]
        /\ worker'[w] # None
        /\ InHand(w)' => worker'[w].id \in Ids /\ worker'[w].seen \in Row
        /\ ~InHand(w)' => worker'[w].id = None
    BY <1>0, <1>11, ReadEffect DEF InHand
  <2>2. UNCHANGED <<rows, world, request, history, faults, saves>>
    BY <1>11 DEF Read
  <2> QED
    BY <1>0, <2>1, <2>2, TypeInvFromParts DEF InHand
<1>12. ASSUME NEW w \in Workers, Renew(w) PROVE TypeInv'
  <2>1. InHand(w)
    BY <1>12 DEF Renew, At, InHand
  <2>2. Owns(w, worker[w].id) => [reminder[worker[w].id] EXCEPT !.live = TRUE] \in Row
    <3> SUFFICES ASSUME Owns(w, worker[w].id)
                 PROVE  [reminder[worker[w].id] EXCEPT !.live = TRUE] \in Row
      OBVIOUS
    <3>1. reminder[worker[w].id] \in Row
      BY <1>0, <2>1 DEF Owns, Pending, Stored
    <3> QED
      BY <3>1, Zenon DEF Row
  <2>3. reminder' \in [Ids -> Row \cup {None}]
    BY <1>12, <2>1, <2>2, UpdateOwnedEffect DEF Renew
  <2> QED
    BY <1>0, <1>12, <2>1, <2>3, GoOnEffect, NextRowEffect, TypeInvFromParts
       DEF Renew, InHand, Handling
<1>13. ASSUME NEW w \in Workers, Judge(w) PROVE TypeInv'
  <2>1. InHand(w)
    BY <1>13 DEF Judge, At, InHand
  <2>2. PICK stage \in Handling : stage # "next" /\ GoOn(w, stage)
    BY <1>13 DEF Judge, Handling
  <2> QED
    BY <1>0, <1>13, <2>1, <2>2, GoOnEffect, TypeInvFromParts DEF Judge, InHand
<1>14. ASSUME NEW w \in Workers, Deny(w) PROVE TypeInv'
  <2>1. InHand(w)
    BY <1>14 DEF Deny, At, InHand
  <2>2. Owns(w, worker[w].id) => WithStatus(worker[w].id, "CANCELLED") \in Row
    BY <1>0, <2>1, WithStatusIsARow DEF Owns, Status
  <2>3. reminder' \in [Ids -> Row \cup {None}]
    BY <1>14, <2>1, <2>2, UpdateOwnedEffect DEF Deny
  <2> QED
    BY <1>0, <1>14, <2>1, <2>3, NextRowEffect, TypeInvFromParts DEF Deny, InHand
<1>15. ASSUME NEW w \in Workers, Publish(w) PROVE TypeInv'
  <2>1. InHand(w)
    BY <1>15 DEF Publish, At, InHand
  <2>2. PICK row : /\ UpdateOwned(w, row)
                   /\ row \in {reminder[worker[w].id], PublishedRow(reminder[worker[w].id])}
    BY <1>15 DEF Publish
  <2>3. Owns(w, worker[w].id) => row \in Row
    <3> SUFFICES ASSUME Owns(w, worker[w].id) PROVE row \in Row
      OBVIOUS
    <3>1. reminder[worker[w].id] \in Row
      BY <1>0, <2>1 DEF Owns, Pending, Stored
    <3>2. \A r \in Row : PublishedRow(r) \in Row
      BY DEF PublishedRow, Row
    <3> QED
      BY <2>2, <3>1, <3>2, Zenon
  <2>4. reminder' \in [Ids -> Row \cup {None}]
    BY <2>1, <2>2, <2>3, UpdateOwnedEffect
  <2> QED
    BY <1>0, <1>15, <2>1, <2>4, GoOnEffect, TypeInvFromParts
       DEF Publish, InHand, Handling
<1>16. ASSUME NEW w \in Workers, SkipMail(w) PROVE TypeInv'
  <2>1. InHand(w) /\ worker[w].seen \in Row
    BY <1>0, <1>16 DEF SkipMail, At, InHand
  <2>2. worker[w].seen.emailAccepted \in BOOLEAN
    BY <2>1 DEF Row
  <2> QED
    BY <1>0, <1>16, <2>1, <2>2, SentEffect, TypeInvFromParts, ZenonT(40) DEF SkipMail, InHand
<1>17. ASSUME NEW w \in Workers, NEW taken \in BOOLEAN, NEW told \in BOOLEAN,
              Mail(w, taken, told)
       PROVE  TypeInv'
  <2>1. InHand(w) /\ worker[w].id \in Ids
    BY <1>0, <1>17 DEF Mail, At, InHand
  <2>2. mails' \in [Ids -> Nat] /\ accepted' \subseteq Ids
    BY <1>0, <1>17, <2>1 DEF Mail
  <2> QED
    BY <1>0, <1>17, <2>1, <2>2, SentEffect, TypeInvFromParts, ZenonT(40) DEF Mail, InHand
<1>18. ASSUME NEW w \in Workers, Record(w) PROVE TypeInv'
  <2>1. InHand(w) /\ worker[w].id \in Ids /\ worker[w].sent \in BOOLEAN
    BY <1>0, <1>18 DEF Record, At, InHand, Tick
  <2>2. PICK row :
          /\ UpdateOwned(w, row)
          /\ row = [WithStatus(worker[w].id, Outcome(worker[w].seen, worker[w].sent))
                      EXCEPT !.emailAccepted = worker[w].sent]
    BY <1>18 DEF Record
  <2>3. Owns(w, worker[w].id) => row \in Row
    <3>1. Outcome(worker[w].seen, worker[w].sent) \in Status
      BY OutcomeIsAStatus DEF Status
    <3> QED
      BY <2>1, <2>2, <3>1, WithStatusIsARow DEF Owns
  <2>4. reminder' \in [Ids -> Row \cup {None}] /\ due' \subseteq Ids
    BY <1>0, <1>18, <2>1, <2>2, <2>3, UpdateOwnedEffect DEF Record
  <2> QED
    BY <1>0, <1>18, <2>1, <2>4, NextRowEffect, TypeInvFromParts DEF Record, InHand
<1>19. ASSUME NEW w \in Workers, EndTick(w), faults' \in Nat PROVE TypeInv'
  BY <1>0, <1>19, EndTickEffect, TypeInvFromParts DEF EndTick, InHand
<1>20. \A w \in Workers : Finish(w) \/ Crash(w) => EndTick(w) /\ faults' \in Nat
  BY <1>0 DEF Finish, Crash
<1>21. ASSUME UNCHANGED vars PROVE TypeInv'
  BY <1>0, <1>21, TypeInvFromParts DEF vars, InHand
<1> QED
  BY <1>1, <1>2, <1>3, <1>4, <1>5, <1>6, <1>7, <1>8, <1>9, <1>10, <1>11, <1>12,
     <1>13, <1>14, <1>15, <1>16, <1>17, <1>18, <1>19, <1>20, <1>21
     DEF Next, ClaimSome, Steps

(* The shape of the rows, the ticks, the requests and the histories.       *)
THEOREM TypesAreKept == Spec => []TypeOK
<1>1. TypeInv => TypeOK
  BY DEF TypeInv
<1> QED
  BY <1>1, InitEstablishesTypeInv, StepPreservesTypeInv, PTL DEF Spec

-----------------------------------------------------------------------------
(* Results, whether or not leases end under the workers.                   *)

(* What a tick in the middle of a row knows, as long as its token is in    *)
(* the row.                                                                *)
HoldsItsRow(w) ==
  InHand(w) /\ Owns(w, worker[w].id) =>
    LET i == worker[w].id
        seen == worker[w].seen
    IN  /\ reminder[i].email = seen.email
        /\ reminder[i].attempts = seen.attempts
        /\ reminder[i].emailAccepted = seen.emailAccepted
        /\ seen.published \/ worker[w].stage \in {"published", "sent"} =>
             reminder[i].published
        /\ worker[w].stage = "sent" /\ worker[w].sent => i \in accepted

RowStands(i) ==
  Stored(i) =>
    /\ reminder[i].emailAccepted => reminder[i].published /\ i \in accepted
    /\ reminder[i].status \in {"DELIVERED", "FAILED"} => reminder[i].published
    /\ reminder[i].status = "DELIVERED" /\ reminder[i].email => i \in accepted

ResultInv ==
  /\ TypeInv
  /\ \A w \in Workers : HoldsItsRow(w)
  /\ \A i \in Ids : RowStands(i)

LEMMA InitEstablishesResultInv == Init => ResultInv
BY InitEstablishesTypeInv DEF Init, ResultInv, HoldsItsRow, RowStands, InHand, Stored

LEMMA WithStatusFields ==
  ASSUME TypeInv, NEW i \in Ids, Pending(i), NEW status \in Status
  PROVE  /\ WithStatus(i, status).status = status
         /\ WithStatus(i, status).lease = None
         /\ WithStatus(i, status).email = reminder[i].email
         /\ WithStatus(i, status).attempts = reminder[i].attempts
         /\ WithStatus(i, status).published = reminder[i].published
         /\ WithStatus(i, status).emailAccepted = reminder[i].emailAccepted
<1>1. reminder[i] \in Row
  BY DEF TypeInv, TypeOK, Pending, Stored
<1> QED
  BY <1>1 DEF WithStatus, Row

(* A tick holds its row through a step that leaves both as they were, or   *)
(* takes the token out of the row.                                         *)
TokenStays(v) ==
  \A i \in Ids :
    worker[v].id = i /\ Owns(v, i)' =>
      /\ Owns(v, i)
      /\ reminder'[i].email = reminder[i].email
      /\ reminder'[i].attempts = reminder[i].attempts
      /\ reminder'[i].emailAccepted = reminder[i].emailAccepted
      /\ reminder[i].published => reminder'[i].published
      /\ i \in accepted => i \in accepted'

LEMMA TickHolds ==
  ASSUME TypeInv, NEW v \in Workers, HoldsItsRow(v), worker'[v] = worker[v],
         InHand(v) => TokenStays(v)
  PROVE  HoldsItsRow(v)'
<1> SUFFICES ASSUME InHand(v)', Owns(v, worker[v].id)'
             PROVE  HoldsItsRow(v)'
  BY DEF HoldsItsRow
<1>1. PICK i \in Ids : worker[v].id = i /\ worker'[v].id = i
  BY DEF InHand, TypeInv
<1>2. InHand(v) /\ Owns(v, i)'
  BY <1>1 DEF InHand, Owns, Pending, Stored
<1>3. /\ Owns(v, i)
      /\ reminder'[i].email = reminder[i].email
      /\ reminder'[i].attempts = reminder[i].attempts
      /\ reminder'[i].emailAccepted = reminder[i].emailAccepted
      /\ reminder[i].published => reminder'[i].published
      /\ i \in accepted => i \in accepted'
  BY <1>1, <1>2 DEF TokenStays
<1> QED
  BY <1>1, <1>2, <1>3 DEF HoldsItsRow, InHand

LEMMA RowsUntouched ==
  ASSUME ResultInv, UNCHANGED <<reminder, accepted>>
  PROVE  /\ \A i \in Ids : RowStands(i)'
         /\ \A v \in Workers : TokenStays(v)
BY DEF ResultInv, RowStands, TokenStays, Owns, Pending, Stored

(* A step that writes one row, and leaves no token of another worker in it *)
(* unless it leaves the rest of the row alone.                             *)
LEMMA OneRowWritten ==
  ASSUME ResultInv, NEW i \in Ids, RowStands(i)',
         \A j \in Ids : j # i => /\ reminder'[j] = reminder[j]
                                 /\ (j \in accepted' <=> j \in accepted)
  PROVE  /\ \A j \in Ids : RowStands(j)'
         /\ \A v \in Workers : InHand(v) /\ worker[v].id # i => TokenStays(v)
         /\ \A v \in Workers : ~Owns(v, i)' /\ worker[v].id = i => TokenStays(v)
<1>1. \A j \in Ids : RowStands(j)'
  BY DEF ResultInv, RowStands, Stored
<1>2. \A v \in Workers : InHand(v) /\ worker[v].id # i => TokenStays(v)
  BY DEF ResultInv, TypeInv, TokenStays, Owns, Pending, Stored
<1>3. \A v \in Workers : ~Owns(v, i)' /\ worker[v].id = i => TokenStays(v)
  BY DEF TokenStays
<1> QED
  BY <1>1, <1>2, <1>3

(* The guarded update of a tick.                                           *)
LEMMA UpdateKeepsOthers ==
  ASSUME ResultInv, NEW w \in Workers, InHand(w), NEW i \in Ids, worker[w].id = i,
         NEW row, UpdateOwned(w, row),
         Owns(w, i) => row \in Row /\ row.lease \in {w, None} /\ RowStands(i)',
         accepted' = accepted
  PROVE  /\ \A j \in Ids : RowStands(j)'
         /\ \A v \in Workers : v # w /\ InHand(v) => TokenStays(v)
<1>1. /\ \A j \in Ids : j # i => reminder'[j] = reminder[j]
      /\ Owns(w, i) => reminder'[i] = row
      /\ ~Owns(w, i) => reminder' = reminder
  BY UpdateOwnedEffect DEF ResultInv
<1>2. CASE Owns(w, i)
  <2>1. \A v \in Workers : v # w => ~Owns(v, i)'
    BY <1>1, <1>2, SentinelAssumption DEF Owns
  <2> QED
    BY <1>1, <1>2, <2>1, OneRowWritten
<1>3. CASE ~Owns(w, i)
  BY <1>1, <1>3, RowsUntouched
<1> QED
  BY <1>2, <1>3

LEMMA StepPreservesResultInv == ResultInv /\ [Next]_vars => ResultInv'
<1> SUFFICES ASSUME ResultInv, [Next]_vars PROVE ResultInv'
  OBVIOUS
<1> DEFINE Kept == (\A w \in Workers : HoldsItsRow(w)') /\ (\A i \in Ids : RowStands(i)')
<1>0. /\ TypeInv /\ TypeInv'
      /\ \A w \in Workers : HoldsItsRow(w)
      /\ \A i \in Ids : RowStands(i)
      /\ \A w \in Workers : InHand(w) => worker[w].id \in Ids /\ worker[w].seen \in Row
  BY StepPreservesTypeInv DEF ResultInv, TypeInv
<1> USE DEF rows, world, history
<1>1. ASSUME UNCHANGED <<reminder, accepted, worker>> PROVE Kept
  BY <1>0, <1>1, RowsUntouched, TickHolds
<1>2. ASSUME NEW i \in Ids, NEW row \in Row, Schedule(i, row), row.status = "PENDING",
             row.lease = None, ~row.emailAccepted, UNCHANGED worker
      PROVE  Kept
  <2>1. reminder'[i] = row /\ accepted' = accepted \ {i}
        /\ \A j \in Ids : j # i => reminder'[j] = reminder[j]
    BY <1>0, <1>2, ScheduleEffect
  <2>2. RowStands(i)' /\ \A v \in Workers : ~Owns(v, i)'
    BY <1>2, <2>1, SentinelAssumption DEF RowStands, Owns
  <2>3. /\ \A j \in Ids : RowStands(j)'
        /\ \A v \in Workers : InHand(v) => TokenStays(v)
    BY <2>1, <2>2, OneRowWritten
  <2> QED
    BY <1>0, <1>2, <2>3, TickHolds
<1>3. ASSUME NEW q \in Requests, NEW email \in BOOLEAN, Create(q, email) PROVE Kept
  <2>1. request[q].id \in Ids /\ Schedule(request[q].id, Scheduled(email)) /\ UNCHANGED worker
    BY <1>0, <1>3, RequestsAreTyped DEF Create, Admitted
  <2> QED
    BY <1>2, <2>1, ScheduledIsARow DEF Scheduled
<1>4. ASSUME NEW q \in Requests, NEW email \in BOOLEAN, Edit(q, email) PROVE Kept
  <2>0. PICK i \in Ids : i = request[q].id
    BY <1>0, <1>4, RequestsAreTyped DEF Edit, Admitted
  <2> DEFINE row == [reminder[i] EXCEPT !.email = email, !.attempts = 0, !.lease = None,
                                        !.live = FALSE]
  <2>1. Schedule(i, row) /\ UNCHANGED worker /\ Editable(i)
    BY <1>4, <2>0 DEF Edit
  <2>2. reminder[i] \in Row /\ row \in Row
    BY <1>0, <2>1, EditedIsARow DEF Editable
  <2>3. ~reminder[i].emailAccepted /\ reminder[i].status = "PENDING"
    BY <1>0, <2>1 DEF RowStands, Editable, Pending
  <2>4. row.status = "PENDING" /\ row.lease = None /\ ~row.emailAccepted
    BY <2>2, <2>3 DEF Row
  <2> HIDE DEF row
  <2> QED
    BY <1>2, <2>1, <2>2, <2>4
<1>5. ASSUME NEW q \in Requests, Cancel(q) PROVE Kept
  <2>0. PICK i \in Ids : i = request[q].id
    BY <1>0, <1>5, RequestsAreTyped DEF Cancel, Admitted
  <2> DEFINE row == WithStatus(i, "CANCELLED")
  <2>1. Pending(i) /\ UNCHANGED <<worker, accepted>>
        /\ reminder' = [reminder EXCEPT ![i] = row]
    BY <1>5, <2>0 DEF Cancel, Cancellable
  <2>2. /\ row.status = "CANCELLED" /\ row.lease = None
        /\ row.emailAccepted = reminder[i].emailAccepted
        /\ row.published = reminder[i].published
    BY <1>0, <2>1, WithStatusFields DEF Status
  <2>3. reminder'[i] = row /\ \A j \in Ids : j # i => reminder'[j] = reminder[j]
    BY <1>0, <2>1 DEF TypeInv, TypeOK
  <2> HIDE DEF row
  <2>4. RowStands(i)' /\ \A v \in Workers : ~Owns(v, i)'
    BY <1>0, <2>1, <2>2, <2>3, SentinelAssumption DEF RowStands, Owns, Pending, Stored
  <2> QED
    BY <1>0, <2>1, <2>3, <2>4, OneRowWritten, TickHolds
<1>6. ASSUME NEW i \in Ids, EndLease(i) PROVE Kept
  <2>1. reminder[i] \in Row /\ UNCHANGED <<worker, accepted>>
        /\ reminder' = [reminder EXCEPT ![i].live = FALSE]
    BY <1>0, <1>6 DEF EndLease, Pending, Stored, TypeInv, TypeOK
  <2>2. /\ \A j \in Ids : j # i => reminder'[j] = reminder[j]
        /\ Stored(i)
        /\ reminder'[i].status = reminder[i].status /\ reminder'[i].lease = reminder[i].lease
        /\ reminder'[i].email = reminder[i].email /\ reminder'[i].attempts = reminder[i].attempts
        /\ reminder'[i].published = reminder[i].published
        /\ reminder'[i].emailAccepted = reminder[i].emailAccepted
    BY <1>0, <1>6, <2>1 DEF EndLease, Pending, TypeInv, TypeOK, Row
  <2>3. RowStands(i)'
    BY <1>0, <2>1, <2>2 DEF RowStands
  <2>4. \A v \in Workers : worker[v].id = i => TokenStays(v)
    BY <2>1, <2>2 DEF TokenStays, Owns, Pending
  <2> QED
    BY <1>0, <2>1, <2>2, <2>3, <2>4, OneRowWritten, TickHolds
<1>7. ASSUME NEW w \in Workers, NEW batch \in SUBSET Ids, Claim(w, batch) PROVE Kept
  <2>1. /\ UNCHANGED accepted /\ ~InHand(w)'
        /\ \A v \in Workers : v # w => worker'[v] = worker[v]
        /\ \A i \in Ids \ batch : reminder'[i] = reminder[i]
        /\ \A i \in batch :
              /\ Stored(i) /\ reminder[i].status = "PENDING"
              /\ reminder'[i].lease = w /\ reminder'[i].status = "PENDING"
              /\ reminder'[i].published = reminder[i].published
              /\ reminder'[i].emailAccepted = reminder[i].emailAccepted
    BY <1>0, <1>7, ClaimEffect, ZenonT(40) DEF Claim, InHand, Claimable, Pending
  <2>2. ASSUME NEW i \in Ids PROVE RowStands(i)'
    <3>1. CASE i \in batch
      BY <1>0, <2>1, <3>1 DEF RowStands
    <3>2. CASE i \notin batch
      BY <1>0, <2>1, <3>2 DEF RowStands, Stored
    <3> QED
      BY <3>1, <3>2
  <2>3. ASSUME NEW v \in Workers, v # w, InHand(v) PROVE TokenStays(v)
    <3>1. CASE worker[v].id \in batch
      BY <2>1, <2>3, <3>1 DEF TokenStays, Owns
    <3>2. CASE worker[v].id \notin batch
      BY <1>0, <2>1, <2>3, <3>2 DEF TokenStays, Owns, Pending, Stored
    <3> QED
      BY <3>1, <3>2
  <2> QED
    BY <1>0, <2>1, <2>2, <2>3, TickHolds DEF HoldsItsRow
<1>8. ASSUME NEW w \in Workers, NEW i \in Ids, Read(w, i) PROVE Kept
  <2>1. UNCHANGED <<reminder, accepted>> /\ \A v \in Workers : v # w => worker'[v] = worker[v]
    BY <1>0, <1>8, ReadEffect DEF Read
  <2>2. InHand(w)' => worker'[w].id = i /\ worker'[w].seen = reminder[i]
                      /\ worker'[w].stage = "read"
    BY <1>0, <1>8, ReadEffect DEF InHand
  <2>3. HoldsItsRow(w)'
    BY <2>1, <2>2 DEF HoldsItsRow
  <2> QED
    BY <1>0, <2>1, <2>3, RowsUntouched, TickHolds
<1>9. ASSUME NEW w \in Workers, NextRow(w), InHand(w), NEW i \in Ids, worker[w].id = i,
             NEW row, UpdateOwned(w, row),
             Owns(w, i) => row \in Row /\ row.lease = None /\ RowStands(i)',
             accepted' = accepted
      PROVE  Kept
  <2>1. ~InHand(w)' /\ \A v \in Workers : v # w => worker'[v] = worker[v]
    BY <1>0, <1>9, NextRowEffect DEF InHand
  <2>2. /\ \A j \in Ids : RowStands(j)'
        /\ \A v \in Workers : v # w /\ InHand(v) => TokenStays(v)
    BY <1>9, UpdateKeepsOthers
  <2> QED
    BY <1>0, <2>1, <2>2, TickHolds DEF HoldsItsRow
<1>10. ASSUME NEW w \in Workers, Renew(w) PROVE Kept
  <2>0. PICK i \in Ids : i = worker[w].id
    BY <1>0, <1>10 DEF Renew, At, InHand
  <2> DEFINE row == [reminder[i] EXCEPT !.live = TRUE]
  <2>1. InHand(w) /\ UpdateOwned(w, row) /\ accepted' = accepted
        /\ worker[w].stage = "read"
    BY <1>0, <1>10, <2>0 DEF Renew, At, InHand
  <2>2. CASE Owns(w, i)
    <3>1. reminder[i] \in Row
      BY <1>0, <2>0, <2>1, <2>2 DEF Owns, Pending, Stored, TypeInv, TypeOK
    <3>2. row \in Row
      BY <3>1, Zenon DEF Row
    <3>3. /\ row.lease = w /\ row.status = reminder[i].status
          /\ row.email = reminder[i].email /\ row.attempts = reminder[i].attempts
          /\ row.published = reminder[i].published
          /\ row.emailAccepted = reminder[i].emailAccepted
      BY <2>2, <3>1 DEF Row, Owns
    <3> HIDE DEF row
    <3>4. reminder'[i] = row
      BY <1>0, <2>0, <2>1, <2>2, <3>2, UpdateOwnedEffect
    <3>5. RowStands(i)'
      BY <1>0, <2>0, <2>1, <2>2, <3>3, <3>4 DEF RowStands, Owns, Pending
    <3>6. /\ \A j \in Ids : RowStands(j)'
          /\ \A v \in Workers : v # w /\ InHand(v) => TokenStays(v)
      BY <2>0, <2>1, <3>2, <3>3, <3>5, UpdateKeepsOthers
    <3>7. GoOn(w, "owned")
      BY <1>10, <2>0, <2>2 DEF Renew, StillOwned
    <3>8. /\ worker'[w].id = i /\ worker'[w].seen = worker[w].seen /\ worker'[w].stage = "owned"
          /\ \A v \in Workers : v # w => worker'[v] = worker[v]
      BY <1>0, <2>0, <2>1, <3>7, GoOnEffect DEF Handling
    <3>9. HoldsItsRow(w)'
      BY <1>0, <2>0, <2>1, <2>2, <3>3, <3>4, <3>8 DEF HoldsItsRow
    <3> QED
      BY <1>0, <3>6, <3>8, <3>9, TickHolds
  <2>3. CASE ~Owns(w, i)
    <3>1. NextRow(w)
      BY <1>10, <2>0, <2>3 DEF Renew, StillOwned
    <3> QED
      BY <1>9, <2>0, <2>1, <2>3, <3>1
  <2> QED
    BY <2>2, <2>3
<1>11. ASSUME NEW w \in Workers, Judge(w) PROVE Kept
  <2>1. InHand(w) /\ UNCHANGED <<reminder, accepted>> /\ worker[w].stage = "owned"
    BY <1>11 DEF Judge, At, InHand
  <2>2. PICK stage \in {"granted", "denied"} : GoOn(w, stage)
    BY <1>11 DEF Judge
  <2>3. /\ worker'[w].id = worker[w].id /\ worker'[w].seen = worker[w].seen
        /\ worker'[w].stage = stage
        /\ \A v \in Workers : v # w => worker'[v] = worker[v]
    BY <1>0, <2>1, <2>2, GoOnEffect DEF Handling
  <2>4. HoldsItsRow(w)'
    BY <1>0, <2>1, <2>3 DEF HoldsItsRow, Owns, Pending, Stored
  <2> QED
    BY <1>0, <2>1, <2>3, <2>4, RowsUntouched, TickHolds
<1>12. ASSUME NEW w \in Workers, Deny(w) PROVE Kept
  <2>0. PICK i \in Ids : i = worker[w].id
    BY <1>0, <1>12 DEF Deny, At, InHand
  <2> DEFINE row == WithStatus(i, "CANCELLED")
  <2>1. InHand(w) /\ UpdateOwned(w, row) /\ accepted' = accepted /\ NextRow(w)
    BY <1>0, <1>12, <2>0 DEF Deny, At, InHand
  <2>2. ASSUME Owns(w, i) PROVE row \in Row /\ row.lease = None /\ RowStands(i)'
    <3>1. /\ row \in Row /\ row.status = "CANCELLED" /\ row.lease = None
          /\ row.emailAccepted = reminder[i].emailAccepted
          /\ row.published = reminder[i].published
      BY <1>0, <2>0, <2>1, <2>2, WithStatusFields, WithStatusIsARow DEF Owns, Status
    <3> HIDE DEF row
    <3>2. reminder'[i] = row
      BY <1>0, <2>0, <2>1, <2>2, <3>1, UpdateOwnedEffect
    <3> QED
      BY <1>0, <2>0, <2>1, <2>2, <3>1, <3>2 DEF RowStands, Owns, Pending
  <2> QED
    BY <1>9, <2>0, <2>1, <2>2
<1>13. ASSUME NEW w \in Workers, Publish(w) PROVE Kept
  <2>0. PICK i \in Ids : i = worker[w].id
    BY <1>0, <1>13 DEF Publish, At, InHand
  <2>1. InHand(w) /\ accepted' = accepted /\ GoOn(w, "published")
        /\ worker[w].stage = "granted"
    BY <1>0, <1>13, <2>0 DEF Publish, At, InHand
  <2>2. PICK row :
          /\ UpdateOwned(w, row)
          /\ \/ row = reminder[i] /\ worker[w].seen.published
             \/ row = PublishedRow(reminder[i])
    BY <1>13, <2>0 DEF Publish
  <2>3. /\ worker'[w].id = worker[w].id /\ worker'[w].seen = worker[w].seen
        /\ worker'[w].stage = "published"
        /\ \A v \in Workers : v # w => worker'[v] = worker[v]
    BY <1>0, <2>0, <2>1, GoOnEffect DEF Handling
  <2>4. ASSUME Owns(w, i)
        PROVE  /\ row \in Row /\ row.lease = w /\ row.status = "PENDING" /\ row.published
               /\ row.email = reminder[i].email /\ row.attempts = reminder[i].attempts
               /\ row.emailAccepted = reminder[i].emailAccepted
               /\ reminder'[i] = row
    <3>1. reminder[i] \in Row /\ reminder[i].lease = w /\ reminder[i].status = "PENDING"
      BY <1>0, <2>0, <2>1, <2>4 DEF Owns, Pending, Stored, TypeInv, TypeOK
    <3>2. CASE row = reminder[i] /\ worker[w].seen.published
      BY <1>0, <2>0, <2>1, <2>2, <2>4, <3>1, <3>2, UpdateOwnedEffect DEF HoldsItsRow
    <3>3. CASE row = PublishedRow(reminder[i])
      <4>1. /\ row \in Row /\ row.lease = w /\ row.status = "PENDING" /\ row.published
            /\ row.email = reminder[i].email /\ row.attempts = reminder[i].attempts
            /\ row.emailAccepted = reminder[i].emailAccepted
        BY <3>1, <3>3 DEF PublishedRow, Row
      <4> QED
        BY <1>0, <2>0, <2>1, <2>2, <2>4, <4>1, UpdateOwnedEffect
    <3> QED
      BY <2>2, <3>2, <3>3
  <2>5. Owns(w, i) => RowStands(i)'
    BY <1>0, <2>0, <2>1, <2>4 DEF RowStands, Owns, Pending
  <2>6. /\ \A j \in Ids : RowStands(j)'
        /\ \A v \in Workers : v # w /\ InHand(v) => TokenStays(v)
    BY <2>0, <2>1, <2>2, <2>4, <2>5, UpdateKeepsOthers
  <2>7. HoldsItsRow(w)'
    <3>1. CASE Owns(w, i)
      BY <1>0, <2>0, <2>1, <2>3, <2>4, <3>1 DEF HoldsItsRow
    <3>2. CASE ~Owns(w, i)
      <4>1. reminder' = reminder
        BY <2>0, <2>2, <3>2 DEF UpdateOwned
      <4> QED
        BY <2>0, <2>3, <3>2, <4>1 DEF HoldsItsRow, Owns, Pending, Stored
    <3> QED
      BY <3>1, <3>2
  <2> QED
    BY <1>0, <2>3, <2>6, <2>7, TickHolds
<1>14. ASSUME NEW w \in Workers, SkipMail(w) PROVE Kept
  <2>0. PICK i \in Ids : i = worker[w].id
    BY <1>0, <1>14 DEF SkipMail, At, InHand
  <2> DEFINE told == worker[w].seen.emailAccepted
  <2>1. InHand(w) /\ UNCHANGED <<reminder, accepted>> /\ worker[w].stage = "published"
        /\ worker' = [worker EXCEPT ![w].stage = "sent", ![w].sent = told]
    BY <1>14, <2>0 DEF SkipMail, At, InHand
  <2>2. told \in BOOLEAN
    BY <1>0, <2>0, <2>1 DEF Row
  <2>3. /\ worker'[w].id = worker[w].id /\ worker'[w].seen = worker[w].seen
        /\ worker'[w].sent = told
        /\ \A v \in Workers : v # w => worker'[v] = worker[v]
    BY <1>0, <2>0, <2>1, <2>2, SentEffect
  <2>4. HoldsItsRow(w)'
    <3> SUFFICES ASSUME Owns(w, i) PROVE HoldsItsRow(w)'
      BY <2>0, <2>1, <2>3 DEF HoldsItsRow, Owns, Pending, Stored
    <3>1. RowStands(i) /\ Stored(i)
      BY <1>0, <2>0, <2>1 DEF Owns, Pending
    <3> QED
      BY <1>0, <2>0, <2>1, <2>3, <3>1 DEF HoldsItsRow, RowStands
  <2> QED
    BY <1>0, <2>0, <2>1, <2>3, <2>4, RowsUntouched, TickHolds
<1>15. ASSUME NEW w \in Workers, NEW taken \in BOOLEAN, NEW told \in BOOLEAN,
              Mail(w, taken, told)
       PROVE  Kept
  <2>0. PICK i \in Ids : i = worker[w].id
    BY <1>0, <1>15 DEF Mail, At, InHand
  <2>1. /\ InHand(w) /\ worker[w].stage = "published"
        /\ UNCHANGED reminder
        /\ worker' = [worker EXCEPT ![w].stage = "sent", ![w].sent = told]
    BY <1>15 DEF Mail, At, InHand
  <2>a. accepted' = IF taken /\ Owns(w, i) THEN accepted \cup {i} ELSE accepted
    BY <1>15, <2>0, Zenon DEF Mail
  <2>b. told => taken
    BY <1>15, Zenon DEF Mail
  <2>2. /\ worker'[w].id = worker[w].id /\ worker'[w].seen = worker[w].seen
        /\ worker'[w].sent = told
        /\ \A v \in Workers : v # w => worker'[v] = worker[v]
    BY <1>0, <2>0, <2>1, SentEffect
  <2>3. accepted \subseteq accepted' /\ (Owns(w, i) /\ told => i \in accepted')
    <3>1. CASE taken /\ Owns(w, i)
      <4>1. accepted' = accepted \cup {i}
        BY <2>a, <3>1, Zenon
      <4> QED
        BY <4>1
    <3>2. CASE ~(taken /\ Owns(w, i))
      <4>1. accepted' = accepted
        BY <2>a, <3>2, Zenon
      <4> QED
        BY <2>b, <3>2, <4>1, Zenon
    <3> QED
      BY <3>1, <3>2
  <2>4. HoldsItsRow(w)'
    BY <1>0, <2>0, <2>1, <2>2, <2>3 DEF HoldsItsRow, Owns, Pending, Stored
  <2>5. \A j \in Ids : RowStands(j)'
    BY <1>0, <2>0, <2>1, <2>3 DEF RowStands, Stored
  <2>6. \A v \in Workers : TokenStays(v)
    BY <2>0, <2>1, <2>3 DEF TokenStays, Owns, Pending, Stored
  <2> QED
    BY <1>0, <2>2, <2>4, <2>5, <2>6, TickHolds
<1>16. ASSUME NEW w \in Workers, Record(w) PROVE Kept
  <2>0. PICK i \in Ids : i = worker[w].id
    BY <1>0, <1>16 DEF Record, At, InHand
  <2> DEFINE outcome == Outcome(worker[w].seen, worker[w].sent)
             row == [WithStatus(i, outcome) EXCEPT !.emailAccepted = worker[w].sent]
  <2>1. InHand(w) /\ UpdateOwned(w, row) /\ accepted' = accepted /\ NextRow(w)
        /\ worker[w].stage = "sent"
    BY <1>0, <1>16, <2>0 DEF Record, At, InHand
  <2>2. ASSUME Owns(w, i) PROVE row \in Row /\ row.lease = None /\ RowStands(i)'
    <3>1. outcome \in Status
      BY OutcomeIsAStatus DEF Status
    <3>2. worker[w].sent \in BOOLEAN
      BY <1>0, <2>0, <2>1 DEF InHand, TypeInv, TypeOK, Tick
    <3>3. WithStatus(i, outcome) \in Row /\ row \in Row
      BY <1>0, <2>0, <2>1, <2>2, <3>1, <3>2, WithStatusIsARow DEF Owns
    <3>4. /\ WithStatus(i, outcome).status = outcome
          /\ WithStatus(i, outcome).lease = None
          /\ WithStatus(i, outcome).email = reminder[i].email
          /\ WithStatus(i, outcome).published = reminder[i].published
      BY <1>0, <2>0, <2>1, <2>2, <3>1, WithStatusFields DEF Owns
    <3>5. /\ row.status = outcome /\ row.lease = None
          /\ row.email = reminder[i].email /\ row.published = reminder[i].published
      <4> HIDE DEF outcome
      <4> QED
        BY <3>3, <3>4 DEF Row
    <3>6. row.emailAccepted = worker[w].sent
      BY <3>3, Zenon DEF Row
    <3>7. /\ reminder[i].published /\ reminder[i].email = worker[w].seen.email
          /\ worker[w].sent => i \in accepted
      BY <1>0, <2>0, <2>1, <2>2 DEF HoldsItsRow
    <3>8. outcome = "DELIVERED" => ~worker[w].seen.email \/ worker[w].sent
      BY DEF Outcome
    <3> HIDE DEF row, outcome
    <3>9. reminder'[i] = row
      BY <1>0, <2>0, <2>1, <2>2, <3>3, UpdateOwnedEffect
    <3> QED
      BY <2>0, <2>1, <3>3, <3>5, <3>6, <3>7, <3>8, <3>9 DEF RowStands
  <2> QED
    BY <1>9, <2>0, <2>1, <2>2
<1>17. ASSUME NEW w \in Workers, EndTick(w), accepted' = accepted PROVE Kept
  <2>1. /\ worker'[w] = None /\ \A v \in Workers : v # w => worker'[v] = worker[v]
        /\ \A i \in Ids : Stored(i)' <=> Stored(i)
        /\ \A i \in Ids : ~Stored(i) \/ reminder[i].lease # w => reminder'[i] = reminder[i]
        /\ \A i \in Ids : Stored(i) /\ reminder[i].lease = w =>
             /\ reminder[i] \in Row
             /\ reminder'[i] = [reminder[i] EXCEPT !.lease = Lost]
    BY <1>0, <1>17, EndTickEffect
  <2>2. \A i \in Ids : Stored(i) =>
          /\ reminder'[i].lease \in {reminder[i].lease, Lost}
          /\ reminder'[i].status = reminder[i].status
          /\ reminder'[i].email = reminder[i].email
          /\ reminder'[i].attempts = reminder[i].attempts
          /\ reminder'[i].published = reminder[i].published
          /\ reminder'[i].emailAccepted = reminder[i].emailAccepted
    BY <2>1 DEF Row
  <2>3. ASSUME NEW i \in Ids PROVE RowStands(i)'
    BY <1>0, <1>17, <2>1, <2>2 DEF RowStands
  <2>4. ASSUME NEW v \in Workers, InHand(v) PROVE TokenStays(v)
    BY <1>0, <1>17, <2>1, <2>2, <2>4, SentinelAssumption DEF TokenStays, Owns, Pending
  <2> QED
    BY <1>0, <2>1, <2>3, <2>4, TickHolds DEF HoldsItsRow, InHand
<1>18. \A w \in Workers : Finish(w) \/ Crash(w) => EndTick(w) /\ accepted' = accepted
  BY DEF Finish, Crash, EndTick
<1>19. ASSUME \/ \E q \in Requests :
                   \/ \E op \in Operations, i \in Ids : Admit(q, op, i)
                   \/ Count(q) \/ Refuse(q)
              \/ \E i \in Ids : BecomeDue(i)
              \/ ChangeWorld \/ UNCHANGED vars
       PROVE  Kept
  <2>1. UNCHANGED <<reminder, accepted, worker>>
    BY <1>19 DEF Admit, Count, Refuse, BecomeDue, ChangeWorld, vars
  <2> QED
    BY <1>1, <2>1
<1> HIDE DEF Kept
<1>20. Kept
  BY <1>3, <1>4, <1>5, <1>6, <1>7, <1>8, <1>10, <1>11, <1>12, <1>13, <1>14, <1>15, <1>16,
     <1>17, <1>18, <1>19 DEF Next, ClaimSome, Steps
<1> QED
  BY <1>0, <1>20 DEF ResultInv, Kept

(* A reminder ends in the bell, and delivered by mail means that the       *)
(* provider took a mail of the present schedule, even if leases end under  *)
(* the workers (the token in processTicketReminders).                      *)
THEOREM ResultsAreTruthful == Spec => []SettledIsTruthful
<1>1. ResultInv => SettledIsTruthful
  BY DEF ResultInv, RowStands, SettledIsTruthful
<1> QED
  BY <1>1, InitEstablishesResultInv, StepPreservesResultInv, PTL DEF Spec

-----------------------------------------------------------------------------
(* The work on a row, while a lease outlives it.                           *)

(* A request to create has its id to itself.                               *)
CreatesItsOwn(q) ==
  Admitted(q, "create") =>
    /\ ~Stored(request[q].id)
    /\ \A p \in Requests :
         Admitted(p, "create") /\ request[p].id = request[q].id => p = q

KeepsItsLease(w) ==
  Works(w) => Owns(w, worker[w].id) /\ reminder[worker[w].id].live

(* The claim of an attempt is counted before its mail.                     *)
SentFor(w, i) == At(w, "sent") /\ worker[w].id = i

MailsAreClaimed(i) ==
  /\ mails[i] <= MaxAttempts
  /\ Stored(i) => mails[i] <= reminder[i].attempts
  /\ \A w \in Workers :
       Owns(w, i) /\ reminder[i].attempts <= MaxAttempts /\ ~SentFor(w, i) =>
         mails[i] < reminder[i].attempts

HandlingInv ==
  /\ ResultInv
  /\ \A q \in Requests : CreatesItsOwn(q)
  /\ \A w \in Workers : KeepsItsLease(w)
  /\ \A i \in Ids : MailsAreClaimed(i)

LEMMA InitEstablishesHandlingInv == Init => HandlingInv
<1> SUFFICES ASSUME Init PROVE HandlingInv
  OBVIOUS
<1>1. ResultInv
  BY InitEstablishesResultInv
<1>2. \A i \in Ids : MailsAreClaimed(i)
  BY ReminderAssumption DEF Init, MailsAreClaimed, Stored, Owns, Pending
<1> QED
  BY <1>1, <1>2 DEF Init, HandlingInv, CreatesItsOwn, KeepsItsLease, Works, Admitted

(* Rows are stored by requests to create only.                             *)
LEMMA CreatesStay ==
  ASSUME TypeInv, \A q \in Requests : CreatesItsOwn(q),
         \A i \in Ids : Stored(i)' => Stored(i),
         \A q \in Requests : Admitted(q, "create")' =>
           Admitted(q, "create") /\ request'[q].id = request[q].id
  PROVE  \A q \in Requests : CreatesItsOwn(q)'
<1> SUFFICES ASSUME NEW q \in Requests, Admitted(q, "create")'
             PROVE  CreatesItsOwn(q)'
  BY DEF CreatesItsOwn
<1>1. PICK i \in Ids : request[q].id = i /\ request'[q].id = i
  BY DEF TypeInv, TypeOK, Request, Admitted
<1>2. ~Stored(i)
  BY <1>1 DEF CreatesItsOwn
<1>3. ~Stored(i)'
  BY <1>2
<1>4. \A p \in Requests : Admitted(p, "create")' /\ request'[p].id = i => p = q
  BY <1>1 DEF CreatesItsOwn
<1> QED
  BY <1>1, <1>3, <1>4 DEF CreatesItsOwn, Stored

LEMMA StepKeepsCreates ==
  ASSUME TypeInv, TypeInv', [Next]_vars, \A q \in Requests : CreatesItsOwn(q)
  PROVE  \A q \in Requests : CreatesItsOwn(q)'
<1> DEFINE Kept == \A q \in Requests : CreatesItsOwn(q)'
<1> USE DEF rows, world, history
<1>0. request \in [Requests -> Request \cup {None}] /\ reminder \in [Ids -> Row \cup {None}]
  BY DEF TypeInv, TypeOK
<1>1. ASSUME UNCHANGED request, \A i \in Ids : Stored(i)' => Stored(i) PROVE Kept
  BY <1>1, CreatesStay DEF Admitted
<1>2. ASSUME NEW q \in Requests, Done(q), \A i \in Ids : Stored(i)' => Stored(i) PROVE Kept
  BY <1>0, <1>2, CreatesStay DEF Admitted, Done
<1>3. ASSUME NEW q \in Requests, NEW op \in Operations, NEW i \in Ids, Admit(q, op, i)
      PROVE  Kept
  <2>1. [op |-> op, id |-> i, locked |-> FALSE] \in Request
    BY DEF Request
  <2>2. /\ request'[q].op = op /\ request'[q].id = i /\ UNCHANGED reminder
        /\ request[q] = None
        /\ \A p \in Requests : p # q => request'[p] = request[p]
        /\ op = "create" =>
             ~Stored(i) /\ \A p \in Requests : request[p] # None => request[p].id # i
    BY <1>0, <1>3, <2>1 DEF Admit
  <2> SUFFICES ASSUME NEW p \in Requests, Admitted(p, "create")'
               PROVE  CreatesItsOwn(p)'
    BY DEF CreatesItsOwn
  <2>3. CASE p = q
    <3>1. op = "create" /\ request'[p].id = i
      BY <2>2, <2>3 DEF Admitted
    <3> QED
      BY <2>2, <2>3, <3>1 DEF CreatesItsOwn, Admitted, Stored
  <2>4. CASE p # q
    <3>1. /\ Admitted(p, "create") /\ CreatesItsOwn(p) /\ request'[p] = request[p]
          /\ request[p] # None
      BY <2>2, <2>4 DEF Admitted
    <3>2. \A r \in Requests : Admitted(r, "create")' /\ request'[r].id = request[p].id => r = p
      BY <2>2, <3>1 DEF CreatesItsOwn, Admitted
    <3> QED
      BY <2>2, <3>1, <3>2 DEF CreatesItsOwn, Stored
  <2> QED
    BY <2>3, <2>4
<1>4. ASSUME NEW q \in Requests, Count(q) PROVE Kept
  <2>1. UNCHANGED reminder
    BY <1>4 DEF Count
  <2>2. CASE Done(q)
    BY <1>2, <2>1, <2>2 DEF Stored
  <2>3. CASE request' = [request EXCEPT ![q].locked = TRUE]
    <3>1. request[q] \in Request
      BY <1>0, <1>4 DEF Count, Admitted
    <3>2. \A p \in Requests : Admitted(p, "create")' =>
            Admitted(p, "create") /\ request'[p].id = request[p].id
      BY <1>0, <1>4, <2>3, <3>1 DEF Count, Admitted, Request
    <3> QED
      BY <2>1, <3>2, CreatesStay DEF Stored
  <2> QED
    BY <1>4, <2>2, <2>3 DEF Count
<1>5. ASSUME NEW q \in Requests, NEW email \in BOOLEAN, Create(q, email) PROVE Kept
  <2>0. PICK i \in Ids : i = request[q].id
    BY <1>0, <1>5 DEF Create, Admitted, Request
  <2>1. /\ \A j \in Ids : j # i => reminder'[j] = reminder[j]
        /\ Admitted(q, "create")
    BY <1>0, <1>5, <2>0 DEF Create, Schedule
  <2>2. request'[q] = None /\ \A p \in Requests : p # q => request'[p] = request[p]
    BY <1>0, <1>5 DEF Create, Done
  <2> SUFFICES ASSUME NEW p \in Requests, Admitted(p, "create")'
               PROVE  CreatesItsOwn(p)'
    BY DEF CreatesItsOwn
  <2>3. /\ p # q /\ Admitted(p, "create") /\ CreatesItsOwn(p) /\ request'[p] = request[p]
    BY <2>2 DEF Admitted
  <2>4. PICK j \in Ids : j = request[p].id /\ j = request'[p].id
    BY <1>0, <2>3 DEF Admitted, Request
  <2>5. j # i
    BY <2>0, <2>1, <2>3, <2>4 DEF CreatesItsOwn
  <2>6. ~Stored(j)'
    BY <2>1, <2>3, <2>4, <2>5 DEF CreatesItsOwn, Stored
  <2>7. \A r \in Requests : Admitted(r, "create")' /\ request'[r].id = j => r = p
    BY <2>2, <2>3, <2>4 DEF CreatesItsOwn, Admitted
  <2> QED
    BY <2>4, <2>6, <2>7 DEF CreatesItsOwn, Stored
<1>6. ASSUME NEW q \in Requests, NEW email \in BOOLEAN, Edit(q, email) PROVE Kept
  <2>0. PICK i \in Ids : i = request[q].id
    BY <1>0, <1>6 DEF Edit, Admitted, Request
  <2>1. /\ \A j \in Ids : j # i => reminder'[j] = reminder[j]
        /\ Done(q) /\ Stored(i)
    BY <1>0, <1>6, <2>0 DEF Edit, Schedule, Editable, Pending
  <2> QED
    BY <1>2, <2>1 DEF Stored
<1>7. ASSUME NEW q \in Requests, Cancel(q) PROVE Kept
  <2>0. PICK i \in Ids : i = request[q].id
    BY <1>0, <1>7 DEF Cancel, Admitted, Request
  <2>1. /\ \A j \in Ids : j # i => reminder'[j] = reminder[j]
        /\ Done(q) /\ Stored(i)
    BY <1>0, <1>7, <2>0 DEF Cancel, Cancellable, Pending
  <2> QED
    BY <1>2, <2>1 DEF Stored
<1>8. ASSUME NEW q \in Requests, Refuse(q) PROVE Kept
  BY <1>2, <1>8 DEF Refuse, Stored
<1>9. ASSUME NEW i \in Ids, EndLease(i) PROVE Kept
  BY <1>0, <1>1, <1>9 DEF EndLease, Pending, Stored
<1>10. ASSUME NEW w \in Workers, NEW batch \in SUBSET Ids, Claim(w, batch) PROVE Kept
  <2>1. \A i \in Ids : Stored(i)' => Stored(i)
    BY <1>10, ClaimEffect, SentinelAssumption, ZenonT(40) DEF Claimable, Pending, Stored
  <2> QED
    BY <1>1, <1>10, <2>1 DEF Claim
<1>11. ASSUME NEW w \in Workers, Renew(w) \/ Deny(w) \/ Publish(w) \/ Record(w) PROVE Kept
  <2>1. PICK row : UpdateOwned(w, row) /\ UNCHANGED request
    BY <1>11 DEF Renew, Deny, Publish, Record
  <2>2. \A i \in Ids : Stored(i)' => Stored(i)
    BY <1>0, <2>1 DEF UpdateOwned, Owns, Pending, Stored
  <2> QED
    BY <1>1, <2>1, <2>2
<1>12. ASSUME NEW w \in Workers, Finish(w) \/ Crash(w) PROVE Kept
  <2>1. EndTick(w) /\ UNCHANGED request
    BY <1>12 DEF Finish, Crash, EndTick
  <2> QED
    BY <1>1, <2>1, EndTickEffect
<1>13. ASSUME UNCHANGED <<reminder, request>> PROVE Kept
  BY <1>1, <1>13 DEF Stored
<1>14. ASSUME \/ \E i \in Ids : BecomeDue(i)
              \/ ChangeWorld \/ UNCHANGED vars
              \/ \E w \in Workers :
                   \/ \E i \in Ids : Read(w, i)
                   \/ Judge(w) \/ SkipMail(w)
                   \/ \E taken, told \in BOOLEAN : Mail(w, taken, told)
       PROVE  Kept
  <2>1. UNCHANGED <<reminder, request>>
    BY <1>14 DEF BecomeDue, ChangeWorld, Read, Judge, SkipMail, Mail, vars
  <2> QED
    BY <1>13, <2>1
<1> HIDE DEF Kept
<1>15. Kept
  BY <1>3, <1>4, <1>5, <1>6, <1>7, <1>8, <1>9, <1>10, <1>11, <1>12, <1>14
     DEF Next, ClaimSome, Steps
<1> QED
  BY <1>15 DEF Kept

(* A tick keeps its lease through a step that leaves it in the row.        *)
LeaseStays(v) ==
  \A i \in Ids :
    worker[v].id = i /\ Owns(v, i) /\ reminder[i].live =>
      Owns(v, i)' /\ reminder'[i].live

LEMMA LeaseKept ==
  ASSUME TypeInv, NEW v \in Workers, KeepsItsLease(v), worker'[v] = worker[v],
         InHand(v) => LeaseStays(v)
  PROVE  KeepsItsLease(v)'
<1> SUFFICES ASSUME Works(v)' PROVE KeepsItsLease(v)'
  BY DEF KeepsItsLease
<1>1. Works(v) /\ InHand(v)
  BY DEF Works, InHand, Handling
<1>2. PICK i \in Ids : worker[v].id = i /\ worker'[v].id = i
  BY <1>1 DEF TypeInv
<1>3. Owns(v, i)' /\ reminder'[i].live
  BY <1>1, <1>2 DEF KeepsItsLease, LeaseStays
<1> QED
  BY <1>2, <1>3 DEF KeepsItsLease, Owns, Pending, Stored

LEMMA MailsStay ==
  ASSUME NEW i \in Ids, MailsAreClaimed(i), mails'[i] = mails[i],
         Stored(i)' => Stored(i) /\ reminder'[i].attempts = reminder[i].attempts,
         \A v \in Workers : Owns(v, i)' /\ ~SentFor(v, i)' => Owns(v, i) /\ ~SentFor(v, i)
  PROVE  MailsAreClaimed(i)'
<1>1. \A v \in Workers : Owns(v, i)' => Stored(i)'
  BY DEF Owns, Pending
<1> QED
  BY <1>1 DEF MailsAreClaimed

(* A row that is written without a token has nothing left to claim.        *)
LEMMA MailsOfUnleased ==
  ASSUME NEW i \in Ids, MailsAreClaimed(i), mails'[i] = mails[i],
         Stored(i)' => Stored(i) /\ reminder'[i].attempts = reminder[i].attempts,
         \A v \in Workers : ~Owns(v, i)'
  PROVE  MailsAreClaimed(i)'
BY DEF MailsAreClaimed

LEMMA StepPreservesHandlingInv ==
  LeaseCoversRow /\ HandlingInv /\ [Next]_vars => HandlingInv'
<1> SUFFICES ASSUME LeaseCoversRow, HandlingInv, [Next]_vars PROVE HandlingInv'
  OBVIOUS
<1> DEFINE Kept == (\A w \in Workers : KeepsItsLease(w)') /\ (\A i \in Ids : MailsAreClaimed(i)')
<1>0. /\ ResultInv /\ ResultInv' /\ TypeInv /\ TypeInv'
      /\ \A q \in Requests : CreatesItsOwn(q)
      /\ \A q \in Requests : CreatesItsOwn(q)'
      /\ \A w \in Workers : KeepsItsLease(w)
      /\ \A i \in Ids : MailsAreClaimed(i)
      /\ \A w \in Workers : HoldsItsRow(w)
      /\ \A w \in Workers : InHand(w) => worker[w].id \in Ids /\ worker[w].seen \in Row
  BY StepPreservesResultInv, StepKeepsCreates DEF HandlingInv, ResultInv, TypeInv
<1>a. /\ reminder \in [Ids -> Row \cup {None}] /\ mails \in [Ids -> Nat]
      /\ MaxAttempts \in Nat
      /\ \A i \in Ids : Stored(i) => reminder[i] \in Row /\ reminder[i].attempts \in Nat
  <2>1. reminder \in [Ids -> Row \cup {None}] /\ mails \in [Ids -> Nat]
    BY <1>0 DEF TypeInv, TypeOK
  <2> QED
    BY <2>1, ReminderAssumption DEF Stored, Row
<1> USE DEF rows, world, history
(* One row is written, without the token of a worker.                      *)
<1>1. ASSUME NEW i \in Ids, UNCHANGED worker,
             Stored(i) /\ reminder[i].lease \in Workers => ~reminder[i].live,
             \A v \in Workers : ~Owns(v, i)',
             \A j \in Ids : j # i => reminder'[j] = reminder[j] /\ mails'[j] = mails[j],
             MailsAreClaimed(i)'
      PROVE  Kept
  <2>1. ASSUME NEW v \in Workers PROVE LeaseStays(v)
    <3> SUFFICES ASSUME NEW j \in Ids, Owns(v, j), reminder[j].live
                 PROVE  Owns(v, j)' /\ reminder'[j].live
      BY DEF LeaseStays
    <3>1. j # i
      BY <1>1 DEF Owns, Pending
    <3> QED
      BY <1>1, <3>1 DEF Owns, Pending, Stored
  <2>2. ASSUME NEW j \in Ids, j # i PROVE MailsAreClaimed(j)'
    BY <1>0, <1>1, <2>2, MailsStay DEF Stored, Owns, Pending, SentFor, At
  <2> QED
    BY <1>0, <1>1, <2>1, <2>2, LeaseKept
<1>2. ASSUME NEW i \in Ids, NEW row \in Row, Schedule(i, row), row.lease = None,
             row.attempts = 0, UNCHANGED worker,
             Stored(i) => Unleased(i)
      PROVE  Kept
  <2>1. /\ reminder'[i] = row /\ mails'[i] = 0
        /\ \A j \in Ids : j # i => reminder'[j] = reminder[j] /\ mails'[j] = mails[j]
    BY <1>0, <1>2, ScheduleEffect
  <2>2. \A v \in Workers : ~Owns(v, i)'
    BY <1>2, <2>1, SentinelAssumption DEF Owns
  <2>3. MailsAreClaimed(i)'
    BY <1>a, <1>2, <2>1, <2>2 DEF MailsAreClaimed
  <2> QED
    BY <1>1, <1>2, <2>1, <2>2, <2>3, SentinelAssumption DEF Unleased
<1>3. ASSUME NEW q \in Requests, NEW email \in BOOLEAN, Create(q, email) PROVE Kept
  <2>0. PICK i \in Ids : i = request[q].id
    BY <1>0, <1>3, RequestsAreTyped DEF Create, Admitted
  <2>1. Schedule(i, Scheduled(email)) /\ UNCHANGED worker /\ ~Stored(i)
    BY <1>0, <1>3, <2>0 DEF Create, CreatesItsOwn
  <2>2. /\ Scheduled(email) \in Row /\ Scheduled(email).lease = None
        /\ Scheduled(email).attempts = 0
    BY ScheduledIsARow DEF Scheduled
  <2> QED
    BY <1>2, <2>1, <2>2
<1>4. ASSUME NEW q \in Requests, NEW email \in BOOLEAN, Edit(q, email) PROVE Kept
  <2>0. PICK i \in Ids : i = request[q].id
    BY <1>0, <1>4, RequestsAreTyped DEF Edit, Admitted
  <2> DEFINE row == [reminder[i] EXCEPT !.email = email, !.attempts = 0, !.lease = None,
                                        !.live = FALSE]
  <2>1. Schedule(i, row) /\ UNCHANGED worker /\ Pending(i) /\ Unleased(i)
    BY <1>4, <2>0 DEF Edit, Editable
  <2>2. reminder[i] \in Row /\ row \in Row
    BY <1>0, <2>1, EditedIsARow
  <2>3. row.lease = None /\ row.attempts = 0
    BY <2>2 DEF Row
  <2> HIDE DEF row
  <2> QED
    BY <1>2, <2>1, <2>2, <2>3
<1>5. ASSUME NEW q \in Requests, Cancel(q) PROVE Kept
  <2>0. PICK i \in Ids : i = request[q].id
    BY <1>0, <1>5, RequestsAreTyped DEF Cancel, Admitted
  <2>1. /\ Pending(i) /\ Unleased(i) /\ UNCHANGED <<worker, mails>>
        /\ reminder' = [reminder EXCEPT ![i] = WithStatus(i, "CANCELLED")]
    BY <1>5, <2>0 DEF Cancel, Cancellable
  <2>2. /\ reminder'[i] = WithStatus(i, "CANCELLED")
        /\ \A j \in Ids : j # i => reminder'[j] = reminder[j]
    BY <1>a, <2>1
  <2>3. reminder'[i].lease = None /\ reminder'[i].attempts = reminder[i].attempts
    BY <1>0, <2>1, <2>2, WithStatusFields DEF Status
  <2>4. \A v \in Workers : ~Owns(v, i)'
    BY <2>3, SentinelAssumption DEF Owns
  <2>5. MailsAreClaimed(i)'
    BY <1>0, <2>1, <2>3, <2>4, MailsOfUnleased DEF Pending
  <2> QED
    BY <1>1, <2>1, <2>2, <2>4, <2>5, SentinelAssumption DEF Unleased
<1>6. ASSUME NEW i \in Ids, EndLease(i) PROVE Kept
  <2>1. /\ Pending(i) /\ UNCHANGED <<worker, mails>> /\ reminder[i] \in Row
        /\ reminder' = [reminder EXCEPT ![i].live = FALSE]
    BY <1>a, <1>6 DEF EndLease, Pending
  <2>2. /\ reminder'[i].status = reminder[i].status /\ reminder'[i].lease = reminder[i].lease
        /\ reminder'[i].attempts = reminder[i].attempts
        /\ \A j \in Ids : j # i => reminder'[j] = reminder[j]
    BY <1>a, <2>1 DEF Row
  <2>3. ASSUME NEW v \in Workers, Works(v) PROVE LeaseStays(v)
    <3> SUFFICES ASSUME NEW j \in Ids, worker[v].id = j, Owns(v, j), reminder[j].live
                 PROVE  Owns(v, j)' /\ reminder'[j].live
      BY DEF LeaseStays
    <3>1. j # i
      BY <1>6, <2>3, SentinelAssumption DEF EndLease, Owns
    <3> QED
      BY <2>2, <3>1 DEF Owns, Pending, Stored
  <2>4. ASSUME NEW v \in Workers PROVE KeepsItsLease(v)'
    <3>1. CASE Works(v)
      BY <1>0, <2>1, <2>3, <3>1, LeaseKept
    <3>2. CASE ~Works(v)
      BY <2>1, <3>2 DEF KeepsItsLease, Works
    <3> QED
      BY <3>1, <3>2
  <2>5. ASSUME NEW j \in Ids PROVE MailsAreClaimed(j)'
    <3>1. CASE j = i
      BY <1>0, <2>1, <2>2, <3>1, MailsStay DEF Stored, Owns, Pending, SentFor, At
    <3>2. CASE j # i
      BY <1>0, <2>1, <2>2, <3>2, MailsStay DEF Stored, Owns, Pending, SentFor, At
    <3> QED
      BY <3>1, <3>2
  <2> QED
    BY <2>4, <2>5
<1>7. ASSUME NEW w \in Workers, NEW batch \in SUBSET Ids, Claim(w, batch) PROVE Kept
  <2>1. /\ UNCHANGED mails /\ worker[w] = None /\ worker'[w] # None
        /\ worker'[w].stage = "next"
        /\ \A v \in Workers : v # w => worker'[v] = worker[v]
        /\ \A i \in Ids \ batch : reminder'[i] = reminder[i]
        /\ \A i \in batch :
              /\ Pending(i) /\ Unleased(i)
              /\ reminder'[i].lease = w
              /\ reminder'[i].attempts = OneMore(reminder[i].attempts)
    BY <1>0, <1>7, ClaimEffect, ZenonT(40) DEF Claim, Claimable
  <2>2. ASSUME NEW v \in Workers, v # w PROVE KeepsItsLease(v)'
    <3>1. LeaseStays(v)
      <4> SUFFICES ASSUME NEW j \in Ids, Owns(v, j), reminder[j].live
                   PROVE  Owns(v, j)' /\ reminder'[j].live
        BY DEF LeaseStays
      <4>1. j \notin batch
        BY <2>1, SentinelAssumption DEF Unleased, Owns
      <4> QED
        BY <2>1, <4>1 DEF Owns, Pending, Stored
    <3> QED
      BY <1>0, <2>1, <2>2, <3>1, LeaseKept
  <2>3. KeepsItsLease(w)'
    BY <2>1 DEF KeepsItsLease, Works, Handling
  <2>4. ASSUME NEW i \in Ids PROVE MailsAreClaimed(i)'
    <3>1. CASE i \in batch
      <4>1. /\ mails[i] <= reminder[i].attempts /\ reminder[i].attempts \in Nat
            /\ mails[i] <= MaxAttempts /\ mails[i] \in Nat
        BY <1>0, <1>a, <2>1, <3>1 DEF MailsAreClaimed, Pending
      <4>2. /\ mails'[i] <= reminder'[i].attempts
            /\ reminder'[i].attempts <= MaxAttempts => mails'[i] < reminder'[i].attempts
        BY <1>a, <2>1, <3>1, <4>1 DEF OneMore
      <4> QED
        BY <2>1, <4>1, <4>2 DEF MailsAreClaimed
    <3>2. CASE i \notin batch
      <4>1. \A v \in Workers : SentFor(v, i) => SentFor(v, i)'
        BY <2>1 DEF SentFor, At
      <4> QED
        BY <1>0, <2>1, <3>2, <4>1, MailsStay DEF Stored, Owns, Pending
    <3> QED
      BY <3>1, <3>2
  <2> QED
    BY <2>2, <2>3, <2>4
<1>8. ASSUME NEW w \in Workers, NEW i \in Ids, Read(w, i) PROVE Kept
  <2>1. /\ UNCHANGED <<reminder, mails>>
        /\ \A v \in Workers : v # w => worker'[v] = worker[v]
        /\ worker[w].stage = "next" /\ ~Works(w)'
    BY <1>0, <1>8, ReadEffect DEF Read, Works, Handling
  <2>2. \A v \in Workers : LeaseStays(v)
    BY <2>1 DEF LeaseStays, Owns, Pending, Stored
  <2>3. \A v \in Workers, j \in Ids : SentFor(v, j) => SentFor(v, j)'
    BY <2>1 DEF SentFor, At
  <2>4. ASSUME NEW j \in Ids PROVE MailsAreClaimed(j)'
    BY <1>0, <2>1, <2>3, MailsStay DEF Stored, Owns, Pending
  <2> QED
    BY <1>0, <2>1, <2>2, <2>4, LeaseKept DEF KeepsItsLease
(* The guarded update of a tick.                                           *)
<1>9. ASSUME NEW w \in Workers, InHand(w), NEW i \in Ids, i = worker[w].id,
             NEW row, UpdateOwned(w, row), UNCHANGED mails,
             \A v \in Workers : v # w => worker'[v] = worker[v],
             Owns(w, i) => /\ row \in Row /\ row.attempts = reminder[i].attempts
                           /\ \/ row.lease = None
                              \/ row.lease = w /\ ~SentFor(w, i)
      PROVE  /\ \A v \in Workers : v # w => KeepsItsLease(v)'
             /\ \A j \in Ids : MailsAreClaimed(j)'
  <2>1. /\ \A j \in Ids : j # i => reminder'[j] = reminder[j]
        /\ Owns(w, i) => reminder'[i] = row
        /\ ~Owns(w, i) => reminder' = reminder
    BY <1>0, <1>9, UpdateOwnedEffect
  <2>2. ASSUME NEW v \in Workers, v # w PROVE KeepsItsLease(v)'
    <3>1. LeaseStays(v)
      <4> SUFFICES ASSUME NEW j \in Ids, Owns(v, j), reminder[j].live
                   PROVE  Owns(v, j)' /\ reminder'[j].live
        BY DEF LeaseStays
      <4>1. reminder'[j] = reminder[j]
        BY <2>1, <2>2 DEF Owns
      <4> QED
        BY <4>1 DEF Owns, Pending, Stored
    <3> QED
      BY <1>0, <1>9, <2>2, <3>1, LeaseKept
  <2>3. ASSUME NEW j \in Ids, reminder'[j] = reminder[j], ~Owns(w, j) \/ ~SentFor(w, j)
        PROVE  MailsAreClaimed(j)'
    <3>1. \A v \in Workers : v # w => (SentFor(v, j)' <=> SentFor(v, j))
      BY <1>9 DEF SentFor, At
    <3>2. \A v \in Workers : Owns(v, j)' <=> Owns(v, j)
      BY <2>3 DEF Owns, Pending, Stored
    <3> QED
      BY <1>0, <1>9, <2>3, <3>1, <3>2, MailsStay DEF Stored
  <2>4. ASSUME NEW j \in Ids, j # i PROVE MailsAreClaimed(j)'
    BY <1>9, <2>1, <2>3, <2>4 DEF SentFor
  <2>5. MailsAreClaimed(i)'
    <3>1. CASE ~Owns(w, i)
      BY <2>1, <2>3, <3>1
    <3>2. CASE Owns(w, i)
      <4>1. /\ reminder'[i] = row /\ row.attempts = reminder[i].attempts
            /\ Stored(i) /\ \A v \in Workers : Owns(v, i)' => v = w
        BY <1>9, <2>1, <3>2, SentinelAssumption DEF Owns, Pending
      <4>2. CASE row.lease = None
        <5>1. \A v \in Workers : ~Owns(v, i)'
          BY <4>1, <4>2, SentinelAssumption DEF Owns
        <5> QED
          BY <1>0, <1>9, <4>1, <5>1, MailsOfUnleased
      <4>3. CASE ~SentFor(w, i)
        BY <1>0, <1>9, <3>2, <4>1, <4>3, MailsStay
      <4> QED
        BY <1>9, <3>2, <4>2, <4>3
    <3> QED
      BY <3>1, <3>2
  <2> QED
    BY <2>2, <2>4, <2>5
<1>10. ASSUME NEW w \in Workers, Renew(w) PROVE Kept
  <2>0. PICK i \in Ids : i = worker[w].id
    BY <1>0, <1>10 DEF Renew, At, InHand
  <2> DEFINE row == [reminder[i] EXCEPT !.live = TRUE]
  <2>1. InHand(w) /\ UpdateOwned(w, row) /\ UNCHANGED mails /\ worker[w].stage = "read"
    BY <1>10, <2>0 DEF Renew, At, InHand
  <2>2. ASSUME Owns(w, i)
        PROVE  /\ row \in Row /\ row.attempts = reminder[i].attempts /\ row.lease = w
               /\ row.status = reminder[i].status /\ row.live
    <3>1. reminder[i] \in Row /\ reminder[i].lease = w
      BY <1>a, <2>2 DEF Owns, Pending
    <3>2. row \in Row
      BY <3>1, Zenon DEF Row
    <3>3. row.live
      BY <3>1, Zenon DEF Row
    <3> QED
      BY <3>1, <3>2, <3>3 DEF Row
  <2> HIDE DEF row
  <2>3. ~SentFor(w, i)
    BY <2>1 DEF SentFor, At
  <2>4. CASE Owns(w, i)
    <3>1. GoOn(w, "owned")
      BY <1>10, <2>0, <2>4 DEF Renew, StillOwned
    <3>2. worker'[w].id = i /\ \A v \in Workers : v # w => worker'[v] = worker[v]
      BY <1>0, <2>0, <2>1, <3>1, GoOnEffect DEF Handling
    <3>3. reminder'[i] = row
      BY <1>0, <2>0, <2>1, <2>2, <2>4, UpdateOwnedEffect
    <3>4. Owns(w, i)' /\ reminder'[i].live
      BY <2>2, <2>4, <3>3, SentinelAssumption DEF Owns, Pending, Stored
    <3>5. KeepsItsLease(w)'
      BY <3>2, <3>4 DEF KeepsItsLease, Owns, Pending, Stored
    <3> QED
      BY <1>9, <2>0, <2>1, <2>2, <2>3, <3>2, <3>5
  <2>5. CASE ~Owns(w, i)
    <3>1. NextRow(w)
      BY <1>10, <2>0, <2>5 DEF Renew, StillOwned
    <3>2. worker'[w].stage = "next" /\ \A v \in Workers : v # w => worker'[v] = worker[v]
      BY <1>0, <2>1, <3>1, NextRowEffect
    <3>3. KeepsItsLease(w)'
      BY <3>2 DEF KeepsItsLease, Works, Handling
    <3> QED
      BY <1>9, <2>0, <2>1, <2>5, <3>2, <3>3
  <2> QED
    BY <2>4, <2>5
<1>11. ASSUME NEW w \in Workers, Judge(w) PROVE Kept
  <2>0. PICK i \in Ids : i = worker[w].id
    BY <1>0, <1>11 DEF Judge, At, InHand
  <2>1. InHand(w) /\ Works(w) /\ UNCHANGED <<reminder, mails>> /\ worker[w].stage = "owned"
    BY <1>11 DEF Judge, At, InHand, Works, Handling
  <2>2. PICK stage \in {"granted", "denied"} : GoOn(w, stage)
    BY <1>11 DEF Judge
  <2>3. /\ worker'[w].id = i
        /\ \A v \in Workers : v # w => worker'[v] = worker[v]
    BY <1>0, <2>0, <2>1, <2>2, GoOnEffect DEF Handling
  <2>4. KeepsItsLease(w)'
    BY <1>0, <2>0, <2>1, <2>3 DEF KeepsItsLease, Owns, Pending, Stored
  <2>5. ASSUME NEW v \in Workers, v # w PROVE KeepsItsLease(v)'
    BY <1>0, <2>1, <2>3, <2>5, LeaseKept DEF LeaseStays, Owns, Pending, Stored
  <2>6. \A v \in Workers, j \in Ids : SentFor(v, j) => SentFor(v, j)'
    BY <2>1, <2>3 DEF SentFor, At
  <2>7. ASSUME NEW j \in Ids PROVE MailsAreClaimed(j)'
    BY <1>0, <2>1, <2>6, MailsStay DEF Stored, Owns, Pending
  <2> QED
    BY <2>4, <2>5, <2>7
<1>12. ASSUME NEW w \in Workers, Deny(w) PROVE Kept
  <2>0. PICK i \in Ids : i = worker[w].id
    BY <1>0, <1>12 DEF Deny, At, InHand
  <2> DEFINE row == WithStatus(i, "CANCELLED")
  <2>1. InHand(w) /\ UpdateOwned(w, row) /\ UNCHANGED mails /\ NextRow(w)
    BY <1>12, <2>0 DEF Deny, At, InHand
  <2>2. Owns(w, i) => row \in Row /\ row.attempts = reminder[i].attempts /\ row.lease = None
    BY <1>0, WithStatusFields, WithStatusIsARow DEF Owns, Status
  <2> HIDE DEF row
  <2>3. worker'[w].stage = "next" /\ \A v \in Workers : v # w => worker'[v] = worker[v]
    BY <1>0, <2>1, NextRowEffect
  <2>4. KeepsItsLease(w)'
    BY <2>3 DEF KeepsItsLease, Works, Handling
  <2> QED
    BY <1>9, <2>0, <2>1, <2>2, <2>3, <2>4
<1>13. ASSUME NEW w \in Workers, Publish(w) PROVE Kept
  <2>0. PICK i \in Ids : i = worker[w].id
    BY <1>0, <1>13 DEF Publish, At, InHand
  <2>1. /\ InHand(w) /\ Works(w) /\ UNCHANGED mails /\ GoOn(w, "published")
        /\ worker[w].stage = "granted"
    BY <1>13 DEF Publish, At, InHand, Works, Handling
  <2>2. PICK row : UpdateOwned(w, row) /\ row \in {reminder[i], PublishedRow(reminder[i])}
    BY <1>13, <2>0 DEF Publish
  <2>3. /\ Owns(w, i) /\ reminder[i].live
        /\ reminder[i] \in Row /\ reminder[i].lease = w /\ reminder[i].status = "PENDING"
    BY <1>0, <1>a, <2>0, <2>1 DEF KeepsItsLease, Owns, Pending
  <2>4. /\ row \in Row /\ row.attempts = reminder[i].attempts /\ row.lease = w
        /\ row.status = "PENDING" /\ row.live
    <3>1. CASE row = reminder[i]
      BY <2>3, <3>1
    <3>2. CASE row = PublishedRow(reminder[i])
      BY <2>3, <3>2 DEF PublishedRow, Row
    <3> QED
      BY <2>2, <3>1, <3>2
  <2>5. reminder'[i] = row
    BY <1>0, <2>0, <2>1, <2>2, <2>3, <2>4, UpdateOwnedEffect
  <2>6. worker'[w].id = i /\ \A v \in Workers : v # w => worker'[v] = worker[v]
    BY <1>0, <2>0, <2>1, GoOnEffect DEF Handling
  <2>7. KeepsItsLease(w)'
    BY <2>4, <2>5, <2>6, SentinelAssumption DEF KeepsItsLease, Owns, Pending, Stored
  <2>8. ~SentFor(w, i)
    BY <2>1 DEF SentFor, At
  <2> QED
    BY <1>9, <2>0, <2>1, <2>2, <2>4, <2>6, <2>7, <2>8
<1>14. ASSUME NEW w \in Workers, SkipMail(w) PROVE Kept
  <2> DEFINE told == worker[w].seen.emailAccepted
  <2>0. PICK i \in Ids : i = worker[w].id
    BY <1>0, <1>14 DEF SkipMail, At, InHand
  <2>1. /\ InHand(w) /\ Works(w) /\ UNCHANGED <<reminder, mails>>
        /\ worker[w].stage = "published"
        /\ worker' = [worker EXCEPT ![w].stage = "sent", ![w].sent = told]
    BY <1>14 DEF SkipMail, At, InHand, Works, Handling
  <2>2. told \in BOOLEAN
    BY <1>0, <2>1 DEF Row
  <2>3. /\ worker'[w].id = i
        /\ \A v \in Workers : v # w => worker'[v] = worker[v]
    BY <1>0, <2>0, <2>1, <2>2, SentEffect
  <2>4. KeepsItsLease(w)'
    BY <1>0, <2>0, <2>1, <2>3 DEF KeepsItsLease, Owns, Pending, Stored
  <2>5. ASSUME NEW v \in Workers, v # w PROVE KeepsItsLease(v)'
    BY <1>0, <2>1, <2>3, <2>5, LeaseKept DEF LeaseStays, Owns, Pending, Stored
  <2>6. \A v \in Workers, j \in Ids : SentFor(v, j) => SentFor(v, j)'
    BY <2>1, <2>3 DEF SentFor, At
  <2>7. ASSUME NEW j \in Ids PROVE MailsAreClaimed(j)'
    BY <1>0, <2>1, <2>6, MailsStay DEF Stored, Owns, Pending
  <2> QED
    BY <2>4, <2>5, <2>7
<1>15. ASSUME NEW w \in Workers, NEW taken \in BOOLEAN, NEW told \in BOOLEAN,
              Mail(w, taken, told)
       PROVE  Kept
  <2>0. PICK i \in Ids : i = worker[w].id
    BY <1>0, <1>15 DEF Mail, At, InHand
  <2>1. /\ InHand(w) /\ Works(w) /\ UNCHANGED reminder /\ worker[w].stage = "published"
        /\ worker' = [worker EXCEPT ![w].stage = "sent", ![w].sent = told]
        /\ mails' = [mails EXCEPT ![i] = mails[i] + 1]
        /\ worker[w].seen.attempts <= MaxAttempts
    BY <1>15, <2>0 DEF Mail, WantsMail, At, InHand, Works, Handling
  <2>2. /\ worker'[w].id = i /\ worker'[w].stage = "sent" /\ worker'[w] # None
        /\ \A v \in Workers : v # w => worker'[v] = worker[v]
    BY <1>0, <2>0, <2>1, SentEffect
  <2>3. KeepsItsLease(w)'
    BY <1>0, <2>0, <2>1, <2>2 DEF KeepsItsLease, Owns, Pending, Stored
  <2>4. ASSUME NEW v \in Workers, v # w PROVE KeepsItsLease(v)'
    BY <1>0, <2>1, <2>2, <2>4, LeaseKept DEF LeaseStays, Owns, Pending, Stored
  <2>5. ASSUME NEW j \in Ids, j # i PROVE MailsAreClaimed(j)'
    <3>1. mails'[j] = mails[j]
      BY <1>a, <2>1, <2>5
    <3>2. \A v \in Workers : SentFor(v, j) => SentFor(v, j)'
      BY <2>0, <2>1, <2>2, <2>5 DEF SentFor, At
    <3> QED
      BY <1>0, <2>1, <3>1, <3>2, MailsStay DEF Stored, Owns, Pending
  <2>6. MailsAreClaimed(i)'
    <3>1. Owns(w, i) /\ reminder[i].attempts <= MaxAttempts /\ ~SentFor(w, i)
      BY <1>0, <2>0, <2>1 DEF KeepsItsLease, HoldsItsRow, SentFor, At
    <3>2. mails[i] < reminder[i].attempts /\ Stored(i)
      BY <1>0, <3>1 DEF MailsAreClaimed, Owns, Pending
    <3>3. mails'[i] <= reminder[i].attempts /\ mails'[i] <= MaxAttempts
      BY <1>a, <2>1, <3>1, <3>2
    <3>4. \A v \in Workers : Owns(v, i)' => SentFor(v, i)'
      BY <2>1, <2>2, <3>1 DEF Owns, SentFor, At
    <3> QED
      BY <2>1, <3>3, <3>4 DEF MailsAreClaimed
  <2> QED
    BY <2>3, <2>4, <2>5, <2>6
<1>16. ASSUME NEW w \in Workers, Record(w) PROVE Kept
  <2>0. PICK i \in Ids : i = worker[w].id
    BY <1>0, <1>16 DEF Record, At, InHand
  <2> DEFINE outcome == Outcome(worker[w].seen, worker[w].sent)
             row == [WithStatus(i, outcome) EXCEPT !.emailAccepted = worker[w].sent]
  <2>1. InHand(w) /\ UpdateOwned(w, row) /\ UNCHANGED mails /\ NextRow(w)
    BY <1>16, <2>0 DEF Record, At, InHand
  <2>2. ASSUME Owns(w, i)
        PROVE  row \in Row /\ row.attempts = reminder[i].attempts /\ row.lease = None
    <3>1. outcome \in Status
      BY OutcomeIsAStatus DEF Status
    <3>2. worker[w].sent \in BOOLEAN
      BY <1>0, <2>1 DEF InHand, TypeInv, TypeOK, Tick
    <3>3. WithStatus(i, outcome) \in Row /\ row \in Row
      BY <1>0, <2>2, <3>1, <3>2, WithStatusIsARow DEF Owns
    <3>4. /\ WithStatus(i, outcome).attempts = reminder[i].attempts
          /\ WithStatus(i, outcome).lease = None
      BY <1>0, <2>2, <3>1, WithStatusFields DEF Owns
    <3> HIDE DEF outcome
    <3> QED
      BY <3>3, <3>4 DEF Row
  <2> HIDE DEF row
  <2>3. worker'[w].stage = "next" /\ \A v \in Workers : v # w => worker'[v] = worker[v]
    BY <1>0, <2>1, NextRowEffect
  <2>4. KeepsItsLease(w)'
    BY <2>3 DEF KeepsItsLease, Works, Handling
  <2> QED
    BY <1>9, <2>0, <2>1, <2>2, <2>3, <2>4
<1>17. ASSUME NEW w \in Workers, EndTick(w), UNCHANGED mails PROVE Kept
  <2>1. /\ worker'[w] = None /\ \A v \in Workers : v # w => worker'[v] = worker[v]
        /\ \A i \in Ids : Stored(i)' <=> Stored(i)
        /\ \A i \in Ids : ~Stored(i) \/ reminder[i].lease # w => reminder'[i] = reminder[i]
        /\ \A i \in Ids : Stored(i) /\ reminder[i].lease = w =>
             /\ reminder'[i].lease = Lost
             /\ reminder'[i].attempts = reminder[i].attempts
    BY <1>0, <1>17, EndTickEffect DEF Row
  <2>2. ASSUME NEW v \in Workers, v # w PROVE KeepsItsLease(v)'
    <3>1. LeaseStays(v)
      BY <2>1, <2>2 DEF LeaseStays, Owns, Pending, Stored
    <3> QED
      BY <1>0, <2>1, <2>2, <3>1, LeaseKept
  <2>3. KeepsItsLease(w)'
    BY <2>1 DEF KeepsItsLease, Works
  <2>4. ASSUME NEW j \in Ids PROVE MailsAreClaimed(j)'
    <3>1. CASE Stored(j) /\ reminder[j].lease = w
      <4>1. \A v \in Workers : ~Owns(v, j)'
        BY <2>1, <3>1, SentinelAssumption DEF Owns
      <4> QED
        BY <1>0, <1>17, <2>1, <3>1, <4>1, MailsOfUnleased
    <3>2. CASE ~(Stored(j) /\ reminder[j].lease = w)
      <4>1. reminder'[j] = reminder[j]
        BY <2>1, <3>2
      <4>2. \A v \in Workers : Owns(v, j)' =>
              Owns(v, j) /\ (SentFor(v, j)' <=> SentFor(v, j))
        BY <2>1, <3>2, <4>1 DEF Owns, Pending, Stored, SentFor, At
      <4> QED
        BY <1>0, <1>17, <4>1, <4>2, MailsStay DEF Stored
    <3> QED
      BY <3>1, <3>2
  <2> QED
    BY <2>2, <2>3, <2>4
<1>18. \A w \in Workers : Finish(w) \/ Crash(w) => EndTick(w) /\ UNCHANGED mails
  BY DEF Finish, Crash, EndTick
<1>19. ASSUME \/ \E q \in Requests :
                   \/ \E op \in Operations, i \in Ids : Admit(q, op, i)
                   \/ Count(q) \/ Refuse(q)
              \/ \E i \in Ids : BecomeDue(i)
              \/ ChangeWorld \/ UNCHANGED vars
       PROVE  Kept
  <2>1. UNCHANGED <<reminder, mails, worker>>
    BY <1>19 DEF Admit, Count, Refuse, BecomeDue, ChangeWorld, vars
  <2>2. ASSUME NEW v \in Workers PROVE KeepsItsLease(v)'
    BY <1>0, <2>1 DEF KeepsItsLease, Works, Owns, Pending, Stored
  <2>3. ASSUME NEW j \in Ids PROVE MailsAreClaimed(j)'
    BY <1>0, <2>1 DEF MailsAreClaimed, SentFor, At, Owns, Pending, Stored
  <2> QED
    BY <2>2, <2>3
<1> HIDE DEF Kept
<1>20. Kept
  BY <1>3, <1>4, <1>5, <1>6, <1>7, <1>8, <1>10, <1>11, <1>12, <1>13, <1>14, <1>15, <1>16,
     <1>17, <1>18, <1>19 DEF Next, ClaimSome, Steps
<1> QED
  BY <1>0, <1>20 DEF HandlingInv, Kept

(* While a lease outlives the work on one row, a worker handles the row    *)
(* that it read and nobody else does, and a schedule is mailed at most     *)
(* MaxAttempts times, however the attempts crash (processTicketReminders). *)
THEOREM LeaseGuardsTheRow == LeaseCoversRow => (Spec => []HandledIsOwned)
<1>1. HandlingInv => HandledIsOwned
  <2> SUFFICES ASSUME HandlingInv PROVE HandledIsOwned
    OBVIOUS
  <2>1. ASSUME NEW w \in Workers, Works(w)
        PROVE  LET i == worker[w].id
               IN  /\ Owns(w, i) /\ reminder[i].live
                   /\ reminder[i].email = worker[w].seen.email
                   /\ reminder[i].attempts = worker[w].seen.attempts
    BY <2>1 DEF HandlingInv, ResultInv, KeepsItsLease, HoldsItsRow, InHand, Works, Handling
  <2>2. \A i \in Ids : mails[i] <= MaxAttempts
    BY DEF HandlingInv, MailsAreClaimed
  <2> QED
    BY <2>1, <2>2 DEF HandledIsOwned
<1>2. ASSUME LeaseCoversRow PROVE Spec => []HandledIsOwned
  BY <1>1, <1>2, InitEstablishesHandlingInv, StepPreservesHandlingInv, PTL DEF Spec
<1> QED
  BY <1>2

-----------------------------------------------------------------------------
(* The limit of pending reminders.                                         *)

PendingIds == {i \in Ids : Pending(i)}
Locked(q) == request[q] # None /\ request[q].locked

(* The advisory lock is held by one request, and what it counted stands.   *)
LimitInv ==
  /\ TypeInv
  /\ IsFiniteSet(PendingIds) /\ Cardinality(PendingIds) <= PendingLimit
  /\ \A p, q \in Requests : Locked(p) /\ Locked(q) => p = q
  /\ \A q \in Requests : Locked(q) => Cardinality(PendingIds) < PendingLimit

LEMMA InitEstablishesLimitInv == Init => LimitInv
<1> SUFFICES ASSUME Init PROVE LimitInv
  OBVIOUS
<1>1. PendingIds = {}
  BY DEF Init, PendingIds, Pending, Stored
<1>2. IsFiniteSet(PendingIds) /\ Cardinality(PendingIds) = 0
  BY <1>1, FS_EmptySet, Zenon
<1>3. \A q \in Requests : ~Locked(q)
  BY DEF Init, Locked
<1> QED
  BY <1>2, <1>3, InitEstablishesTypeInv, ReminderAssumption DEF LimitInv

LEMMA LimitKept ==
  ASSUME LimitInv, TypeInv',
         \A i \in Ids : Pending(i)' => Pending(i),
         \A q \in Requests : Locked(q)' => Locked(q)
  PROVE  LimitInv'
<1>1. PendingIds' \subseteq PendingIds /\ IsFiniteSet(PendingIds)
  BY DEF PendingIds, LimitInv
<1>2. /\ IsFiniteSet(PendingIds')
      /\ Cardinality(PendingIds') <= Cardinality(PendingIds)
      /\ Cardinality(PendingIds) \in Nat /\ Cardinality(PendingIds') \in Nat
  BY <1>1, FS_Subset, FS_CardinalityType
<1> QED
  BY <1>2, ReminderAssumption DEF LimitInv

LEMMA StepPreservesLimitInv == LimitInv /\ [Next]_vars => LimitInv'
<1> SUFFICES ASSUME LimitInv, [Next]_vars PROVE LimitInv'
  OBVIOUS
<1>0. TypeInv /\ TypeInv'
  BY StepPreservesTypeInv DEF LimitInv
<1>a. request \in [Requests -> Request \cup {None}] /\ reminder \in [Ids -> Row \cup {None}]
      /\ PendingLimit \in Nat
  BY <1>0, ReminderAssumption DEF TypeInv, TypeOK
<1> USE DEF rows, world, history
<1>1. ASSUME UNCHANGED request, \A i \in Ids : Pending(i)' => Pending(i) PROVE LimitInv'
  BY <1>0, <1>1, LimitKept DEF Locked
<1>2. ASSUME NEW q \in Requests, Done(q), \A i \in Ids : Pending(i)' => Pending(i)
      PROVE  LimitInv'
  <2>1. \A p \in Requests : Locked(p)' => Locked(p)
    BY <1>a, <1>2 DEF Locked, Done
  <2> QED
    BY <1>0, <1>2, <2>1, LimitKept
<1>3. ASSUME NEW q \in Requests, NEW op \in Operations, NEW i \in Ids, Admit(q, op, i)
      PROVE  LimitInv'
  <2>1. \A p \in Requests : Locked(p)' => Locked(p)
    BY <1>a, <1>3 DEF Admit, Locked
  <2>2. UNCHANGED reminder
    BY <1>3 DEF Admit
  <2> QED
    BY <1>0, <2>1, <2>2, LimitKept DEF Pending, Stored
(* The count is made under the lock ...                                    *)
<1>4. ASSUME NEW q \in Requests, Count(q) PROVE LimitInv'
  <2>1. UNCHANGED reminder /\ \A p \in Requests : ~Locked(p)
    BY <1>4 DEF Count, LockFree, Locked
  <2>2. CASE Done(q)
    BY <1>2, <2>1, <2>2 DEF Pending, Stored
  <2>3. CASE /\ HasRoom(Cardinality({i \in Ids : Pending(i)}))
             /\ request' = [request EXCEPT ![q].locked = TRUE]
    <3>1. \A p \in Requests : Locked(p)' => p = q
      BY <1>a, <2>1, <2>3 DEF Locked
    <3>2. PendingIds' = PendingIds
      BY <2>1 DEF PendingIds, Pending, Stored
    <3>3. Cardinality(PendingIds) < PendingLimit
      BY <2>3 DEF HasRoom, PendingIds
    <3> QED
      BY <1>0, <3>1, <3>2, <3>3 DEF LimitInv
  <2> QED
    BY <1>4, <2>2, <2>3 DEF Count
(* ... and the lock is held until the row is there.                        *)
<1>5. ASSUME NEW q \in Requests, NEW email \in BOOLEAN, Create(q, email) PROVE LimitInv'
  <2>0. PICK i \in Ids : i = request[q].id
    BY <1>0, <1>5, RequestsAreTyped DEF Create, Admitted
  <2>1. /\ Schedule(i, Scheduled(email)) /\ Done(q) /\ Locked(q)
        /\ \A j \in Ids : j # i => reminder'[j] = reminder[j]
    BY <1>a, <1>5, <2>0 DEF Create, Admitted, Locked, Schedule
  <2>2. \A p \in Requests : ~Locked(p)'
    BY <1>a, <2>1 DEF LimitInv, Locked, Done
  <2>3. PendingIds' \subseteq PendingIds \cup {i}
    BY <2>1 DEF PendingIds, Pending, Stored
  <2>4. /\ IsFiniteSet(PendingIds \cup {i})
        /\ Cardinality(PendingIds \cup {i}) <= PendingLimit
    <3>1. /\ IsFiniteSet(PendingIds) /\ Cardinality(PendingIds) \in Nat
          /\ Cardinality(PendingIds) < PendingLimit
      BY <2>1, FS_CardinalityType DEF LimitInv
    <3>2. /\ IsFiniteSet(PendingIds \cup {i})
          /\ Cardinality(PendingIds \cup {i}) =
               IF i \in PendingIds THEN Cardinality(PendingIds) ELSE Cardinality(PendingIds) + 1
      BY <3>1, FS_AddElement
    <3> QED
      BY <1>a, <3>1, <3>2
  <2>5. /\ IsFiniteSet(PendingIds')
        /\ Cardinality(PendingIds') <= Cardinality(PendingIds \cup {i})
        /\ Cardinality(PendingIds') \in Nat /\ Cardinality(PendingIds \cup {i}) \in Nat
    BY <2>3, <2>4, FS_Subset, FS_CardinalityType
  <2> QED
    BY <1>0, <1>a, <2>2, <2>4, <2>5 DEF LimitInv
<1>6. ASSUME NEW q \in Requests, NEW email \in BOOLEAN, Edit(q, email) PROVE LimitInv'
  <2>0. PICK i \in Ids : i = request[q].id
    BY <1>0, <1>6, RequestsAreTyped DEF Edit, Admitted
  <2>1. Done(q) /\ Pending(i) /\ \A j \in Ids : j # i => reminder'[j] = reminder[j]
    BY <1>a, <1>6, <2>0 DEF Edit, Editable, Schedule
  <2> QED
    BY <1>2, <2>1 DEF Pending, Stored
<1>7. ASSUME NEW q \in Requests, Cancel(q) PROVE LimitInv'
  <2>0. PICK i \in Ids : i = request[q].id
    BY <1>0, <1>7, RequestsAreTyped DEF Cancel, Admitted
  <2>1. Done(q) /\ Pending(i) /\ \A j \in Ids : j # i => reminder'[j] = reminder[j]
    BY <1>a, <1>7, <2>0 DEF Cancel, Cancellable
  <2> QED
    BY <1>2, <2>1 DEF Pending, Stored
<1>8. ASSUME NEW q \in Requests, Refuse(q) PROVE LimitInv'
  BY <1>2, <1>8 DEF Refuse, Pending, Stored
<1>9. ASSUME NEW i \in Ids, EndLease(i) PROVE LimitInv'
  <2>1. /\ UNCHANGED request /\ Pending(i)
        /\ \A j \in Ids : j # i => reminder'[j] = reminder[j]
    BY <1>a, <1>9 DEF EndLease
  <2> QED
    BY <1>1, <2>1 DEF Pending, Stored
<1>10. ASSUME NEW w \in Workers, NEW batch \in SUBSET Ids, Claim(w, batch) PROVE LimitInv'
  <2>1. /\ \A i \in batch : Pending(i)
        /\ \A i \in Ids \ batch : reminder'[i] = reminder[i]
    <3>1. TypeInv /\ Claim(w, batch)
      BY <1>0, <1>10
    <3>2. \A i \in Ids \ batch : reminder'[i] = reminder[i]
      BY <1>a, <3>1 DEF Claim
    <3>3. ASSUME NEW i \in batch PROVE Claimable(i)
      BY <3>1, ClaimEffect
    <3> QED
      BY <3>2, <3>3 DEF Claimable
  <2> QED
    BY <1>1, <1>10, <2>1 DEF Claim, Pending, Stored
<1>11. ASSUME NEW w \in Workers, Renew(w) \/ Deny(w) \/ Publish(w) \/ Record(w) PROVE LimitInv'
  <2>1. PICK row : UpdateOwned(w, row) /\ UNCHANGED request
    BY <1>11 DEF Renew, Deny, Publish, Record
  <2>2. \A i \in Ids : Pending(i)' => Pending(i)
    BY <1>a, <2>1 DEF UpdateOwned, Owns, Pending, Stored
  <2> QED
    BY <1>1, <2>1, <2>2
<1>12. ASSUME NEW w \in Workers, Finish(w) \/ Crash(w) PROVE LimitInv'
  <2>1. EndTick(w) /\ UNCHANGED request
    BY <1>12 DEF Finish, Crash, EndTick
  <2>2. \A i \in Ids : Pending(i)' => Pending(i)
    BY <1>0, <2>1, EndTickEffect, ZenonT(40) DEF Pending, Stored, Row
  <2> QED
    BY <1>1, <2>1, <2>2
<1>13. ASSUME \/ \E i \in Ids : BecomeDue(i)
              \/ ChangeWorld \/ UNCHANGED vars
              \/ \E w \in Workers :
                   \/ \E i \in Ids : Read(w, i)
                   \/ Judge(w) \/ SkipMail(w)
                   \/ \E taken, told \in BOOLEAN : Mail(w, taken, told)
       PROVE  LimitInv'
  <2>1. UNCHANGED <<reminder, request>>
    BY <1>13 DEF BecomeDue, ChangeWorld, Read, Judge, SkipMail, Mail, vars
  <2> QED
    BY <1>1, <2>1 DEF Pending, Stored
<1> QED
  BY <1>3, <1>4, <1>5, <1>6, <1>7, <1>8, <1>9, <1>10, <1>11, <1>12, <1>13
     DEF Next, ClaimSome, Steps

(* A user never has more than PendingLimit pending reminders, whatever     *)
(* requests run at once (the advisory lock of the POST handler).           *)
THEOREM LimitHolds == Spec => []PendingWithinLimit
<1>1. LimitInv => PendingWithinLimit
  BY DEF LimitInv, PendingIds, PendingWithinLimit
<1> QED
  BY <1>1, InitEstablishesLimitInv, StepPreservesLimitInv, PTL DEF Spec
=============================================================================
