----------------------- MODULE WebhookDeliveryProofs -----------------------
(***************************************************************************)
(* What the lease of the webhook outbox guarantees, for any number of      *)
(* deliveries, replicas, attempts, crashes and manual retries, although a  *)
(* lease may pass, or its row be retried by hand, under an attempt.        *)
(***************************************************************************)
EXTENDS WebhookDelivery, FiniteSetTheorems, TLAPS

(* An attempt always works on a row that exists: rows are never deleted.   *)
TypeInv ==
  /\ TypeOK
  /\ \A a \in Attempts : attempt[a] # NoRow => Stored(attempt[a].id)

(* Overtaking changes nothing about an attempt but that it is late.        *)
LEMMA OvertakeMarks ==
  ASSUME TypeInv, NEW d \in Deliveries, Overtake(d), NEW a \in Attempts
  PROVE  /\ attempt'[a] \in Attempt \cup {NoRow}
         /\ attempt'[a] = NoRow <=> attempt[a] = NoRow
         /\ attempt[a] # NoRow =>
              /\ attempt'[a].id = attempt[a].id
              /\ attempt'[a].stage = attempt[a].stage
              /\ attempt'[a].count = attempt[a].count
              /\ attempt'[a].shared = attempt[a].shared
              /\ attempt'[a].late <=> attempt[a].late \/ Works(a, d)
<1> USE NoRowAssumption DEF TypeInv, TypeOK, Works, Posting
<1>1. attempt'[a] =
        IF Works(a, d) THEN [attempt[a] EXCEPT !.late = TRUE] ELSE attempt[a]
  BY DEF Overtake
<1>2. CASE attempt[a] = NoRow
  BY <1>1, <1>2
<1>3. CASE attempt[a] \in Attempt
  <2>1. CASE Works(a, d)
    <3>1. attempt'[a] = [attempt[a] EXCEPT !.late = TRUE]
      BY <1>1, <2>1
    <3>2. attempt'[a] \in Attempt /\ attempt'[a].late
      BY <1>3, <3>1 DEF Attempt
    <3>3. /\ attempt'[a].id = attempt[a].id
          /\ attempt'[a].stage = attempt[a].stage
          /\ attempt'[a].count = attempt[a].count
          /\ attempt'[a].shared = attempt[a].shared
      BY <1>3, <3>1 DEF Attempt
    <3> QED
      BY <1>3, <2>1, <3>2, <3>3
  <2>2. CASE ~Works(a, d)
    BY <1>1, <1>3, <2>2 DEF Attempt
  <2> QED
    BY <2>1, <2>2
<1> QED
  BY <1>2, <1>3

LEMMA InitEstablishesTypeInv == Init => TypeInv
BY WebhookAssumption DEF Init, TypeInv, TypeOK, Row, Attempt

LEMMA OvertakeKeepsTypes ==
  ASSUME TypeInv, NEW d \in Deliveries, Overtake(d)
  PROVE  /\ attempt' \in [Attempts -> Attempt \cup {NoRow}]
         /\ overtaken' \in [Deliveries -> Nat]
         /\ \A a \in Attempts : attempt'[a] # NoRow =>
              attempt[a] # NoRow /\ attempt'[a].id = attempt[a].id
<1>1. attempt' = [a \in Attempts |-> attempt'[a]]
  BY DEF Overtake
<1>2. \A a \in Attempts : attempt'[a] \in Attempt \cup {NoRow}
  BY OvertakeMarks
<1>3. overtaken' \in [Deliveries -> Nat]
  BY DEF Overtake, TypeInv, TypeOK
<1> QED
  BY <1>1, <1>2, <1>3, OvertakeMarks

LEMMA StepPreservesTypeInv == TypeInv /\ [Next]_vars => TypeInv'
<1> SUFFICES ASSUME TypeInv, [Next]_vars PROVE TypeInv'
  OBVIOUS
<1> USE NoRowAssumption DEF TypeInv, TypeOK, Stored, Row, Attempt, Status, Stages, rows, history
<1>1. ASSUME NEW d \in Deliveries, CheckEnabled(d) PROVE TypeInv'
  BY <1>1 DEF CheckEnabled
<1>2. ASSUME NEW d \in Deliveries, StoreRow(d) PROVE TypeInv'
  <2>1. FreshRow \in Row
    BY DEF FreshRow
  <2>2. Overtake(d)
    BY <1>2 DEF StoreRow
  <2> QED
    BY <1>2, <2>1, <2>2, OvertakeKeepsTypes DEF StoreRow
<1>3. ASSUME NEW d \in Deliveries, BecomeDue(d) PROVE TypeInv'
  BY <1>3, OvertakeKeepsTypes DEF BecomeDue
<1>4. ASSUME NEW d \in Deliveries, NEW a \in Attempts, Claim(a, d)
      PROVE TypeInv'
  <2>1. Busy(d) \in BOOLEAN
    BY DEF Busy
  <2>2. PICK shared \in BOOLEAN :
          attempt' = [attempt EXCEPT ![a] = [id |-> d, stage |-> "claimed",
            count |-> 0, late |-> FALSE, shared |-> shared]]
    BY <1>4, <2>1 DEF Claim, Claimed
  <2> QED
    BY <1>4, <2>2 DEF Claim, Claimable, Claimed
<1>5. ASSUME NEW a \in Attempts, ReadRow(a) PROVE TypeInv'
  BY <1>5 DEF ReadRow, Running
<1>6. ASSUME NEW a \in Attempts, FailRefused(a) PROVE TypeInv'
  BY <1>6 DEF FailRefused, Running
<1>7. ASSUME NEW a \in Attempts, NEW ok \in BOOLEAN, Post(a, ok) PROVE TypeInv'
  BY <1>7 DEF Post, Running
<1>8. ASSUME NEW a \in Attempts, RecordAccepted(a) PROVE TypeInv'
  BY <1>8 DEF RecordAccepted, Running
<1>9. ASSUME NEW a \in Attempts, RecordRejected(a) PROVE TypeInv'
  BY <1>9 DEF RecordRejected, Running
<1>10. ASSUME NEW a \in Attempts, DisableHook(a) PROVE TypeInv'
  BY <1>10 DEF DisableHook, Running
<1>11. ASSUME NEW a \in Attempts, Crash(a) PROVE TypeInv'
  BY <1>11 DEF Crash
<1>12. ASSUME Enable \/ Deactivate \/ Delete PROVE TypeInv'
  <2>1. ASSUME NEW p \in BOOLEAN, NEW q \in BOOLEAN, NEW n \in Nat,
               ChangeHook(p, q, n)
        PROVE  TypeInv'
    BY <2>1 DEF ChangeHook
  <2>2. hook.disabledAt \in BOOLEAN /\ hook.failureCount \in Nat
    OBVIOUS
  <2> HIDE DEF TypeInv
  <2> QED
    BY <1>12, <2>1, <2>2, Zenon DEF Enable, Deactivate, Delete
<1>13. ASSUME UNCHANGED vars PROVE TypeInv'
  BY <1>13 DEF vars
<1> QED
  BY <1>1, <1>2, <1>3, <1>4, <1>5, <1>6, <1>7, <1>8, <1>9, <1>10, <1>11,
     <1>12, <1>13 DEF Next, Steps, Create, Retry

(* The shape of the rows, the attempts and the histories never changes.    *)
THEOREM TypesAreKept == Spec => []TypeOK
<1>1. TypeInv => TypeOK
  BY DEF TypeInv
<1> QED
  BY <1>1, InitEstablishesTypeInv, StepPreservesTypeInv, PTL DEF Spec

-----------------------------------------------------------------------------
(* What a step of an attempt can do to the others: nothing; to the rows:   *)
(* end its own work on its own row.                                        *)

Idle ==
  \/ \E d \in Deliveries : CheckEnabled(d)
  \/ Enable \/ Deactivate \/ Delete
  \/ UNCHANGED vars

LEMMA StepsByActor ==
  ASSUME [Next]_vars
  PROVE  \/ Idle
         \/ \E d \in Deliveries : StoreRow(d) /\ (Stored(d) => Retry(d))
         \/ \E d \in Deliveries : BecomeDue(d)
         \/ \E d \in Deliveries, a \in Attempts : Claim(a, d)
         \/ \E a \in Attempts : Steps(a) \/ Crash(a)
BY DEF Next, Idle, Create, Retry

LEMMA IdleKeeps ==
  Idle => UNCHANGED <<delivery, due, attempt, history, crashes>>
BY DEF Idle, CheckEnabled, Enable, Deactivate, Delete, ChangeHook, vars, rows

LEMMA AttemptKeeps ==
  ASSUME TypeInv, NEW a \in Attempts, Steps(a) \/ Crash(a)
  PROVE  /\ attempt[a] \in Attempt
         /\ \A b \in Attempts \ {a} : attempt'[b] = attempt[b]
         /\ Posting(a)' =>
              /\ Posting(a)
              /\ attempt'[a].id = attempt[a].id
              /\ attempt'[a].late = attempt[a].late
              /\ attempt'[a].shared = attempt[a].shared
              /\ UNCHANGED delivery
         /\ \A d \in Deliveries : delivery'[d] # delivery[d] => Works(a, d)
         /\ due' \subseteq due
         /\ UNCHANGED <<checked, overtaken>>
<1> USE NoRowAssumption
    DEF TypeInv, TypeOK, Posting, Works, Stored, Row, Attempt, Status, Stages, rows,
        history
<1>1. ASSUME ReadRow(a) PROVE attempt[a] \in Attempt
  BY <1>1 DEF ReadRow, Running
<1>2. CASE ReadRow(a)
  <2>1. PICK stage \in {"posting", "refused"}, n \in Nat :
          attempt' = [attempt EXCEPT ![a].count = n, ![a].stage = stage]
    BY <1>2 DEF ReadRow, Running
  <2> QED
    BY <1>2, <2>1 DEF ReadRow, Running
<1>3. CASE FailRefused(a)
  BY <1>3 DEF FailRefused, Running
<1>4. ASSUME NEW ok \in BOOLEAN, Post(a, ok)
      PROVE  /\ attempt[a] \in Attempt /\ attempt[a].stage = "posting"
             /\ \E stage \in {"accepted", "rejected"} :
                  attempt' = [attempt EXCEPT ![a].stage = stage]
             /\ UNCHANGED <<rows, checked, overtaken>>
  BY <1>4 DEF Post, Running
<1>5. CASE \E ok \in BOOLEAN : Post(a, ok)
  BY <1>4, <1>5
<1>6. CASE RecordAccepted(a)
  BY <1>6 DEF RecordAccepted, Running
<1>7. CASE RecordRejected(a)
  BY <1>7 DEF RecordRejected, Running
<1>8. CASE DisableHook(a)
  BY <1>8 DEF DisableHook, Running
<1>9. CASE Crash(a)
  BY <1>9 DEF Crash
<1> QED
  BY <1>2, <1>3, <1>5, <1>6, <1>7, <1>8, <1>9 DEF Steps

-----------------------------------------------------------------------------
(* An attempt that was not overtaken owns its row: it is not due.  One     *)
(* that nobody overlapped has it PENDING and to itself.                    *)

OwnsRow(a, d) ==
  /\ ~attempt[a].late => d \notin due
  /\ Alone(a) =>
       /\ delivery[d].status = "PENDING"
       /\ \A b \in Attempts : Works(b, d) => b = a

OwnInv ==
  /\ TypeInv
  /\ \A a \in Attempts, d \in Deliveries : Works(a, d) => OwnsRow(a, d)
  /\ OneAttemptAtATime

LEMMA InitEstablishesOwnInv == Init => OwnInv
BY InitEstablishesTypeInv
   DEF Init, OwnInv, OwnsRow, OneAttemptAtATime, Works, Posting

LEMMA StepPreservesOwnInv == OwnInv /\ [Next]_vars => OwnInv'
<1> SUFFICES ASSUME OwnInv, [Next]_vars PROVE OwnInv'
  OBVIOUS
<1> DEFINE Own == \A a \in Attempts, d \in Deliveries :
                    Works(a, d) => OwnsRow(a, d)
           Inv == Own /\ OneAttemptAtATime
<1>0. TypeInv /\ TypeInv'
  BY StepPreservesTypeInv DEF OwnInv
<1> SUFFICES Inv'
  BY <1>0 DEF OwnInv
<1> USE <1>0, NoRowAssumption
    DEF OwnInv, OwnsRow, OneAttemptAtATime, Works, Posting, Alone
<1>1. CASE Idle
  BY <1>1, IdleKeeps
<1>2. ASSUME NEW e \in Deliveries, Overtake(e), due' = due \cup {e},
             \A d \in Deliveries \ {e} : delivery'[d] = delivery[d]
      PROVE  Inv'
  <2>1. \A a \in Attempts, d \in Deliveries :
          Works(a, d)' => /\ Works(a, d)
                          /\ attempt'[a].shared = attempt[a].shared
                          /\ attempt'[a].late <=> attempt[a].late \/ d = e
    BY <1>2, OvertakeMarks
  <2>2. ASSUME NEW a \in Attempts, NEW d \in Deliveries, Works(a, d)'
        PROVE  OwnsRow(a, d)'
    <3>1. CASE d = e
      BY <2>1, <2>2, <3>1
    <3>2. CASE d # e
      BY <1>2, <2>1, <2>2, <3>2
    <3> QED
      BY <3>1, <3>2
  <2>3. OneAttemptAtATime'
    BY <2>1
  <2> QED
    BY <2>2, <2>3
<1>3. ASSUME NEW e \in Deliveries, StoreRow(e) PROVE Inv'
  <2>1. \A d \in Deliveries \ {e} : delivery'[d] = delivery[d]
    BY <1>3 DEF StoreRow, TypeInv, TypeOK
  <2> QED
    BY <1>2, <1>3, <2>1 DEF StoreRow
<1>4. ASSUME NEW e \in Deliveries, BecomeDue(e) PROVE Inv'
  BY <1>2, <1>4 DEF BecomeDue
<1>5. ASSUME NEW e \in Deliveries, NEW c \in Attempts, Claim(c, e) PROVE Inv'
  <2>1. /\ e \in due /\ due' = due \ {e}
        /\ delivery[e] \in Row /\ delivery[e].status = "PENDING"
        /\ delivery'[e].status = "PENDING"
        /\ \A d \in Deliveries \ {e} : delivery'[d] = delivery[d]
    BY <1>5 DEF Claim, Claimable, Claimed, Stored, TypeInv, TypeOK, Row
  <2>2. /\ attempt'[c] = [id |-> e, stage |-> "claimed", count |-> 0,
                          late |-> FALSE, shared |-> Busy(e)]
        /\ \A b \in Attempts \ {c} : attempt'[b] = attempt[b]
        /\ attempt[c] = NoRow
    BY <1>5 DEF Claim, Claimable, Claimed, TypeInv, TypeOK
  <2>3. \A b \in Attempts : Works(b, e) => attempt[b].late
    BY <2>1
  <2>4. \A b \in Attempts, d \in Deliveries :
          Works(b, d)' => (b = c /\ d = e) \/ (b # c /\ Works(b, d))
    BY <2>2
  <2>5. ASSUME NEW a \in Attempts, NEW d \in Deliveries, Works(a, d)'
        PROVE  OwnsRow(a, d)'
    <3>1. CASE a = c
      <4>1. d = e /\ ~attempt'[a].late /\ d \notin due'
        BY <2>1, <2>2, <2>5, <3>1
      <4>2. ASSUME Alone(a)', NEW b \in Attempts, Works(b, d)' PROVE b = a
        <5>1. ~Busy(e)
          BY <2>2, <3>1, <4>2
        <5> QED
          BY <2>4, <3>1, <4>1, <4>2, <5>1 DEF Busy
      <4> QED
        BY <2>1, <4>1, <4>2
    <3>2. CASE a # c
      <4>1. Works(a, d) /\ attempt'[a] = attempt[a]
        BY <2>2, <2>4, <2>5, <3>2
      <4>2. d = e => attempt[a].late
        BY <2>3, <4>1
      <4> QED
        BY <2>1, <2>4, <4>1, <4>2
    <3> QED
      BY <3>1, <3>2
  <2>6. OneAttemptAtATime'
    BY <2>2, <2>3, <2>4
  <2> QED
    BY <2>5, <2>6
<1>6. ASSUME NEW c \in Attempts, Steps(c) \/ Crash(c) PROVE Inv'
  <2>1. /\ \A b \in Attempts \ {c} : attempt'[b] = attempt[b]
        /\ Posting(c)' =>
             /\ Posting(c)
             /\ attempt'[c].id = attempt[c].id
             /\ attempt'[c].late = attempt[c].late
             /\ attempt'[c].shared = attempt[c].shared
             /\ UNCHANGED delivery
        /\ \A d \in Deliveries : delivery'[d] # delivery[d] => Works(c, d)
        /\ due' \subseteq due
    BY <1>6, AttemptKeeps
  <2>2. \A b \in Attempts, d \in Deliveries :
          Works(b, d)' => /\ Works(b, d)
                          /\ attempt'[b].late = attempt[b].late
                          /\ attempt'[b].shared = attempt[b].shared
    BY <2>1
  <2>3. ASSUME NEW a \in Attempts, NEW d \in Deliveries, Works(a, d)', Alone(a)'
        PROVE  delivery'[d] = delivery[d]
    <3>1. CASE Works(c, d)
      <4>1. a = c
        BY <2>2, <2>3, <3>1
      <4> QED
        BY <2>1, <2>3, <4>1
    <3>2. CASE ~Works(c, d)
      BY <2>1, <3>2
    <3> QED
      BY <3>1, <3>2
  <2>4. Own'
    BY <2>1, <2>2, <2>3
  <2>5. OneAttemptAtATime'
    BY <2>2
  <2> QED
    BY <2>4, <2>5
<1> HIDE DEF Inv
<1> QED
  BY <1>1, <1>3, <1>4, <1>5, <1>6, StepsByActor

(* Replicas that compete for the same due rows never work on one delivery  *)
(* at a time, but for an attempt whose lease passed or whose row was       *)
(* retried under it (the claim of processWebhookDelivery).                 *)
THEOREM LeaseExcludes == Spec => []OneAttemptAtATime
<1>1. OwnInv => OneAttemptAtATime
  BY DEF OwnInv
<1> QED
  BY <1>1, InitEstablishesOwnInv, StepPreservesOwnInv, PTL DEF Spec

-----------------------------------------------------------------------------
(* Delivered rows.                                                         *)

Undelivered(d) ==
  /\ Stored(d) /\ delivery[d].status = "DELIVERED"
  /\ delivery'[d].status # "DELIVERED"

Excused(d) ==
  \/ d \in checked \ checked'
  \/ \E a \in Attempts : Works(a, d) /\ ~Alone(a) /\ attempt'[a] # attempt[a]

LEMMA OnlyTheOverlappedUndeliver ==
  ASSUME OwnInv, [Next]_vars, NEW d \in Deliveries, Undelivered(d)
  PROVE  Excused(d)
<1> USE NoRowAssumption DEF OwnInv, OwnsRow, TypeInv, TypeOK, Stored, Undelivered
<1>1. ~Idle
  BY IdleKeeps
<1>2. ASSUME NEW e \in Deliveries, StoreRow(e), Stored(e) => Retry(e)
      PROVE  Excused(d)
  BY <1>2 DEF StoreRow, Retry, Excused
<1>3. \A e \in Deliveries : ~BecomeDue(e)
  BY DEF BecomeDue
<1>4. \A a \in Attempts, e \in Deliveries : ~Claim(a, e)
  BY DEF Claim, Claimable, Claimed
<1>5. ASSUME NEW a \in Attempts, Steps(a) \/ Crash(a) PROVE Excused(d)
  <2>1. /\ attempt[a] \in Attempt /\ Works(a, d)
        /\ ~Posting(a)'
    BY <1>5, AttemptKeeps
  <2>2. attempt'[a] # attempt[a]
    BY <2>1 DEF Works, Posting
  <2>3. ~Alone(a)
    BY <2>1
  <2> QED
    BY <2>1, <2>2, <2>3 DEF Excused
<1> QED
  BY <1>1, <1>2, <1>3, <1>4, <1>5, StepsByActor

(* A delivered row leaves that status only by a manual retry, or by the    *)
(* failure of an attempt that another one overlapped (the updates by id of *)
(* processWebhookDelivery).                                                *)
THEOREM DeliveredForGood == Spec => DeliveredStays
<1>1. ASSUME OwnInv, [Next]_vars
      PROVE  [\A d \in Deliveries : Undelivered(d) => Excused(d)]_vars
  BY <1>1, OnlyTheOverlappedUndeliver
<1> QED
  BY <1>1, InitEstablishesOwnInv, StepPreservesOwnInv, PTL
     DEF Spec, DeliveredStays, Undelivered, Excused

-----------------------------------------------------------------------------
(* The rows tell what the receiver said.                                   *)

(* Busy is too weak to be kept: the attempt that is still at work must be  *)
(* the one that heard the receiver accept.                                 *)
AnswersStand ==
  \A d \in Deliveries :
    /\ Heard(d) => d \in accepted
    /\ Stored(d) /\ delivery[d].status = "DELIVERED" => d \in accepted

(* Without crashes and without a late attempt no answer is lost, and every *)
(* attempt has its row to itself.                                          *)
Undisturbed(d) == crashes = 0 /\ overtaken[d] = 0

AnswersArrive ==
  \A d \in Deliveries :
    /\ overtaken[d] = 0 =>
         \A a \in Attempts : Works(a, d) => Alone(a)
    /\ Undisturbed(d) /\ Stored(d) /\ d \in accepted =>
         delivery[d].status = "DELIVERED" \/ Heard(d)

FailuresDisable ==
  crashes = 0 /\ Enabled /\ hook.failureCount >= DisableAfter =>
    \E a \in Attempts : Running(a, "disable")

TruthInv == AnswersStand /\ AnswersArrive /\ FailuresDisable

LEMMA InitEstablishesTruthInv == Init => TruthInv
BY WebhookAssumption
   DEF Init, TruthInv, AnswersStand, AnswersArrive, FailuresDisable, Heard, Works,
       Posting, Running, Stored, Enabled

LEMMA StepPreservesAnswersStand ==
  ASSUME OwnInv, AnswersStand, [Next]_vars PROVE AnswersStand'
<1> USE NoRowAssumption
    DEF OwnInv, TypeInv, TypeOK, Stored, Heard, Running
<1>1. CASE Idle
  BY <1>1, IdleKeeps DEF AnswersStand, history
<1>2. ASSUME NEW e \in Deliveries, Overtake(e), NEW d \in Deliveries
      PROVE  Heard(d)' <=> Heard(d)
  BY <1>2, OvertakeMarks
<1>3. ASSUME NEW e \in Deliveries, StoreRow(e) PROVE AnswersStand'
  <2>1. \A d \in Deliveries : Heard(d)' <=> Heard(d)
    BY <1>2, <1>3 DEF StoreRow
  <2>2. delivery' = [delivery EXCEPT ![e] = FreshRow]
    BY <1>3 DEF StoreRow
  <2>3. FreshRow.status # "DELIVERED"
    BY DEF FreshRow
  <2>4. accepted' = IF Heard(e) THEN accepted ELSE accepted \ {e}
    BY <1>3 DEF StoreRow
  <2> HIDE DEF Heard
  <2> QED
    BY <2>1, <2>2, <2>3, <2>4 DEF AnswersStand
<1>4. ASSUME NEW e \in Deliveries, BecomeDue(e) PROVE AnswersStand'
  <2>1. \A d \in Deliveries : Heard(d)' <=> Heard(d)
    BY <1>2, <1>4 DEF BecomeDue
  <2> HIDE DEF Heard
  <2> QED
    BY <1>4, <2>1 DEF AnswersStand, BecomeDue
<1>5. ASSUME NEW e \in Deliveries, NEW c \in Attempts, Claim(c, e)
      PROVE  AnswersStand'
  <2>1. PICK shared \in {Busy(e)} :
          attempt' = [attempt EXCEPT ![c] = [id |-> e, stage |-> "claimed",
            count |-> 0, late |-> FALSE, shared |-> shared]]
    BY <1>5 DEF Claim, Claimed
  <2>2. \A d \in Deliveries : Heard(d)' => Heard(d)
    BY <2>1
  <2>3. /\ delivery'[e].status = "PENDING"
        /\ \A d \in Deliveries \ {e} : delivery'[d] = delivery[d]
        /\ accepted' = accepted
    BY <1>5 DEF Claim, Claimable, Claimed, Row, history
  <2> HIDE DEF Heard
  <2> QED
    BY <2>2, <2>3 DEF AnswersStand
<1>6. ASSUME NEW c \in Attempts, RecordAccepted(c) PROVE AnswersStand'
  <2> DEFINE d == attempt[c].id
  <2>1. /\ d \in Deliveries /\ Heard(d)
        /\ \A e \in Deliveries \ {d} : delivery'[e] = delivery[e]
        /\ accepted' = accepted
    BY <1>6 DEF RecordAccepted, Attempt, history
  <2>2. \A e \in Deliveries : Heard(e)' => Heard(e)
    BY <1>6 DEF RecordAccepted
  <2> HIDE DEF Heard
  <2> QED
    BY <2>1, <2>2 DEF AnswersStand
<1>7. ASSUME NEW c \in Attempts, NEW ok \in BOOLEAN, Post(c, ok)
      PROVE  AnswersStand'
  BY <1>7 DEF Post, AnswersStand, rows, Attempt
<1>8. ASSUME NEW c \in Attempts, Steps(c) \/ Crash(c),
             ~RecordAccepted(c), \A ok \in BOOLEAN : ~Post(c, ok)
      PROVE  AnswersStand'
  <2>1. /\ \A e \in Deliveries : Heard(e)' => Heard(e)
        /\ accepted' = accepted
        /\ \A e \in Deliveries :
             delivery'[e] = delivery[e] \/ delivery'[e].status # "DELIVERED"
    <3>1. CASE ReadRow(c)
      <4>1. PICK stage \in {"posting", "refused"}, n \in Nat :
              attempt' = [attempt EXCEPT ![c].count = n, ![c].stage = stage]
        BY <3>1 DEF ReadRow, Row, Attempt
      <4> QED
        BY <3>1, <4>1 DEF ReadRow, rows, history, Attempt
    <3>2. CASE FailRefused(c)
      BY <3>2 DEF FailRefused, history, Attempt, Row
    <3>3. CASE RecordRejected(c)
      BY <3>3 DEF RecordRejected, history, Attempt, Row
    <3>4. CASE DisableHook(c)
      BY <3>4 DEF DisableHook, history
    <3>5. CASE Crash(c)
      BY <3>5 DEF Crash, rows, history
    <3> QED
      BY <1>8, <3>1, <3>2, <3>3, <3>4, <3>5 DEF Steps
  <2> HIDE DEF Heard
  <2> QED
    BY <2>1 DEF AnswersStand
<1> QED
  BY <1>1, <1>3, <1>4, <1>5, <1>6, <1>7, <1>8, StepsByActor

LEMMA OthersWorkOnUnaccepted ==
  ASSUME OwnInv, AnswersArrive, NEW d \in Deliveries, Undisturbed(d),
         NEW a \in Attempts, Works(a, d), attempt[a].stage # "accepted"
  PROVE  d \notin accepted
<1>1. Alone(a)
  BY DEF AnswersArrive, Undisturbed
<1>2. Stored(d) /\ delivery[d].status = "PENDING" /\ ~Heard(d)
  BY <1>1 DEF OwnInv, OwnsRow, TypeInv, Works, Posting, Heard, Running
<1> QED
  BY <1>2 DEF AnswersArrive

LEMMA StepPreservesAnswersArrive ==
  ASSUME OwnInv, AnswersArrive, [Next]_vars PROVE AnswersArrive'
<1> USE NoRowAssumption DEF OwnInv, TypeInv, TypeOK
<1>1. CASE Idle
  BY <1>1, IdleKeeps
     DEF AnswersArrive, Undisturbed, Alone, Heard, Works, Posting, Running, Stored,
         history
<1>2. ASSUME NEW e \in Deliveries, Overtake(e)
      PROVE  /\ \A d \in Deliveries : overtaken'[d] = 0 => overtaken[d] = 0
             /\ overtaken'[e] = 0 => ~Busy(e) /\ ~Busy(e)'
             /\ \A d \in Deliveries : Heard(d)' <=> Heard(d)
             /\ \A d \in Deliveries \ {e}, a \in Attempts :
                  Works(a, d)' => Works(a, d) /\ (Alone(a)' <=> Alone(a))
  <2>1. \A d \in Deliveries :
          /\ d # e => overtaken'[d] = overtaken[d]
          /\ Held(e) => overtaken'[e] = overtaken[e] + 1
          /\ ~Held(e) => overtaken'[e] = overtaken[e]
    BY <1>2 DEF Overtake
  <2>2. \A d \in Deliveries : overtaken'[d] = 0 => overtaken[d] = 0
    BY <2>1
  <2>3. \A d \in Deliveries, a \in Attempts :
          Works(a, d)' => /\ Works(a, d)
                          /\ attempt'[a].shared = attempt[a].shared
                          /\ attempt'[a].late <=> attempt[a].late \/ d = e
    BY <1>2, OvertakeMarks DEF Works, Posting
  <2>4. overtaken'[e] = 0 => ~Busy(e)
    BY <2>1, <2>2 DEF AnswersArrive, Busy, Held, Alone
  <2>5. \A d \in Deliveries : Heard(d)' <=> Heard(d)
    BY <1>2, OvertakeMarks DEF Heard, Running
  <2> QED
    BY <2>2, <2>3, <2>4, <2>5 DEF Alone, Busy
<1>3. ASSUME NEW e \in Deliveries, StoreRow(e) PROVE AnswersArrive'
  <2>1. /\ Overtake(e) /\ UNCHANGED crashes
        /\ \A d \in Deliveries \ {e} : delivery'[d] = delivery[d]
        /\ accepted' \subseteq accepted
        /\ ~Heard(e) => e \notin accepted'
    BY <1>3 DEF StoreRow
  <2>2. ~Busy(e) => ~Heard(e)
    BY DEF Busy, Heard, Works, Posting, Running
  <2>3. ASSUME NEW d \in Deliveries, overtaken'[d] = 0, NEW a \in Attempts,
               Works(a, d)'
        PROVE  Alone(a)'
    BY <1>2, <2>1, <2>3 DEF AnswersArrive, Busy
  <2>4. ASSUME NEW d \in Deliveries, Undisturbed(d)', Stored(d)', d \in accepted'
        PROVE  delivery'[d].status = "DELIVERED" \/ Heard(d)'
    BY <1>2, <2>1, <2>2, <2>4 DEF AnswersArrive, Undisturbed, Stored
  <2> QED
    BY <2>3, <2>4 DEF AnswersArrive
<1>4. ASSUME NEW e \in Deliveries, BecomeDue(e) PROVE AnswersArrive'
  <2>1. Overtake(e) /\ UNCHANGED <<crashes, delivery, accepted>>
    BY <1>4 DEF BecomeDue
  <2>3. ASSUME NEW d \in Deliveries, overtaken'[d] = 0, NEW a \in Attempts,
               Works(a, d)'
        PROVE  Alone(a)'
    BY <1>2, <2>1, <2>3 DEF AnswersArrive, Busy
  <2>4. ASSUME NEW d \in Deliveries, Undisturbed(d)', Stored(d)', d \in accepted'
        PROVE  delivery'[d].status = "DELIVERED" \/ Heard(d)'
    BY <1>2, <2>1, <2>4 DEF AnswersArrive, Undisturbed, Stored
  <2> QED
    BY <2>3, <2>4 DEF AnswersArrive
<1>5. ASSUME NEW e \in Deliveries, NEW c \in Attempts, Claim(c, e)
      PROVE  AnswersArrive'
  <2>1. /\ attempt'[c] = [id |-> e, stage |-> "claimed", count |-> 0,
                          late |-> FALSE, shared |-> Busy(e)]
        /\ \A b \in Attempts \ {c} : attempt'[b] = attempt[b]
        /\ attempt[c] = NoRow
        /\ e \in due /\ Stored(e) /\ delivery[e].status = "PENDING"
        /\ \A d \in Deliveries \ {e} : delivery'[d] = delivery[d]
        /\ UNCHANGED <<overtaken, accepted, crashes>>
    BY <1>5 DEF Claim, Claimable, Claimed, history
  <2>2. overtaken[e] = 0 => ~Busy(e)
    BY <2>1 DEF AnswersArrive, OwnsRow, Alone, Busy
  <2>3. ASSUME NEW d \in Deliveries, overtaken'[d] = 0, NEW a \in Attempts,
               Works(a, d)'
        PROVE  Alone(a)'
    BY <2>1, <2>2, <2>3 DEF AnswersArrive, Alone, Works, Posting
  <2>4. \A d \in Deliveries : Heard(d) => Heard(d)'
    BY <2>1 DEF Heard, Running
  <2>5. ~Busy(e) => ~Heard(e)
    BY DEF Busy, Heard, Works, Posting, Running
  <2>6. ASSUME NEW d \in Deliveries, Undisturbed(d)', Stored(d)', d \in accepted'
        PROVE  delivery'[d].status = "DELIVERED" \/ Heard(d)'
    BY <2>1, <2>2, <2>4, <2>5, <2>6 DEF AnswersArrive, Undisturbed, Stored
  <2> QED
    BY <2>3, <2>6 DEF AnswersArrive
<1>6. ASSUME NEW c \in Attempts, Steps(c) \/ Crash(c) PROVE AnswersArrive'
  <2>1. /\ attempt[c] \in Attempt
        /\ \A b \in Attempts \ {c} : attempt'[b] = attempt[b]
        /\ Posting(c)' =>
             /\ Posting(c)
             /\ attempt'[c].id = attempt[c].id
             /\ attempt'[c].late = attempt[c].late
             /\ attempt'[c].shared = attempt[c].shared
        /\ \A d \in Deliveries : delivery'[d] # delivery[d] => Works(c, d)
        /\ UNCHANGED overtaken
    BY <1>6, AttemptKeeps
  <2>2. ASSUME NEW d \in Deliveries, overtaken'[d] = 0, NEW a \in Attempts,
               Works(a, d)'
        PROVE  Alone(a)'
    BY <2>1, <2>2 DEF AnswersArrive, Alone, Works, Posting
  <2>3. SUFFICES ASSUME NEW d \in Deliveries, Undisturbed(d)', Stored(d)',
                        d \in accepted'
                 PROVE  delivery'[d].status = "DELIVERED" \/ Heard(d)'
    BY <2>2 DEF AnswersArrive
  <2>4. ~Crash(c) /\ Undisturbed(d)
    BY <1>6, <2>1, <2>3
       DEF Undisturbed, Crash, Steps, ReadRow, FailRefused, Post, RecordAccepted,
           RecordRejected, DisableHook
  <2>5. ASSUME ~Works(c, d), d \in accepted
        PROVE  delivery'[d].status = "DELIVERED" \/ Heard(d)'
    <3>1. Heard(d) => Heard(d)'
      BY <2>1, <2>5 DEF Heard, Works, Posting, Running
    <3> QED
      BY <2>1, <2>3, <2>4, <2>5, <3>1 DEF AnswersArrive, Stored
  <2>6. Works(c, d) /\ attempt[c].stage # "accepted" => d \notin accepted
    BY <2>4, OthersWorkOnUnaccepted
  <2>7. CASE RecordAccepted(c)
    <3>1. /\ attempt[c].stage = "accepted" /\ accepted' = accepted
          /\ attempt[c].id \in Deliveries
          /\ delivery[attempt[c].id] \in Row
          /\ delivery' = [delivery EXCEPT ![attempt[c].id].status = "DELIVERED"]
      BY <2>1, <2>7 DEF RecordAccepted, Running, history, Stored, Attempt
    <3>2. delivery'[attempt[c].id].status = "DELIVERED"
      BY <3>1 DEF Row
    <3> QED
      BY <2>1, <2>3, <2>5, <3>1, <3>2 DEF Works, Posting
  <2>8. ASSUME NEW ok \in BOOLEAN, Post(c, ok)
        PROVE  delivery'[d].status = "DELIVERED" \/ Heard(d)'
    <3>1. /\ attempt[c].stage = "posting"
          /\ attempt' = [attempt EXCEPT
               ![c].stage = IF ok THEN "accepted" ELSE "rejected"]
          /\ accepted' = accepted \cup (IF ok THEN {attempt[c].id} ELSE {})
      BY <2>8 DEF Post, Running
    <3>2. CASE d \in accepted
      BY <2>5, <2>6, <3>1, <3>2
    <3>3. CASE d \notin accepted
      <4>a. d \in (IF ok THEN {attempt[c].id} ELSE {})
        BY <2>3, <3>1, <3>3
      <4>1. ok /\ attempt[c].id = d
        BY <4>a, Zenon
      <4>b. attempt' = [attempt EXCEPT ![c].stage = "accepted"]
        BY <3>1, <4>1, Zenon
      <4>c. /\ attempt'[c] \in Attempt /\ attempt'[c].stage = "accepted"
            /\ attempt'[c].id = d
        BY <2>1, <4>1, <4>b DEF Attempt, Stages
      <4>2. Running(c, "accepted")' /\ attempt'[c].id = d
        BY <4>c DEF Running
      <4> QED
        BY <4>2 DEF Heard
    <3> QED
      BY <3>2, <3>3
  <2>9. ASSUME ~RecordAccepted(c), \A ok \in BOOLEAN : ~Post(c, ok)
        PROVE  delivery'[d].status = "DELIVERED" \/ Heard(d)'
    <3>1. accepted' = accepted
      BY <1>6, <2>4, <2>9
         DEF Steps, ReadRow, FailRefused, RecordRejected, DisableHook, history
    <3>2. attempt[c].stage # "accepted"
      BY <1>6, <2>4, <2>9
         DEF Steps, ReadRow, FailRefused, RecordRejected, DisableHook, Running
    <3> QED
      BY <2>3, <2>5, <2>6, <3>1, <3>2
  <2> QED
    BY <2>7, <2>8, <2>9
<1> QED
  BY <1>1, <1>3, <1>4, <1>5, <1>6, StepsByActor

LEMMA StepPreservesFailuresDisable ==
  ASSUME OwnInv, FailuresDisable, [Next]_vars PROVE FailuresDisable'
<1> USE NoRowAssumption, WebhookAssumption
    DEF OwnInv, TypeInv, TypeOK, Enabled, Running
<1> SUFFICES ASSUME crashes' = 0, Enabled', hook'.failureCount >= DisableAfter
             PROVE  \E a \in Attempts : Running(a, "disable")'
  BY DEF FailuresDisable
<1>1. CASE Idle
  BY <1>1
     DEF Idle, CheckEnabled, Enable, Deactivate, Delete, ChangeHook, vars, rows,
         FailuresDisable
<1>2. ASSUME NEW e \in Deliveries, Overtake(e), UNCHANGED <<hook, crashes>>
      PROVE  \E a \in Attempts : Running(a, "disable")'
  <2>1. PICK a \in Attempts : Running(a, "disable")
    BY <1>2 DEF FailuresDisable
  <2> QED
    BY <1>2, <2>1, OvertakeMarks
<1>3. \A e \in Deliveries :
        StoreRow(e) => \E a \in Attempts : Running(a, "disable")'
  BY <1>2 DEF StoreRow
<1>4. \A e \in Deliveries :
        BecomeDue(e) => \E a \in Attempts : Running(a, "disable")'
  BY <1>2 DEF BecomeDue
<1>5. ASSUME NEW e \in Deliveries, NEW c \in Attempts, Claim(c, e)
      PROVE  \E a \in Attempts : Running(a, "disable")'
  BY <1>5 DEF Claim, Claimable, Claimed, FailuresDisable
<1>6. ASSUME NEW c \in Attempts, ReadRow(c) \/ FailRefused(c)
      PROVE  \E a \in Attempts : Running(a, "disable")'
  <2>1. /\ UNCHANGED <<hook, crashes>>
        /\ attempt[c].stage # "disable"
        /\ \A b \in Attempts \ {c} : attempt'[b] = attempt[b]
    BY <1>6 DEF ReadRow, FailRefused, rows
  <2> QED
    BY <2>1 DEF FailuresDisable
<1>7. ASSUME NEW c \in Attempts, NEW ok \in BOOLEAN, Post(c, ok)
      PROVE  \E a \in Attempts : Running(a, "disable")'
  <2>1. /\ UNCHANGED <<hook, crashes>>
        /\ attempt[c].stage # "disable"
        /\ \A b \in Attempts \ {c} : attempt'[b] = attempt[b]
    BY <1>7 DEF Post, rows
  <2> QED
    BY <2>1 DEF FailuresDisable
<1>8. ASSUME NEW c \in Attempts, RecordAccepted(c)
      PROVE  \E a \in Attempts : Running(a, "disable")'
  <2>1. hook'.failureCount = 0
    BY <1>8 DEF RecordAccepted
  <2> QED
    BY <2>1
<1>9. ASSUME NEW c \in Attempts, RecordRejected(c)
      PROVE  \E a \in Attempts : Running(a, "disable")'
  <2>1. hook' = [hook EXCEPT !.failureCount = @ + 1] /\ attempt[c] \in Attempt
    BY <1>9, Zenon DEF RecordRejected, Running
  <2>2. PICK after \in {[attempt[c] EXCEPT !.stage = "disable"], NoRow} :
          /\ attempt' = [attempt EXCEPT ![c] = after]
          /\ hook.failureCount + 1 >= DisableAfter =>
               after = [attempt[c] EXCEPT !.stage = "disable"]
    BY <1>9 DEF RecordRejected, Failing
  <2>3. hook'.failureCount = hook.failureCount + 1
    BY <2>1
  <2>4. hook.failureCount + 1 >= DisableAfter
    BY <2>3
  <2>5. attempt'[c] = [attempt[c] EXCEPT !.stage = "disable"]
    BY <2>2, <2>4
  <2>6. attempt'[c].stage = "disable" /\ attempt'[c] \in Attempt
    BY <2>1, <2>5 DEF Attempt, Stages
  <2> QED
    BY <2>6
<1>10. ASSUME NEW c \in Attempts, DisableHook(c)
       PROVE  \E a \in Attempts : Running(a, "disable")'
  <2>1. ~hook'.isActive
    BY <1>10 DEF DisableHook
  <2> QED
    BY <2>1
<1>11. \A c \in Attempts : ~Crash(c)
  BY DEF Crash
<1> QED
  BY <1>1, <1>3, <1>4, <1>5, <1>6, <1>7, <1>8, <1>9, <1>10, <1>11, StepsByActor
     DEF Steps

(* A DELIVERED row was accepted, whatever leases and crashes did; an       *)
(* accepted one is DELIVERED unless an attempt died or was overtaken; and  *)
(* without crashes a webhook that failed DISABLE_AFTER_FAILURES times in a *)
(* row is being disabled (processWebhookDelivery).                         *)
THEOREM RowsTellTheAnswer == Spec => []StatusIsTruthful
<1>1. TruthInv => StatusIsTruthful
  BY DEF TruthInv, StatusIsTruthful, AnswersStand, AnswersArrive, FailuresDisable,
         Undisturbed
<1>2. OwnInv /\ TruthInv /\ [Next]_vars => OwnInv' /\ TruthInv'
  BY StepPreservesOwnInv, StepPreservesAnswersStand, StepPreservesAnswersArrive,
     StepPreservesFailuresDisable DEF TruthInv
<1> QED
  BY <1>1, <1>2, InitEstablishesOwnInv, InitEstablishesTruthInv, PTL DEF Spec

-----------------------------------------------------------------------------
(* Attempts are counted.  A delivery is claimed again after its last       *)
(* attempt only when that attempt is gone, or when a late one records a    *)
(* failure that it does not take for the last: each is counted once, as a  *)
(* crash or as overtaken.                                                  *)

LateOn(d) == {a \in Attempts : Works(a, d) /\ attempt[a].late}

(* The late attempts that may still put d back to PENDING.                 *)
MayReopen(a, d) ==
  \/ attempt[a].stage = "claimed" /\ delivery[d].attemptCount < MaxAttempts
  \/ attempt[a].stage \in {"posting", "rejected"} /\ attempt[a].count < MaxAttempts
Reopening(d) == {a \in LateOn(d) : MayReopen(a, d)}

(* The attempts that may still post d.                                     *)
Unposted(d) ==
  {a \in Attempts : Works(a, d) /\ attempt[a].stage \in {"claimed", "posting"}}

(* The claims d comes to if nobody reopens it.                             *)
Claims(d) ==
  LET n == delivery[d].attemptCount
  IN  IF n < MaxAttempts THEN MaxAttempts
      ELSE IF delivery[d].status = "PENDING" /\ ~Held(d) THEN n + 1 ELSE n

Balanced(d) ==
  /\ \A a \in Attempts :
       (/\ Works(a, d) /\ ~attempt[a].late
        /\ attempt[a].stage \in {"posting", "rejected"}) =>
         attempt[a].count = delivery[d].attemptCount
  /\ Cardinality(LateOn(d)) <= overtaken[d]
  /\ Stored(d) =>
       /\ Claims(d) + Cardinality(Reopening(d)) <=
            MaxAttempts + crashes + overtaken[d]
       /\ tries[d] + Cardinality(Unposted(d)) <=
            delivery[d].attemptCount + overtaken[d]

CountInv == \A d \in Deliveries : Balanced(d)

LEMMA SubsetsOfAttempts ==
  ASSUME NEW T, T \subseteq Attempts, NEW S, S \subseteq Attempts
  PROVE  /\ Cardinality(S) \in Nat /\ Cardinality(T) \in Nat
         /\ S \subseteq T => Cardinality(S) <= Cardinality(T)
         /\ \A x \in Attempts :
              S \subseteq T \cup {x} => Cardinality(S) <= Cardinality(T) + 1
         /\ \A x \in T :
              S \subseteq T \ {x} => Cardinality(S) + 1 <= Cardinality(T)
<1>1. IsFiniteSet(S) /\ IsFiniteSet(T)
  BY WebhookAssumption, FS_Subset
<1>2. Cardinality(S) \in Nat /\ Cardinality(T) \in Nat
  BY <1>1, FS_CardinalityType
<1>3. S \subseteq T => Cardinality(S) <= Cardinality(T)
  BY <1>1, FS_Subset
<1>4. ASSUME NEW x \in Attempts, S \subseteq T \cup {x}
      PROVE  Cardinality(S) <= Cardinality(T) + 1
  <2>1. /\ IsFiniteSet(T \cup {x})
        /\ Cardinality(T \cup {x}) = Cardinality(T) \/
           Cardinality(T \cup {x}) = Cardinality(T) + 1
    BY <1>1, FS_AddElement
  <2>2. Cardinality(S) <= Cardinality(T \cup {x})
    BY <1>4, <2>1, FS_Subset
  <2> QED
    BY <1>2, <2>1, <2>2
<1>5. ASSUME NEW x \in T, S \subseteq T \ {x}
      PROVE  Cardinality(S) + 1 <= Cardinality(T)
  <2>1. /\ IsFiniteSet(T \ {x})
        /\ Cardinality(T \ {x}) = Cardinality(T) - 1
    BY <1>1, FS_RemoveElement
  <2>2. Cardinality(S) <= Cardinality(T \ {x})
    BY <1>5, <2>1, FS_Subset
  <2> QED
    BY <1>2, <2>1, <2>2
<1> QED
  BY <1>2, <1>3, <1>4, <1>5

LEMMA SetsOfAttempts ==
  ASSUME NEW d
  PROVE  /\ LateOn(d) \subseteq Attempts /\ Reopening(d) \subseteq Attempts
         /\ Unposted(d) \subseteq Attempts
         /\ LateOn(d)' \subseteq Attempts /\ Reopening(d)' \subseteq Attempts
         /\ Unposted(d)' \subseteq Attempts
BY DEF LateOn, Reopening, Unposted

LEMMA InitEstablishesCountInv == Init => CountInv
<1> SUFFICES ASSUME Init, NEW d \in Deliveries PROVE Balanced(d)
  BY DEF CountInv
<1>1. \A a \in Attempts : ~Works(a, d)
  BY DEF Init, Works, Posting
<1>2. ~Stored(d) /\ overtaken[d] = 0
  BY DEF Init, Stored
<1>3. LateOn(d) = {}
  BY <1>1 DEF LateOn
<1> QED
  BY <1>1, <1>2, <1>3, FS_EmptySet DEF Balanced

(* What the numbers need to know about the sets.                           *)
LEMMA BalanceKept ==
  ASSUME TypeInv, TypeInv', NEW d \in Deliveries, Balanced(d), Stored(d),
         UNCHANGED <<tries[d], overtaken[d], delivery[d].attemptCount>>,
         crashes' \in {crashes, crashes + 1},
         Stored(d)',
         LateOn(d)' \subseteq LateOn(d),
         Unposted(d)' \subseteq Unposted(d),
         \A a \in Attempts :
           (/\ Works(a, d)' /\ ~attempt'[a].late
            /\ attempt'[a].stage \in {"posting", "rejected"}) =>
             attempt'[a].count = delivery'[d].attemptCount,
         \/ Reopening(d)' \subseteq Reopening(d) /\ Claims(d)' = Claims(d)
         \/ /\ Reopening(d)' \subseteq Reopening(d)
            /\ crashes' = crashes + 1 /\ Claims(d)' <= Claims(d) + 1
         \/ /\ \E a \in Reopening(d) : Reopening(d)' \subseteq Reopening(d) \ {a}
            /\ Claims(d)' <= Claims(d) + 1
         \/ Reopening(d)' \subseteq Reopening(d) /\ Claims(d)' <= Claims(d)
  PROVE  Balanced(d)'
<1> DEFINE l == Cardinality(LateOn(d))  l1 == Cardinality(LateOn(d)')
           r == Cardinality(Reopening(d))  r1 == Cardinality(Reopening(d)')
           u == Cardinality(Unposted(d))  u1 == Cardinality(Unposted(d)')
<1>1. l1 <= l /\ u1 <= u /\ r1 <= r
  BY SetsOfAttempts, SubsetsOfAttempts
<1>2. /\ l \in Nat /\ l1 \in Nat /\ r \in Nat /\ r1 \in Nat
      /\ u \in Nat /\ u1 \in Nat
  BY SetsOfAttempts, SubsetsOfAttempts
<1>3. /\ tries[d] \in Nat /\ overtaken[d] \in Nat /\ crashes \in Nat
      /\ delivery[d].attemptCount \in Nat /\ MaxAttempts \in Nat
  BY WebhookAssumption DEF TypeInv, TypeOK, Stored, Row
<1>4. Claims(d) \in Nat /\ Claims(d)' \in Nat
  BY <1>3 DEF Claims
<1>5. \/ r1 <= r /\ Claims(d)' <= Claims(d)
      \/ r1 <= r /\ crashes' = crashes + 1 /\ Claims(d)' <= Claims(d) + 1
      \/ r1 + 1 <= r /\ Claims(d)' <= Claims(d) + 1
  <2>1. ASSUME NEW a \in Reopening(d), Reopening(d)' \subseteq Reopening(d) \ {a}
        PROVE  r1 + 1 <= r
    BY <2>1, SetsOfAttempts, SubsetsOfAttempts
  <2> QED
    BY <1>1, <1>4, <2>1
<1>6. Claims(d)' + r1 <= MaxAttempts + crashes' + overtaken[d]
  <2>1. Claims(d) + r <= MaxAttempts + crashes + overtaken[d]
    BY DEF Balanced
  <2> HIDE DEF r, r1
  <2> QED
    BY <1>2, <1>3, <1>4, <1>5, <2>1
<1>7. tries[d] + u1 <= delivery[d].attemptCount + overtaken[d]
  <2>1. tries[d] + u <= delivery[d].attemptCount + overtaken[d]
    BY DEF Balanced
  <2> HIDE DEF u, u1
  <2> QED
    BY <1>1, <1>2, <1>3, <2>1
<1>8. l1 <= overtaken[d]
  <2>1. l <= overtaken[d]
    BY DEF Balanced
  <2> HIDE DEF l, l1
  <2> QED
    BY <1>1, <1>2, <1>3, <2>1
<1> QED
  BY <1>6, <1>7, <1>8 DEF Balanced

(* A step that is not about d leaves its numbers alone.                    *)
LEMMA OthersStayBalanced ==
  ASSUME TypeInv, NEW d \in Deliveries, Balanced(d),
         \A a \in Attempts :
           /\ Works(a, d)' <=> Works(a, d)
           /\ Works(a, d) => attempt'[a] = attempt[a],
         UNCHANGED <<delivery[d], tries[d], overtaken[d]>>,
         crashes' \in {crashes, crashes + 1}
  PROVE  Balanced(d)'
<1>1. /\ LateOn(d)' = LateOn(d)
      /\ Reopening(d)' = Reopening(d)
      /\ Unposted(d)' = Unposted(d)
  <2>1. \A a \in Attempts : a \in LateOn(d)' <=> a \in LateOn(d)
    BY DEF LateOn
  <2>2. LateOn(d)' = LateOn(d)
    BY <2>1, SetsOfAttempts
  <2>3. \A a \in LateOn(d) : MayReopen(a, d)' <=> MayReopen(a, d)
    BY DEF LateOn, MayReopen
  <2>4. Reopening(d)' = Reopening(d)
    BY <2>2, <2>3 DEF Reopening
  <2>5. \A a \in Attempts : a \in Unposted(d)' <=> a \in Unposted(d)
    BY DEF Unposted
  <2> QED
    BY <2>2, <2>4, <2>5, SetsOfAttempts
<1>2. Claims(d)' = Claims(d) /\ (Stored(d)' <=> Stored(d))
  <2>1. Held(d)' <=> Held(d)
    BY DEF Held
  <2> QED
    BY <2>1 DEF Claims, Stored
<1>3. \A a \in Attempts :
        (/\ Works(a, d)' /\ ~attempt'[a].late
         /\ attempt'[a].stage \in {"posting", "rejected"}) =>
          attempt'[a].count = delivery'[d].attemptCount
  BY DEF Balanced
<1>4. ASSUME Stored(d)
      PROVE  Claims(d)' + Cardinality(Reopening(d)') <=
               MaxAttempts + crashes' + overtaken'[d]
  <2>1. /\ overtaken[d] \in Nat /\ crashes \in Nat /\ MaxAttempts \in Nat
        /\ delivery[d].attemptCount \in Nat
    BY <1>4, WebhookAssumption DEF TypeInv, TypeOK, Stored, Row
  <2>2. Claims(d) \in Nat /\ Cardinality(Reopening(d)) \in Nat
    BY <2>1, SetsOfAttempts, SubsetsOfAttempts DEF Claims
  <2>3. Claims(d) + Cardinality(Reopening(d)) <= MaxAttempts + crashes + overtaken[d]
    BY <1>4 DEF Balanced
  <2> QED
    BY <1>1, <1>2, <2>1, <2>2, <2>3
<1> QED
  BY <1>1, <1>2, <1>3, <1>4 DEF Balanced

(* The attempt that becomes late is counted.                               *)
LEMMA OvertakingIsCounted ==
  ASSUME OwnInv, NEW d \in Deliveries, Balanced(d), Overtake(d)
  PROVE  /\ Cardinality(LateOn(d)') <= overtaken'[d]
         /\ Unposted(d)' = Unposted(d)
         /\ Held(d) => overtaken'[d] = overtaken[d] + 1
         /\ ~Held(d) => overtaken'[d] = overtaken[d]
         /\ ~Held(d)'
         /\ \A a \in Attempts : Works(a, d)' <=> Works(a, d)
         /\ \A a \in Attempts : Works(a, d)' => attempt'[a].late
         /\ Held(d) =>
              \E a \in Attempts :
                /\ Works(a, d) /\ ~attempt[a].late
                /\ LateOn(d)' \subseteq LateOn(d) \cup {a}
         /\ ~Held(d) => LateOn(d)' \subseteq LateOn(d)
<1> USE NoRowAssumption DEF OwnInv
<1>1. \A a \in Attempts :
        /\ Works(a, d)' <=> Works(a, d)
        /\ Works(a, d)' => attempt'[a].late /\ attempt'[a].stage = attempt[a].stage
  BY OvertakeMarks DEF Works, Posting
<1>2. /\ Held(d) => overtaken'[d] = overtaken[d] + 1
      /\ ~Held(d) => overtaken'[d] = overtaken[d]
  BY DEF Overtake, TypeInv, TypeOK
<1>3. Unposted(d)' = Unposted(d)
  BY <1>1 DEF Unposted
<1>4. ~Held(d)'
  BY <1>1 DEF Held
<1>5. ~Held(d) => LateOn(d)' \subseteq LateOn(d)
  BY <1>1 DEF LateOn, Held
<1>6. ASSUME Held(d)
      PROVE  \E a \in Attempts :
               /\ Works(a, d) /\ ~attempt[a].late
               /\ LateOn(d)' \subseteq LateOn(d) \cup {a}
  <2>1. PICK a \in Attempts : Works(a, d) /\ ~attempt[a].late
    BY <1>6 DEF Held
  <2>2. \A b \in Attempts : Works(b, d) => b = a \/ attempt[b].late
    BY <2>1 DEF OneAttemptAtATime
  <2>3. LateOn(d)' \subseteq LateOn(d) \cup {a}
    BY <1>1, <2>2 DEF LateOn
  <2> QED
    BY <2>1, <2>3
<1>7. Cardinality(LateOn(d)') <= overtaken'[d]
  <2>1. Cardinality(LateOn(d)) <= overtaken[d] /\ overtaken[d] \in Nat
    BY DEF Balanced, TypeInv, TypeOK
  <2>2. Cardinality(LateOn(d)) \in Nat /\ Cardinality(LateOn(d)') \in Nat
    BY SetsOfAttempts, SubsetsOfAttempts
  <2>3. Held(d) => Cardinality(LateOn(d)') <= Cardinality(LateOn(d)) + 1
    BY <1>6, SetsOfAttempts, SubsetsOfAttempts
  <2>4. ~Held(d) => Cardinality(LateOn(d)') <= Cardinality(LateOn(d))
    BY <1>5, SetsOfAttempts, SubsetsOfAttempts
  <2> QED
    BY <1>2, <2>1, <2>2, <2>3, <2>4
<1> QED
  BY <1>1, <1>2, <1>3, <1>4, <1>5, <1>6, <1>7

LEMMA StoringStaysBalanced ==
  ASSUME OwnInv, TypeInv', NEW d \in Deliveries, Balanced(d), StoreRow(d)
  PROVE  Balanced(d)'
<1> USE DEF OwnInv
<1>1. Overtake(d)
  BY DEF StoreRow
<1>2. /\ delivery'[d] = FreshRow /\ tries'[d] = 0 /\ crashes' = crashes
  BY DEF StoreRow, TypeInv, TypeOK
<1>3. /\ Cardinality(LateOn(d)') <= overtaken'[d]
      /\ \A a \in Attempts : Works(a, d)' => attempt'[a].late
  BY <1>1, OvertakingIsCounted
<1>4. /\ overtaken'[d] \in Nat /\ crashes \in Nat /\ MaxAttempts \in Nat \ {0}
  BY WebhookAssumption DEF TypeInv, TypeOK
<1>5. Claims(d)' = MaxAttempts
  BY <1>2, <1>4 DEF Claims, FreshRow
<1>6. Reopening(d)' \subseteq LateOn(d)' /\ Unposted(d)' \subseteq LateOn(d)'
  BY <1>3 DEF Reopening, Unposted, LateOn
<1>7. /\ Cardinality(Reopening(d)') <= Cardinality(LateOn(d)')
      /\ Cardinality(Unposted(d)') <= Cardinality(LateOn(d)')
  BY <1>6, SetsOfAttempts, SubsetsOfAttempts
<1>8. /\ Cardinality(LateOn(d)') \in Nat /\ Cardinality(Reopening(d)') \in Nat
      /\ Cardinality(Unposted(d)') \in Nat
  BY SetsOfAttempts, SubsetsOfAttempts
<1>9. /\ Claims(d)' + Cardinality(Reopening(d)') <=
           MaxAttempts + crashes' + overtaken'[d]
      /\ tries'[d] + Cardinality(Unposted(d)') <=
           delivery'[d].attemptCount + overtaken'[d]
  BY <1>2, <1>3, <1>4, <1>5, <1>7, <1>8 DEF FreshRow
<1> QED
  BY <1>3, <1>9 DEF Balanced

LEMMA BecomingDueStaysBalanced ==
  ASSUME OwnInv, NEW d \in Deliveries, Balanced(d), BecomeDue(d)
  PROVE  Balanced(d)'
<1> USE DEF OwnInv
<1>1. /\ Overtake(d) /\ Stored(d) /\ delivery[d].status = "PENDING"
      /\ UNCHANGED <<delivery, tries, crashes>>
  BY DEF BecomeDue
<1>2. /\ Cardinality(LateOn(d)') <= overtaken'[d]
      /\ Unposted(d)' = Unposted(d)
      /\ Held(d) => overtaken'[d] = overtaken[d] + 1
      /\ ~Held(d) => overtaken'[d] = overtaken[d]
      /\ ~Held(d)'
      /\ \A a \in Attempts : Works(a, d)' => attempt'[a].late
  BY <1>1, OvertakingIsCounted
<1>3. /\ overtaken[d] \in Nat /\ crashes \in Nat /\ MaxAttempts \in Nat
      /\ delivery[d].attemptCount \in Nat /\ tries[d] \in Nat
  BY <1>1, WebhookAssumption DEF TypeInv, TypeOK, Stored, Row
<1>4. /\ Claims(d) + Cardinality(Reopening(d)) <= MaxAttempts + crashes + overtaken[d]
      /\ tries[d] + Cardinality(Unposted(d)) <=
           delivery[d].attemptCount + overtaken[d]
  BY <1>1 DEF Balanced
<1>5. /\ Cardinality(Reopening(d)) \in Nat /\ Cardinality(Reopening(d)') \in Nat
      /\ Cardinality(Unposted(d)) \in Nat
  BY SetsOfAttempts, SubsetsOfAttempts
<1>6. \A a \in LateOn(d) : MayReopen(a, d)' <=> MayReopen(a, d)
  BY <1>1, OvertakeMarks DEF LateOn, MayReopen, Works, Posting
<1>7. ASSUME ~Held(d)
      PROVE  /\ Cardinality(Reopening(d)') <= Cardinality(Reopening(d))
             /\ Claims(d)' = Claims(d)
  <2>1. LateOn(d)' \subseteq LateOn(d)
    BY <1>1, <1>7, OvertakingIsCounted
  <2>2. Reopening(d)' \subseteq Reopening(d)
    BY <1>6, <2>1 DEF Reopening
  <2> QED
    BY <1>1, <1>2, <1>7, <2>2, SetsOfAttempts, SubsetsOfAttempts DEF Claims
<1>8. ASSUME Held(d)
      PROVE  Claims(d)' + Cardinality(Reopening(d)') <=
               Claims(d) + Cardinality(Reopening(d)) + 1
  <2>1. PICK a \in Attempts : /\ Works(a, d) /\ ~attempt[a].late
                              /\ LateOn(d)' \subseteq LateOn(d) \cup {a}
    BY <1>1, <1>8, OvertakingIsCounted
  <2>2. CASE delivery[d].attemptCount < MaxAttempts
    <3>1. Claims(d)' = MaxAttempts /\ Claims(d) = MaxAttempts
      BY <1>1, <2>2 DEF Claims
    <3>2. Reopening(d)' \subseteq Reopening(d) \cup {a}
      BY <1>6, <2>1 DEF Reopening
    <3>3. Cardinality(Reopening(d)') <= Cardinality(Reopening(d)) + 1
      BY <3>2, SetsOfAttempts, SubsetsOfAttempts
    <3> QED
      BY <1>3, <1>5, <3>1, <3>3
  <2>3. CASE ~(delivery[d].attemptCount < MaxAttempts)
    <3>1. ~MayReopen(a, d)'
      <4>1. /\ attempt'[a].stage = attempt[a].stage
            /\ attempt'[a].count = attempt[a].count
        BY <1>1, <2>1, OvertakeMarks DEF Works, Posting
      <4>2. attempt[a].stage \in {"posting", "rejected"} =>
              attempt[a].count = delivery[d].attemptCount
        BY <2>1 DEF Balanced
      <4> QED
        BY <1>1, <2>3, <4>1, <4>2 DEF MayReopen
    <3>2. Reopening(d)' \subseteq Reopening(d)
      BY <1>6, <2>1, <3>1 DEF Reopening
    <3>3. Cardinality(Reopening(d)') <= Cardinality(Reopening(d))
      BY <3>2, SetsOfAttempts, SubsetsOfAttempts
    <3>4. /\ Claims(d) = delivery[d].attemptCount
          /\ Claims(d)' = delivery[d].attemptCount + 1
      BY <1>1, <1>2, <1>8, <2>3 DEF Claims
    <3> QED
      BY <1>3, <1>5, <3>3, <3>4
  <2> QED
    BY <2>2, <2>3
<1>9. Claims(d) \in Nat /\ Claims(d)' \in Nat
  BY <1>1, <1>3 DEF Claims
<1>10. Claims(d)' + Cardinality(Reopening(d)') <= MaxAttempts + crashes + overtaken'[d]
  BY <1>2, <1>3, <1>4, <1>5, <1>7, <1>8, <1>9
<1>11. tries[d] + Cardinality(Unposted(d)') <= delivery[d].attemptCount + overtaken'[d]
  BY <1>2, <1>3, <1>4, <1>5
<1> QED
  BY <1>1, <1>2, <1>10, <1>11 DEF Balanced

LEMMA ClaimingStaysBalanced ==
  ASSUME OwnInv, NEW d \in Deliveries, Balanced(d), NEW c \in Attempts, Claim(c, d)
  PROVE  Balanced(d)'
<1> USE DEF OwnInv
<1>1. /\ attempt'[c] = [id |-> d, stage |-> "claimed", count |-> 0,
                        late |-> FALSE, shared |-> Busy(d)]
      /\ \A b \in Attempts \ {c} : attempt'[b] = attempt[b]
      /\ attempt[c] = NoRow
      /\ d \in due /\ Stored(d) /\ delivery[d].status = "PENDING"
      /\ delivery[d] \in Row
      /\ delivery'[d].status = "PENDING"
      /\ delivery'[d].attemptCount = delivery[d].attemptCount + 1
      /\ UNCHANGED <<overtaken, tries, crashes>>
  BY DEF Claim, Claimable, Claimed, history, TypeInv, TypeOK, Stored, Row
<1>2. /\ \A b \in Attempts \ {c} : Works(b, d)' <=> Works(b, d)
      /\ Works(c, d)' /\ ~Works(c, d) /\ ~attempt'[c].late
      /\ attempt'[c].stage = "claimed"
  <2>1. Busy(d) \in BOOLEAN
    BY DEF Busy
  <2>2. attempt'[c] \in Attempt
    BY <1>1, <2>1 DEF Attempt, Stages
  <2>3. attempt'[c] # NoRow /\ attempt'[c].id = d /\ ~attempt'[c].late
    <3>1. attempt'[c].late = FALSE /\ attempt'[c].id = d
      <4> HIDE DEF Busy
      <4> QED
        BY <1>1
    <3>2. attempt'[c] # NoRow
      BY <2>2, NoRowAssumption
    <3> QED
      BY <3>1, <3>2
  <2>4. attempt'[c].stage = "claimed"
    BY <1>1
  <2>5. Works(c, d)' /\ ~Works(c, d)
    BY <1>1, <2>3, <2>4 DEF Works, Posting
  <2>6. \A b \in Attempts \ {c} : Works(b, d)' <=> Works(b, d)
    BY <1>1 DEF Works, Posting
  <2> QED
    BY <2>3, <2>4, <2>5, <2>6
<1>3. \A b \in Attempts : Works(b, d) => attempt[b].late
  BY <1>1 DEF OwnsRow
<1>4. Held(d)' /\ ~Held(d)
  BY <1>2, <1>3 DEF Held
<1>5. LateOn(d)' = LateOn(d)
  BY <1>1, <1>2 DEF LateOn
<1>6. delivery[d].attemptCount \in Nat /\ MaxAttempts \in Nat
  BY <1>1, WebhookAssumption DEF Row
<1>7. Reopening(d)' \subseteq Reopening(d)
  <2>1. ASSUME NEW b \in LateOn(d), MayReopen(b, d)' PROVE MayReopen(b, d)
    <3>1. attempt'[b] = attempt[b]
      BY <1>1, <1>2 DEF LateOn
    <3> QED
      BY <1>1, <1>6, <2>1, <3>1 DEF MayReopen
  <2> QED
    BY <1>5, <2>1 DEF Reopening
<1>8. Unposted(d)' \subseteq Unposted(d) \cup {c}
  BY <1>1, <1>2 DEF Unposted
<1>9. Claims(d)' = Claims(d)
  BY <1>1, <1>4, <1>6 DEF Claims
<1>10. /\ Cardinality(Reopening(d)') <= Cardinality(Reopening(d))
       /\ Cardinality(Unposted(d)') <= Cardinality(Unposted(d)) + 1
       /\ Cardinality(Reopening(d)) \in Nat /\ Cardinality(Reopening(d)') \in Nat
       /\ Cardinality(Unposted(d)) \in Nat /\ Cardinality(Unposted(d)') \in Nat
  BY <1>7, <1>8, SetsOfAttempts, SubsetsOfAttempts
<1>11. /\ Claims(d) + Cardinality(Reopening(d)) <= MaxAttempts + crashes + overtaken[d]
       /\ tries[d] + Cardinality(Unposted(d)) <=
            delivery[d].attemptCount + overtaken[d]
       /\ Cardinality(LateOn(d)) <= overtaken[d]
  BY <1>1 DEF Balanced
<1>12. /\ Claims(d) \in Nat /\ crashes \in Nat /\ overtaken[d] \in Nat
       /\ tries[d] \in Nat
  BY <1>1, <1>6 DEF Claims, TypeInv, TypeOK
<1>13. /\ Claims(d)' + Cardinality(Reopening(d)') <=
            MaxAttempts + crashes' + overtaken'[d]
       /\ tries'[d] + Cardinality(Unposted(d)') <=
            delivery'[d].attemptCount + overtaken'[d]
  BY <1>1, <1>6, <1>9, <1>10, <1>11, <1>12
<1>14. \A a \in Attempts :
         (/\ Works(a, d)' /\ ~attempt'[a].late
          /\ attempt'[a].stage \in {"posting", "rejected"}) =>
           attempt'[a].count = delivery'[d].attemptCount
  BY <1>1, <1>2, <1>3
<1> QED
  BY <1>1, <1>5, <1>11, <1>13, <1>14 DEF Balanced

LEMMA StepsStayBalanced ==
  ASSUME OwnInv, TypeInv', NEW d \in Deliveries, Balanced(d), NEW c \in Attempts,
         Works(c, d), Steps(c) \/ Crash(c)
  PROVE  Balanced(d)'
<1> USE NoRowAssumption DEF OwnInv
<1>1. /\ attempt[c] \in Attempt
      /\ \A b \in Attempts \ {c} : attempt'[b] = attempt[b]
      /\ Posting(c)' =>
           /\ Posting(c)
           /\ attempt'[c].id = attempt[c].id
           /\ attempt'[c].late = attempt[c].late
           /\ UNCHANGED delivery
      /\ UNCHANGED overtaken
  BY AttemptKeeps
<1>2. /\ Stored(d) /\ delivery[d] \in Row /\ attempt[c].id = d
      /\ delivery[d].attemptCount \in Nat
      /\ crashes \in Nat /\ MaxAttempts \in Nat
  BY WebhookAssumption DEF Works, Posting, TypeInv, TypeOK, Stored, Row
<1>3. \A b \in Attempts :
        Works(b, d)' => /\ Works(b, d)
                        /\ attempt'[b].late = attempt[b].late
  BY <1>1 DEF Works, Posting
<1>4. LateOn(d)' \subseteq LateOn(d)
  BY <1>3 DEF LateOn
<1>5. ASSUME ~Posting(c)', delivery'[d].attemptCount = delivery[d].attemptCount
      PROVE  /\ Reopening(d)' \subseteq Reopening(d) \ {c}
             /\ Unposted(d)' \subseteq Unposted(d)
             /\ \A a \in Attempts :
                  (/\ Works(a, d)' /\ ~attempt'[a].late
                   /\ attempt'[a].stage \in {"posting", "rejected"}) =>
                    attempt'[a].count = delivery'[d].attemptCount
  <2>1. \A b \in Attempts : Works(b, d)' => b # c /\ attempt'[b] = attempt[b]
    BY <1>1, <1>5 DEF Works
  <2>2. Reopening(d)' \subseteq Reopening(d) \ {c}
    BY <1>3, <1>5, <2>1 DEF Reopening, LateOn, MayReopen
  <2>3. Unposted(d)' \subseteq Unposted(d)
    BY <1>3, <2>1 DEF Unposted
  <2> QED
    BY <1>3, <1>5, <2>1, <2>2, <2>3 DEF Balanced
<1>6. CASE ReadRow(c)
  <2>1. PICK stage \in {"posting", "refused"} :
          attempt' = [attempt EXCEPT ![c].count = delivery[attempt[c].id].attemptCount,
                                     ![c].stage = stage]
    BY <1>6 DEF ReadRow
  <2>2. /\ attempt[c].stage = "claimed"
        /\ UNCHANGED <<delivery, tries, crashes>>
    BY <1>6 DEF ReadRow, Running, rows, history
  <2>3. /\ attempt'[c] \in Attempt
        /\ attempt'[c].count = delivery[d].attemptCount
        /\ attempt'[c].stage = stage
        /\ attempt'[c].id = d /\ attempt'[c].late = attempt[c].late
    BY <1>1, <1>2, <2>1 DEF Attempt, Stages, TypeInv, TypeOK
  <2>4. Works(c, d)'
    BY <2>3 DEF Works, Posting
  <2>5. \A b \in Attempts : Works(b, d)' <=> Works(b, d)
    BY <1>1, <1>3, <2>4 DEF Works, Posting
  <2>6. Held(d)' <=> Held(d)
    BY <1>3, <2>5 DEF Held
  <2>7. \A b \in LateOn(d) : MayReopen(b, d)' => MayReopen(b, d)
    BY <1>1, <2>2, <2>3 DEF MayReopen, LateOn
  <2>8. Reopening(d)' \subseteq Reopening(d)
    BY <1>4, <2>7 DEF Reopening
  <2>9. Unposted(d)' \subseteq Unposted(d)
    BY <1>1, <1>3, <2>2 DEF Unposted
  <2>10. Claims(d)' = Claims(d)
    BY <2>2, <2>6 DEF Claims
  <2>11. \A a \in Attempts :
           (/\ Works(a, d)' /\ ~attempt'[a].late
            /\ attempt'[a].stage \in {"posting", "rejected"}) =>
             attempt'[a].count = delivery'[d].attemptCount
    BY <1>1, <1>3, <2>2, <2>3 DEF Balanced
  <2> QED
    BY <1>1, <1>2, <1>4, <2>2, <2>8, <2>9, <2>10, <2>11, BalanceKept DEF Stored
<1>7. ASSUME NEW ok \in BOOLEAN, Post(c, ok) PROVE Balanced(d)'
  <2>1. /\ attempt[c].stage = "posting"
        /\ tries' = [tries EXCEPT ![d] = @ + 1]
        /\ UNCHANGED <<delivery, crashes>>
    BY <1>2, <1>7 DEF Post, Running, rows
  <2>2. PICK stage \in {"accepted", "rejected"} :
          attempt' = [attempt EXCEPT ![c].stage = stage]
    BY <1>7 DEF Post
  <2>3. /\ attempt'[c] \in Attempt
        /\ attempt'[c].count = attempt[c].count
        /\ attempt'[c].stage = stage
        /\ attempt'[c].id = d /\ attempt'[c].late = attempt[c].late
    BY <1>1, <1>2, <2>2 DEF Attempt, Stages, TypeInv, TypeOK
  <2>4. Works(c, d)'
    BY <2>3 DEF Works, Posting
  <2>5. \A b \in Attempts : Works(b, d)' <=> Works(b, d)
    BY <1>1, <1>3, <2>4 DEF Works, Posting
  <2>6. Held(d)' <=> Held(d)
    BY <1>3, <2>5 DEF Held
  <2>7. \A b \in LateOn(d) : MayReopen(b, d)' => MayReopen(b, d)
    BY <1>1, <2>1, <2>3 DEF MayReopen, LateOn
  <2>8. Reopening(d)' \subseteq Reopening(d)
    BY <1>4, <2>7 DEF Reopening
  <2>9. c \in Unposted(d) /\ Unposted(d)' \subseteq Unposted(d) \ {c}
    BY <1>1, <1>3, <2>1, <2>3 DEF Unposted
  <2>10. Claims(d)' = Claims(d)
    BY <2>1, <2>6 DEF Claims
  <2>11. \A a \in Attempts :
           (/\ Works(a, d)' /\ ~attempt'[a].late
            /\ attempt'[a].stage \in {"posting", "rejected"}) =>
             attempt'[a].count = delivery'[d].attemptCount
    BY <1>1, <1>3, <2>1, <2>3 DEF Balanced
  <2>12. /\ Cardinality(Reopening(d)') <= Cardinality(Reopening(d))
         /\ Cardinality(LateOn(d)') <= Cardinality(LateOn(d))
         /\ Cardinality(Unposted(d)') + 1 <= Cardinality(Unposted(d))
         /\ Cardinality(Reopening(d)) \in Nat /\ Cardinality(Reopening(d)') \in Nat
         /\ Cardinality(Unposted(d)) \in Nat /\ Cardinality(Unposted(d)') \in Nat
         /\ Cardinality(LateOn(d)) \in Nat /\ Cardinality(LateOn(d)') \in Nat
    BY <1>4, <2>8, <2>9, SetsOfAttempts, SubsetsOfAttempts
  <2>13. /\ Claims(d) + Cardinality(Reopening(d)) <=
              MaxAttempts + crashes + overtaken[d]
         /\ tries[d] + Cardinality(Unposted(d)) <=
              delivery[d].attemptCount + overtaken[d]
         /\ Cardinality(LateOn(d)) <= overtaken[d]
    BY <1>2 DEF Balanced
  <2>14. /\ Claims(d) \in Nat /\ overtaken[d] \in Nat /\ tries[d] \in Nat
         /\ tries'[d] = tries[d] + 1
    BY <1>2, <2>1 DEF Claims, TypeInv, TypeOK
  <2>15. /\ Claims(d)' + Cardinality(Reopening(d)') <=
              MaxAttempts + crashes' + overtaken'[d]
         /\ tries'[d] + Cardinality(Unposted(d)') <=
              delivery'[d].attemptCount + overtaken'[d]
         /\ Cardinality(LateOn(d)') <= overtaken'[d]
    BY <1>1, <1>2, <2>1, <2>10, <2>12, <2>13, <2>14
  <2> QED
    BY <2>11, <2>15 DEF Balanced
<1>8. ASSUME ~Posting(c)', delivery'[d] \in Row,
             delivery'[d].attemptCount = delivery[d].attemptCount,
             UNCHANGED <<tries, crashes>>,
             \/ delivery'[d].status # "PENDING"
             \/ delivery[d].attemptCount < MaxAttempts
             \/ c \in Reopening(d)
      PROVE  Balanced(d)'
  <2>1. /\ Claims(d)' <= Claims(d) + 1
        /\ c \notin Reopening(d) => Claims(d)' <= Claims(d)
    BY <1>2, <1>8 DEF Claims
  <2>2. /\ Reopening(d)' \subseteq Reopening(d) \ {c}
        /\ Unposted(d)' \subseteq Unposted(d)
        /\ \A a \in Attempts :
             (/\ Works(a, d)' /\ ~attempt'[a].late
              /\ attempt'[a].stage \in {"posting", "rejected"}) =>
               attempt'[a].count = delivery'[d].attemptCount
    BY <1>5, <1>8
  <2>3. Stored(d)'
    BY <1>8 DEF Stored
  <2>4. CASE c \in Reopening(d)
    BY <1>1, <1>2, <1>4, <1>8, <2>1, <2>2, <2>3, <2>4, BalanceKept
  <2>5. CASE c \notin Reopening(d)
    BY <1>1, <1>2, <1>4, <1>8, <2>1, <2>2, <2>3, <2>5, BalanceKept
  <2> QED
    BY <2>4, <2>5
<1>9. CASE FailRefused(c) \/ RecordAccepted(c)
  <2>1. /\ \E status \in {"FAILED", "DELIVERED"} :
             delivery' = [delivery EXCEPT ![d].status = status]
        /\ ~Posting(c)' /\ UNCHANGED <<tries, crashes>>
    BY <1>2, <1>9 DEF FailRefused, RecordAccepted, Running, Posting, history, TypeInv,
       TypeOK
  <2>2. /\ delivery'[d] \in Row /\ delivery'[d].status # "PENDING"
        /\ delivery'[d].attemptCount = delivery[d].attemptCount
    BY <1>2, <2>1 DEF Row, Status, TypeInv, TypeOK
  <2> QED
    BY <1>8, <2>1, <2>2
<1>10. CASE RecordRejected(c)
  <2>1. /\ attempt[c].stage = "rejected"
        /\ delivery' = [delivery EXCEPT
             ![d].status = IF Terminal(attempt[c].count) THEN "FAILED" ELSE "PENDING"]
        /\ \E after \in {[attempt[c] EXCEPT !.stage = "disable"], NoRow} :
             attempt' = [attempt EXCEPT ![c] = after]
        /\ UNCHANGED <<tries, crashes>>
    BY <1>2, <1>10 DEF RecordRejected, Running, history
  <2>2. ~Posting(c)'
    BY <1>1, <2>1 DEF Posting, Attempt, TypeInv, TypeOK
  <2>3. /\ delivery'[d] \in Row
        /\ delivery'[d].attemptCount = delivery[d].attemptCount
    BY <1>2, <2>1 DEF Row, Status, TypeInv, TypeOK
  <2>4. CASE Terminal(attempt[c].count)
    <3>1. delivery'[d].status = "FAILED"
      <4>1. delivery' = [delivery EXCEPT ![d].status = "FAILED"]
        BY <2>1, <2>4, Zenon
      <4> QED
        BY <1>2, <4>1 DEF Row, TypeInv, TypeOK
    <3> QED
      BY <1>8, <2>1, <2>2, <2>3, <3>1
  <2>5. CASE ~Terminal(attempt[c].count)
    <3>1. attempt[c].count < MaxAttempts
      BY <1>1, <1>2, <2>5 DEF Terminal, Attempt
    <3>2. CASE attempt[c].late
      <4>1. c \in Reopening(d)
        BY <2>1, <3>1, <3>2 DEF Reopening, LateOn, MayReopen
      <4> QED
        BY <1>8, <2>1, <2>2, <2>3, <4>1
    <3>3. CASE ~attempt[c].late
      <4>1. attempt[c].count = delivery[d].attemptCount
        BY <2>1, <3>3 DEF Balanced
      <4> QED
        BY <1>8, <2>1, <2>2, <2>3, <3>1, <4>1
    <3> QED
      BY <3>2, <3>3
  <2> QED
    BY <2>4, <2>5
<1>11. CASE DisableHook(c)
  BY <1>11 DEF DisableHook, Running, Works, Posting
<1>12. CASE Crash(c)
  <2>1. /\ attempt'[c] = NoRow /\ UNCHANGED <<delivery, tries>>
        /\ crashes' = crashes + 1
    BY <1>12 DEF Crash, rows, history, TypeInv, TypeOK
  <2>2. ~Posting(c)'
    BY <2>1 DEF Posting
  <2>3. /\ Reopening(d)' \subseteq Reopening(d) \ {c}
        /\ Unposted(d)' \subseteq Unposted(d)
        /\ \A a \in Attempts :
             (/\ Works(a, d)' /\ ~attempt'[a].late
              /\ attempt'[a].stage \in {"posting", "rejected"}) =>
               attempt'[a].count = delivery'[d].attemptCount
    BY <1>5, <2>1, <2>2
  <2>4. Claims(d)' <= Claims(d) + 1
    BY <1>2, <2>1 DEF Claims
  <2> QED
    BY <1>1, <1>2, <1>4, <2>1, <2>3, <2>4, BalanceKept DEF Stored
<1> QED
  BY <1>6, <1>7, <1>9, <1>10, <1>11, <1>12 DEF Steps

LEMMA StepPreservesCountInv ==
  ASSUME OwnInv, TypeInv', CountInv, [Next]_vars PROVE CountInv'
<1> SUFFICES ASSUME NEW d \in Deliveries PROVE Balanced(d)'
  BY DEF CountInv
<1> USE DEF OwnInv
<1>0. Balanced(d) /\ crashes \in Nat
  BY DEF CountInv, TypeInv, TypeOK
<1>1. CASE Idle
  BY <1>0, <1>1, IdleKeeps, OthersStayBalanced DEF Works, Posting, history
<1>2. ASSUME NEW e \in Deliveries, Overtake(e), e # d
      PROVE  /\ \A a \in Attempts :
                  /\ Works(a, d)' <=> Works(a, d)
                  /\ Works(a, d) => attempt'[a] = attempt[a]
             /\ overtaken'[d] = overtaken[d]
  <2>1. \A a \in Attempts : Works(a, e) => ~Works(a, d)
    BY <1>2 DEF Works
  <2>2. \A a \in Attempts : Works(a, d) => attempt'[a] = attempt[a]
    BY <1>2, <2>1 DEF Overtake
  <2>3. \A a \in Attempts : Works(a, d)' => Works(a, d)
    BY <1>2, OvertakeMarks DEF Works, Posting
  <2>4. \A a \in Attempts : Works(a, d) => Works(a, d)'
    BY <2>2 DEF Works, Posting
  <2> QED
    BY <1>2, <2>2, <2>3, <2>4 DEF Overtake, TypeInv, TypeOK
<1>3. ASSUME NEW e \in Deliveries, StoreRow(e) PROVE Balanced(d)'
  <2>1. CASE e = d
    BY <1>0, <1>3, <2>1, StoringStaysBalanced
  <2>2. CASE e # d
    <3>1. /\ Overtake(e)
          /\ UNCHANGED <<delivery[d], tries[d], crashes>>
      BY <1>3, <2>2 DEF StoreRow, TypeInv, TypeOK
    <3> QED
      BY <1>0, <1>2, <2>2, <3>1, OthersStayBalanced
  <2> QED
    BY <2>1, <2>2
<1>4. ASSUME NEW e \in Deliveries, BecomeDue(e) PROVE Balanced(d)'
  <2>1. CASE e = d
    BY <1>0, <1>4, <2>1, BecomingDueStaysBalanced
  <2>2. CASE e # d
    BY <1>0, <1>2, <1>4, <2>2, OthersStayBalanced DEF BecomeDue
  <2> QED
    BY <2>1, <2>2
<1>5. ASSUME NEW e \in Deliveries, NEW c \in Attempts, Claim(c, e)
      PROVE  Balanced(d)'
  <2>1. CASE e = d
    BY <1>0, <1>5, <2>1, ClaimingStaysBalanced
  <2>2. CASE e # d
    <3>1. /\ attempt'[c].id = e /\ attempt[c] = NoRow
          /\ \A b \in Attempts \ {c} : attempt'[b] = attempt[b]
          /\ UNCHANGED <<delivery[d], tries, overtaken, crashes>>
      BY <1>5, <2>2 DEF Claim, Claimable, Claimed, history, TypeInv, TypeOK
    <3>2. \A a \in Attempts :
            /\ Works(a, d)' <=> Works(a, d)
            /\ Works(a, d) => attempt'[a] = attempt[a]
      BY <2>2, <3>1 DEF Works, Posting
    <3> QED
      BY <1>0, <3>1, <3>2, OthersStayBalanced
  <2> QED
    BY <2>1, <2>2
<1>6. ASSUME NEW c \in Attempts, Steps(c) \/ Crash(c) PROVE Balanced(d)'
  <2>1. CASE Works(c, d)
    BY <1>0, <1>6, <2>1, StepsStayBalanced
  <2>2. CASE ~Works(c, d)
    <3>1. /\ \A b \in Attempts \ {c} : attempt'[b] = attempt[b]
          /\ Posting(c)' => Posting(c) /\ attempt'[c].id = attempt[c].id
          /\ delivery'[d] = delivery[d]
          /\ overtaken'[d] = overtaken[d]
      BY <1>6, <2>2, AttemptKeeps
    <3>2. \A a \in Attempts :
            /\ Works(a, d)' <=> Works(a, d)
            /\ Works(a, d) => attempt'[a] = attempt[a]
      BY <2>2, <3>1 DEF Works, Posting
    <3>3. ASSUME NEW ok \in BOOLEAN, Post(c, ok)
          PROVE  tries'[d] = tries[d] /\ crashes' = crashes
      BY <2>2, <3>3 DEF Post, Running, Works, Posting, TypeInv, TypeOK
    <3>4. tries'[d] = tries[d] /\ crashes' \in {crashes, crashes + 1}
      BY <1>6, <3>3 DEF Steps, ReadRow, FailRefused, RecordAccepted, RecordRejected,
         DisableHook, Crash, history
    <3> QED
      BY <1>0, <3>1, <3>2, <3>4, OthersStayBalanced
  <2> QED
    BY <2>1, <2>2
<1> QED
  BY <1>1, <1>3, <1>4, <1>5, <1>6, StepsByActor

(* A delivery is claimed MAX_ATTEMPTS times, and once more for every       *)
(* attempt that died or was overtaken, and posted once for every claim,    *)
(* and once more for every attempt that was overtaken (attemptCount,       *)
(* terminal in processWebhookDelivery).                                    *)
THEOREM AttemptsAreBounded == Spec => []BoundedByCrashes
<1>1. ASSUME OwnInv, CountInv PROVE BoundedByCrashes
  <2> SUFFICES ASSUME NEW d \in Deliveries, Stored(d)
               PROVE  /\ delivery[d].attemptCount <= MaxAttempts + crashes + overtaken[d]
                      /\ tries[d] <= delivery[d].attemptCount + overtaken[d]
    BY DEF BoundedByCrashes
  <2>1. /\ Claims(d) + Cardinality(Reopening(d)) <=
             MaxAttempts + crashes + overtaken[d]
        /\ tries[d] + Cardinality(Unposted(d)) <=
             delivery[d].attemptCount + overtaken[d]
    BY <1>1 DEF CountInv, Balanced
  <2>2. /\ delivery[d].attemptCount \in Nat /\ overtaken[d] \in Nat
        /\ tries[d] \in Nat /\ crashes \in Nat /\ MaxAttempts \in Nat
    BY <1>1, WebhookAssumption DEF OwnInv, TypeInv, TypeOK, Stored, Row
  <2>3. Cardinality(Reopening(d)) \in Nat /\ Cardinality(Unposted(d)) \in Nat
    BY SetsOfAttempts, SubsetsOfAttempts
  <2>4. Claims(d) \in Nat /\ delivery[d].attemptCount <= Claims(d)
    BY <2>2 DEF Claims
  <2> QED
    BY <2>1, <2>2, <2>3, <2>4
<1>2. OwnInv /\ CountInv /\ [Next]_vars => OwnInv' /\ CountInv'
  BY StepPreservesOwnInv, StepPreservesCountInv DEF OwnInv
<1> QED
  BY <1>1, <1>2, InitEstablishesOwnInv, InitEstablishesCountInv, PTL DEF Spec
=============================================================================
