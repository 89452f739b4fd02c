-------------------------- MODULE WebhookDelivery --------------------------
(***************************************************************************)
(* The webhook outbox: src/lib/webhooks.ts and its administration routes,  *)
(* for one webhook.  Every replica runs processWebhookDelivery for the     *)
(* rows that are due; one run of it is an attempt.  An attempt             *)
(*   - claims the row with one conditional UPDATE that also moves          *)
(*     nextAttemptAt past now: the lease                                   *)
(*     (Claim),                                                            *)
(*   - reads the row and its webhook again (ReadRow),                      *)
(*   - posts the body (Post),                                              *)
(*   - records the answer by id, whatever the row has become meanwhile     *)
(*     (RecordAccepted, RecordRejected), and disables a failing webhook    *)
(*     with one more UPDATE (DisableHook).                                 *)
(* Dates are reduced to whether nextAttemptAt has passed.  The lease is    *)
(* the 10 s of the post and 5 s more, and does not bound the queries and   *)
(* the name resolution around the post: it may pass under its attempt,     *)
(* which goes on all the same, and so does one whose row is retried by     *)
(* hand.  Such an attempt is called late.                                  *)
(***************************************************************************)
EXTENDS Naturals, FiniteSets

CONSTANTS
  Deliveries,          \* webhook_deliveries ids
  Attempts,            \* slots for attempts in flight, over all replicas
  NoRow,               \* the delivery has not been stored, the slot is free
  MaxAttempts,         \* MAX_ATTEMPTS
  DisableAfter,        \* DISABLE_AFTER_FAILURES
  MaxCrashes,          \* bound: attempts lost with their process
  MaxChanges,          \* bound: manual retries and changes of the webhook
  MaxOvertaken         \* bound: attempts of a delivery that a lease ends under

ASSUME WebhookAssumption ==
  /\ IsFiniteSet(Attempts)
  /\ MaxAttempts \in Nat \ {0}
  /\ DisableAfter \in Nat \ {0}
  /\ MaxCrashes \in Nat
  /\ MaxChanges \in Nat
  /\ MaxOvertaken \in Nat

VARIABLES
  hook,      \* the webhook row
  delivery,  \* delivery[d]: the row of d, or NoRow
  due,       \* the deliveries whose nextAttemptAt has passed
  attempt,   \* attempt[a]: what attempt a holds, or NoRow
  checked,   \* deliveries whose creator or retrier found the webhook enabled
  tries,     \* history: tries[d], posts since d was stored or retried
  accepted,  \* history: deliveries the receiver has accepted since then, or
             \* before, if its answer is still to be recorded
  overtaken, \* history: overtaken[d], attempts of d that became late
  crashes,   \* crashes so far
  changes    \* manual retries and changes of the webhook so far

rows == <<hook, delivery, due>>
history == <<tries, accepted, overtaken>>
vars == <<rows, attempt, checked, history, crashes, changes>>

Status == {"PENDING", "DELIVERED", "FAILED"}
Stages ==
  {"claimed", "posting", "refused", "accepted", "rejected", "disable"}
Row == [status : Status, attemptCount : Nat]
Attempt == [id : Deliveries, stage : Stages, count : Nat,
            late : BOOLEAN,     \* history: it was overtaken
            shared : BOOLEAN]   \* history: it claimed over a late attempt

ASSUME NoRowAssumption == NoRow \notin Row \cup Attempt

FreshRow == [status |-> "PENDING", attemptCount |-> 0]
Enabled == hook.isActive /\ ~hook.disabledAt

Init ==
  /\ hook = [isActive |-> TRUE, disabledAt |-> FALSE, failureCount |-> 0]
  /\ delivery = [d \in Deliveries |-> NoRow]
  /\ due = {}
  /\ attempt = [a \in Attempts |-> NoRow]
  /\ checked = {}
  /\ tries = [d \in Deliveries |-> 0]
  /\ accepted = {}
  /\ overtaken = [d \in Deliveries |-> 0]
  /\ crashes = 0
  /\ changes = 0

Stored(d) == delivery[d] # NoRow
Running(a, stage) == attempt[a] # NoRow /\ attempt[a].stage = stage
Posting(a) == attempt[a] # NoRow /\ attempt[a].stage # "disable"
Works(a, d) == Posting(a) /\ attempt[a].id = d
Busy(d) == \E a \in Attempts : Works(a, d)
Held(d) == \E a \in Attempts : Works(a, d) /\ ~attempt[a].late
Alone(a) == ~attempt[a].late /\ ~attempt[a].shared
Heard(d) == \E a \in Attempts : Running(a, "accepted") /\ attempt[a].id = d

(* Whoever works on d goes on, but owns it no longer.                      *)
Overtake(d) ==
  /\ attempt' = [a \in Attempts |->
       IF Works(a, d) THEN [attempt[a] EXCEPT !.late = TRUE] ELSE attempt[a]]
  /\ overtaken' = [overtaken EXCEPT ![d] = IF Held(d) THEN @ + 1 ELSE @]

-----------------------------------------------------------------------------
(* fireWebhook, and the test and retry actions of the deliveries route.    *)

(* The webhook is read ...                                                 *)
CheckEnabled(d) ==
  /\ Enabled
  /\ d \notin checked
  /\ Stored(d) => changes < MaxChanges
  /\ checked' = checked \cup {d}
  /\ changes' = IF Stored(d) THEN changes + 1 ELSE changes
  /\ UNCHANGED <<rows, attempt, history, crashes>>

(* ... and the row is stored, due at once, ...                             *)
StoreRow(d) ==
  /\ delivery' = [delivery EXCEPT ![d] = FreshRow]
  /\ due' = due \cup {d}
  /\ Overtake(d)
  /\ tries' = [tries EXCEPT ![d] = 0]
  /\ accepted' = IF Heard(d) THEN accepted ELSE accepted \ {d}
  /\ checked' = checked \ {d}
  /\ UNCHANGED <<hook, crashes, changes>>

Create(d) == d \in checked /\ ~Stored(d) /\ StoreRow(d)

(* ... or reset, whatever its status and whatever an attempt in flight is  *)
(* doing with it.                                                          *)
Retry(d) == d \in checked /\ Stored(d) /\ StoreRow(d)

-----------------------------------------------------------------------------
(* PATCH and DELETE /api/webhooks.                                         *)

ChangeHook(isActive, disabledAt, failureCount) ==
  /\ changes < MaxChanges
  /\ hook' = [isActive |-> isActive, disabledAt |-> disabledAt,
              failureCount |-> failureCount]
  /\ changes' = changes + 1
  /\ UNCHANGED <<delivery, due, attempt, checked, history, crashes>>

Enable == ChangeHook(TRUE, FALSE, 0)
Deactivate == ChangeHook(FALSE, hook.disabledAt, hook.failureCount)
Delete == ChangeHook(FALSE, TRUE, hook.failureCount)

-----------------------------------------------------------------------------
(* processWebhookDelivery.                                                 *)

(* nextAttemptAt of d passes: the retry delay is over, or the lease, with  *)
(* its attempt dead, done or still at work.                                *)
BecomeDue(d) ==
  /\ Stored(d) /\ delivery[d].status = "PENDING" /\ d \notin due
  /\ Held(d) => overtaken[d] < MaxOvertaken
  /\ due' = due \cup {d}
  /\ Overtake(d)
  /\ UNCHANGED <<hook, delivery, checked, tries, accepted, crashes, changes>>

Claimable(a, d) ==
  /\ attempt[a] = NoRow
  /\ Stored(d) /\ delivery[d].status = "PENDING" /\ d \in due

Claimed(a, d, status, stillDue) ==
  /\ delivery' = [delivery EXCEPT
       ![d] = [status |-> status, attemptCount |-> @.attemptCount + 1]]
  /\ due' = stillDue
  /\ attempt' = [attempt EXCEPT
       ![a] = [id |-> d, stage |-> "claimed", count |-> 0,
               late |-> FALSE, shared |-> Busy(d)]]
  /\ UNCHANGED <<hook, checked, history, crashes, changes>>

\* Mutants: the claim takes no lease; it takes the row out of PENDING.
ClaimWithoutLease(a, d) == Claimable(a, d) /\ Claimed(a, d, "PENDING", due)
ClaimForGood(a, d) == Claimable(a, d) /\ Claimed(a, d, "CLAIMED", due \ {d})

Claim(a, d) == Claimable(a, d) /\ Claimed(a, d, "PENDING", due \ {d})

(* attemptCount is that of the row now, not the one the claim wrote.       *)
ReadRow(a) ==
  /\ Running(a, "claimed")
  /\ attempt' = [attempt EXCEPT
       ![a].count = delivery[attempt[a].id].attemptCount,
       ![a].stage = IF Enabled THEN "posting" ELSE "refused"]
  /\ UNCHANGED <<rows, checked, history, crashes, changes>>

FailRefused(a) ==
  /\ Running(a, "refused")
  /\ delivery' = [delivery EXCEPT ![attempt[a].id].status = "FAILED"]
  /\ attempt' = [attempt EXCEPT ![a] = NoRow]
  /\ UNCHANGED <<hook, due, checked, history, crashes, changes>>

(* The receiver answers 2xx (ok), or not: another status, no address, a    *)
(* timeout.                                                                *)
Post(a, ok) ==
  /\ Running(a, "posting")
  /\ attempt' =
       [attempt EXCEPT ![a].stage = IF ok THEN "accepted" ELSE "rejected"]
  /\ tries' = [tries EXCEPT ![attempt[a].id] = @ + 1]
  /\ accepted' = accepted \cup (IF ok THEN {attempt[a].id} ELSE {})
  /\ UNCHANGED <<rows, checked, overtaken, crashes, changes>>

RecordAccepted(a) ==
  /\ Running(a, "accepted")
  /\ delivery' = [delivery EXCEPT ![attempt[a].id].status = "DELIVERED"]
  /\ hook' = [hook EXCEPT !.failureCount = 0]
  /\ attempt' = [attempt EXCEPT ![a] = NoRow]
  /\ UNCHANGED <<due, checked, history, crashes, changes>>

\* Mutant: one attempt too many.
TerminalOneLate(count) == count > MaxAttempts

Terminal(count) == count >= MaxAttempts
Failing(failureCount) == failureCount >= DisableAfter

RecordRejected(a) ==
  LET d == attempt[a].id
  IN  /\ Running(a, "rejected")
      /\ delivery' = [delivery EXCEPT
           ![d].status = IF Terminal(attempt[a].count) THEN "FAILED"
                                                       ELSE "PENDING"]
      /\ due' = due \ {d}
      /\ hook' = [hook EXCEPT !.failureCount = @ + 1]
      /\ attempt' = [attempt EXCEPT
           ![a] = IF Failing(hook.failureCount + 1)
                    THEN [@ EXCEPT !.stage = "disable"] ELSE NoRow]
      /\ UNCHANGED <<checked, history, crashes, changes>>

DisableHook(a) ==
  /\ Running(a, "disable")
  /\ hook' = [hook EXCEPT !.isActive = FALSE, !.disabledAt = TRUE]
  /\ attempt' = [attempt EXCEPT ![a] = NoRow]
  /\ UNCHANGED <<delivery, due, checked, history, crashes, changes>>

(* The process of an attempt dies; the row keeps its lease.                *)
Crash(a) ==
  /\ attempt[a] # NoRow
  /\ crashes < MaxCrashes
  /\ crashes' = crashes + 1
  /\ attempt' = [attempt EXCEPT ![a] = NoRow]
  /\ UNCHANGED <<rows, checked, history, changes>>

Steps(a) ==
  \/ ReadRow(a) \/ FailRefused(a)
  \/ \E ok \in BOOLEAN : Post(a, ok)
  \/ RecordAccepted(a) \/ RecordRejected(a) \/ DisableHook(a)

Next ==
  \/ \E d \in Deliveries :
       \/ CheckEnabled(d) \/ Create(d) \/ Retry(d) \/ BecomeDue(d)
       \/ \E a \in Attempts : Claim(a, d)
  \/ \E a \in Attempts : Steps(a) \/ Crash(a)
  \/ Enable \/ Deactivate \/ Delete

Spec == Init /\ [][Next]_vars

(* Time passes, the worker of some replica finds every due row (it runs    *)
(* every 15 seconds and takes the longest due first), and an attempt that  *)
(* does not crash goes on.                                                 *)
Fairness ==
  /\ \A d \in Deliveries :
       WF_vars(BecomeDue(d)) /\ SF_vars(\E a \in Attempts : Claim(a, d))
  /\ \A a \in Attempts : WF_vars(Steps(a))

FairSpec == Spec /\ Fairness

-----------------------------------------------------------------------------
(* The shape of the rows, the attempts and the histories.                  *)
TypeOK ==
  /\ hook \in [isActive : BOOLEAN, disabledAt : BOOLEAN, failureCount : Nat]
  /\ delivery \in [Deliveries -> Row \cup {NoRow}]
  /\ due \subseteq Deliveries
  /\ attempt \in [Attempts -> Attempt \cup {NoRow}]
  /\ checked \subseteq Deliveries
  /\ tries \in [Deliveries -> Nat]
  /\ accepted \subseteq Deliveries
  /\ overtaken \in [Deliveries -> Nat]
  /\ crashes \in Nat /\ changes \in Nat

(* Replicas compete for the same due rows, and still each time a row is    *)
(* due one attempt gets it: two attempts work on one delivery only when    *)
(* the lease of one of them has passed, or the row was retried by hand     *)
(* under it (the claim of processWebhookDelivery).                         *)
OneAttemptAtATime ==
  \A a, b \in Attempts, d \in Deliveries :
    (Works(a, d) /\ Works(b, d) /\ a # b) => attempt[a].late \/ attempt[b].late

(* A delivered row leaves that status only by a manual retry or by the     *)
(* failure of an attempt that another one overlapped, never by that of an  *)
(* attempt which had the row to itself (the updates by id of               *)
(* processWebhookDelivery).                                                *)
DeliveredStays ==
  [][\A d \in Deliveries :
       (/\ Stored(d) /\ delivery[d].status = "DELIVERED"
        /\ delivery'[d].status # "DELIVERED") =>
         \/ d \in checked \ checked'
         \/ \E a \in Attempts :
              Works(a, d) /\ ~Alone(a) /\ attempt'[a] # attempt[a]]_vars

(* The rows tell what the receiver said.  A DELIVERED row was accepted     *)
(* since it was stored or retried, or by the attempt the retry came        *)
(* across, whatever leases and crashes did.  An accepted one is DELIVERED  *)
(* as soon as the answer is recorded, unless an attempt died or was        *)
(* overtaken.  And without crashes a webhook that reached                  *)
(* DISABLE_AFTER_FAILURES failures in a row is about to be disabled        *)
(* (processWebhookDelivery).                                               *)
StatusIsTruthful ==
  /\ \A d \in Deliveries :
       Stored(d) =>
         /\ delivery[d].status = "DELIVERED" => d \in accepted
         /\ d \in accepted /\ crashes = 0 /\ overtaken[d] = 0 =>
              delivery[d].status = "DELIVERED" \/ Heard(d)
  /\ crashes = 0 /\ Enabled /\ hook.failureCount >= DisableAfter =>
       \E a \in Attempts : Running(a, "disable")

(* Until somebody retries it by hand, a delivery is claimed at most        *)
(* MAX_ATTEMPTS times, and once more for every attempt that died or was    *)
(* overtaken; and the receiver sees it once for every claim, and once more *)
(* for every attempt a retry came across (attemptCount, terminal in        *)
(* processWebhookDelivery).                                                *)
BoundedByCrashes ==
  \A d \in Deliveries :
    Stored(d) =>
      /\ delivery[d].attemptCount <= MaxAttempts + crashes + overtaken[d]
      /\ tries[d] <= delivery[d].attemptCount + overtaken[d]

(* The receiver sees a delivery at most MAX_ATTEMPTS times, until somebody *)
(* retries it by hand (docs/WEBHOOKS_AND_EXTERNAL_API.md:29).              *)
AtMostMaxAttempts == \A d \in Deliveries : tries[d] <= MaxAttempts

(* Every stored delivery is settled in the end, although attempts crash    *)
(* and the webhook is disabled under way (startWebhookDeliveryWorker).     *)
EventuallySettled ==
  \A d \in Deliveries :
    Stored(d) ~> (Stored(d) /\ delivery[d].status \in {"DELIVERED", "FAILED"})

=============================================================================
