----------------------------- MODULE Reminders -----------------------------
(***************************************************************************)
(* Private ticket reminders of one user: the worker that every replica     *)
(* runs (src/lib/ticket-reminders.ts) against the owner's requests         *)
(* (src/app/api/tickets/[id]/reminders/route.ts).                          *)
(*                                                                         *)
(* A tick of a worker claims a batch of due rows with a lease token of its *)
(* own, and then, row by row, reads the row (Read), renews the lease       *)
(* (Renew), checks the owner's access (Judge), publishes the reminder in   *)
(* the bell (Publish), mails it (Mail) and records the result (Record).    *)
(* Every write is conditional on the row being PENDING under its token.    *)
(* Dates are reduced to whether they have passed.                          *)
(***************************************************************************)
EXTENDS Naturals, FiniteSets

CONSTANTS
  Ids,             \* ticket_reminders ids
  Workers,         \* the application processes
  Requests,        \* slots for requests of the owner in flight
  None,            \* no row, no token, an idle worker, a free slot
  Lost,            \* the token of a tick that is over
  BatchLimit,      \* LIMIT 10
  PendingLimit,    \* 20 pending reminders
  MaxAttempts,     \* 5 attempts
  LeaseCoversRow,  \* a lease outlives the work on one row, or the worker dies
  MaxFaults,       \* bound: crashes, and leases that end under a live worker
  MaxSaves         \* bound: reminders created, edited or cancelled

ASSUME ReminderAssumption ==
  /\ BatchLimit \in Nat \ {0}
  /\ PendingLimit \in Nat
  /\ MaxAttempts \in Nat \ {0}
  /\ LeaseCoversRow \in BOOLEAN
  /\ MaxFaults \in Nat
  /\ MaxSaves \in Nat

VARIABLES
  reminder,  \* reminder[i]: the row of i, or None
  due,       \* the rows whose scheduledAt and nextAttemptAt have passed
  open,      \* the owner is active and the ticket not in a terminal status
  access,    \* the owner can access the ticket
  worker,    \* worker[w]: the tick w is in, or None
  request,   \* request[q]: the request in slot q, or None
  mails,     \* history: mails[i], mails sent since i was last scheduled
  accepted,  \* history: those of which the provider took a mail of their owner
  faults,    \* faults so far
  saves      \* requests so far

world == <<open, access>>
rows == <<reminder, due>>
history == <<mails, accepted>>
vars == <<rows, world, worker, request, history, faults, saves>>

Status == {"PENDING", "DELIVERED", "FAILED", "CANCELLED"}
Settled == Status \ {"PENDING"}

(* The row.  lease and live are leaseToken and whether leaseUntil is still *)
(* to come.  attempts counts to MaxAttempts + 1: the code tells no larger  *)
(* values apart.                                                           *)
Row ==
  [status : Status, email : BOOLEAN, attempts : 0 .. MaxAttempts + 1,
   lease : Workers \cup {None, Lost}, live : BOOLEAN,
   published : BOOLEAN, emailAccepted : BOOLEAN]

(* The row has been read; its lease renewed; the owner may or may not see  *)
(* the ticket; the bell is published; the mail is sent or not needed.      *)
Handling == {"owned", "denied", "granted", "published", "sent"}
Stages == {"next", "read"} \cup Handling

Tick ==
  [batch : SUBSET Ids, stage : Stages, id : Ids \cup {None},
   seen : Row \cup {None}, isOpen : BOOLEAN, sent : BOOLEAN]

Operations == {"create", "edit", "cancel"}
Request == [op : Operations, id : Ids, locked : BOOLEAN]

ASSUME SentinelAssumption ==
  /\ None # Lost
  /\ {None, Lost} \cap (Workers \cup Ids \cup Row \cup Tick \cup Request) = {}

Init ==
  /\ reminder = [i \in Ids |-> None]
  /\ due = {}
  /\ open \in BOOLEAN
  /\ access \in BOOLEAN
  /\ worker = [w \in Workers |-> None]
  /\ request = [q \in Requests |-> None]
  /\ mails = [i \in Ids |-> 0]
  /\ accepted = {}
  /\ faults = 0
  /\ saves = 0

Stored(i) == reminder[i] # None
Pending(i) == Stored(i) /\ reminder[i].status = "PENDING"
Unleased(i) == reminder[i].lease = None \/ ~reminder[i].live

At(w, stage) == worker[w] # None /\ worker[w].stage = stage
Works(w) == worker[w] # None /\ worker[w].stage \in Handling

\* Mutant: the token is left out of the conditions.
OwnsPending(w, i) == Pending(i)

Owns(w, i) == Pending(i) /\ reminder[i].lease = w

-----------------------------------------------------------------------------
(* The owner's requests.                                                   *)

(* context() and the status check of save(): read once, at the start.      *)
Admit(q, op, i) ==
  /\ request[q] = None
  /\ saves < MaxSaves
  /\ access
  /\ op # "cancel" => open
  /\ IF op = "create"
       THEN /\ ~Stored(i)
            /\ \A p \in Requests : request[p] # None => request[p].id # i
       ELSE Stored(i)
  /\ request' = [request EXCEPT ![q] = [op |-> op, id |-> i, locked |-> FALSE]]
  /\ saves' = saves + 1
  /\ UNCHANGED <<rows, world, worker, history, faults>>

Admitted(q, op) == request[q] # None /\ request[q].op = op
Done(q) == request' = [request EXCEPT ![q] = None]

\* Mutant: no advisory lock.
NobodyWaits == TRUE

LockFree == \A q \in Requests : request[q] # None => ~request[q].locked
HasRoom(n) == n < PendingLimit

(* The advisory lock is taken and the pending rows counted ...             *)
Count(q) ==
  /\ Admitted(q, "create") /\ ~request[q].locked
  /\ LockFree
  /\ IF HasRoom(Cardinality({i \in Ids : Pending(i)}))
       THEN request' = [request EXCEPT ![q].locked = TRUE]
       ELSE Done(q)
  /\ UNCHANGED <<rows, world, worker, history, faults, saves>>

Scheduled(email) ==
  [status |-> "PENDING", email |-> email, attempts |-> 0, lease |-> None,
   live |-> FALSE, published |-> FALSE, emailAccepted |-> FALSE]

Schedule(i, row) ==
  /\ reminder' = [reminder EXCEPT ![i] = row]
  /\ due' = due \ {i}
  /\ mails' = [mails EXCEPT ![i] = 0]
  /\ accepted' = accepted \ {i}

(* ... and the row created, which commits and frees the lock.              *)
Create(q, email) ==
  /\ Admitted(q, "create") /\ request[q].locked
  /\ Schedule(request[q].id, Scheduled(email))
  /\ Done(q)
  /\ UNCHANGED <<world, worker, faults, saves>>

Cancellable(i) == Pending(i) /\ Unleased(i)
Editable(i) == Pending(i) /\ Unleased(i) /\ ~reminder[i].published

Edit(q, email) ==
  LET i == request[q].id
  IN  /\ Admitted(q, "edit")
      /\ Editable(i)
      /\ Schedule(i, [reminder[i] EXCEPT
           !.email = email, !.attempts = 0, !.lease = None, !.live = FALSE])
      /\ Done(q)
      /\ UNCHANGED <<world, worker, faults, saves>>

WithStatus(i, status) ==
  [reminder[i] EXCEPT !.status = status, !.lease = None, !.live = FALSE]

Cancel(q) ==
  LET i == request[q].id
  IN  /\ Admitted(q, "cancel")
      /\ Cancellable(i)
      /\ reminder' = [reminder EXCEPT ![i] = WithStatus(i, "CANCELLED")]
      /\ Done(q)
      /\ UNCHANGED <<due, world, worker, history, faults, saves>>

(* Error 409: the conditional update found no row.                         *)
Refuse(q) ==
  /\ \/ Admitted(q, "edit") /\ ~Editable(request[q].id)
     \/ Admitted(q, "cancel") /\ ~Cancellable(request[q].id)
  /\ Done(q)
  /\ UNCHANGED <<rows, world, worker, history, faults, saves>>

-----------------------------------------------------------------------------
(* Time, the ticket and the owner's rights.                                *)

BecomeDue(i) ==
  /\ Pending(i) /\ i \notin due
  /\ due' = due \cup {i}
  /\ UNCHANGED <<reminder, world, worker, request, history, faults, saves>>

(* leaseUntil passes.  It is a fault when the lease is of a running tick.  *)
EndLease(i) ==
  /\ Pending(i) /\ reminder[i].lease # None /\ reminder[i].live
  /\ IF reminder[i].lease = Lost
       THEN faults' = faults
       ELSE /\ faults < MaxFaults
            /\ LeaseCoversRow => ~(/\ Works(reminder[i].lease)
                                   /\ worker[reminder[i].lease].id = i)
            /\ faults' = faults + 1
  /\ reminder' = [reminder EXCEPT ![i].live = FALSE]
  /\ UNCHANGED <<due, world, worker, request, history, saves>>

ChangeWorld ==
  /\ open' \in BOOLEAN /\ access' \in BOOLEAN
  /\ world' # world
  /\ UNCHANGED <<rows, worker, request, history, faults, saves>>

-----------------------------------------------------------------------------
(* processTicketReminders.                                                 *)

OneMore(n) == IF n <= MaxAttempts THEN n + 1 ELSE n

\* Mutant: the claim ends PENDING.
ClaimedForGood(w, i) ==
  [reminder[i] EXCEPT !.lease = w, !.live = TRUE, !.status = "SENDING"]

Claimable(i) == Pending(i) /\ i \in due /\ Unleased(i)
ClaimedRow(w, i) ==
  [reminder[i] EXCEPT
     !.lease = w, !.live = TRUE, !.attempts = OneMore(@)]

(* SKIP LOCKED may leave out any of the due rows.                          *)
Claim(w, batch) ==
  /\ worker[w] = None
  /\ batch # {} /\ Cardinality(batch) <= BatchLimit
  /\ \A i \in batch : Claimable(i)
  /\ reminder' = [i \in Ids |->
       IF i \in batch THEN ClaimedRow(w, i) ELSE reminder[i]]
  /\ worker' = [worker EXCEPT
       ![w] = [batch |-> batch, stage |-> "next", id |-> None, seen |-> None,
               isOpen |-> FALSE, sent |-> FALSE]]
  /\ UNCHANGED <<due, world, request, history, faults, saves>>

(* The row, its owner and its ticket, read in one query.                   *)
Read(w, i) ==
  /\ At(w, "next") /\ i \in worker[w].batch
  /\ worker' = [worker EXCEPT ![w] =
       IF Owns(w, i)
         THEN [batch |-> @.batch \ {i}, stage |-> "read", id |-> i,
               seen |-> reminder[i], isOpen |-> open, sent |-> FALSE]
         ELSE [worker[w] EXCEPT !.batch = @ \ {i}]]
  /\ UNCHANGED <<rows, world, request, history, faults, saves>>

(* What follows one row: the worker is at stage, or back at its batch.     *)
GoOn(w, stage) == worker' = [worker EXCEPT ![w].stage = stage]
NextRow(w) ==
  worker' = [worker EXCEPT
    ![w].stage = "next", ![w].id = None, ![w].seen = None,
    ![w].isOpen = FALSE, ![w].sent = FALSE]

\* Mutant: the result of the renewal is not looked at.
StillPending(w) == Pending(worker[w].id)

StillOwned(w) == Owns(w, worker[w].id)

(* A conditional update of the row in hand: without effect if it is lost.  *)
UpdateOwned(w, row) ==
  reminder' = IF Owns(w, worker[w].id)
                THEN [reminder EXCEPT ![worker[w].id] = row] ELSE reminder

Renew(w) ==
  /\ At(w, "read")
  /\ UpdateOwned(w, [reminder[worker[w].id] EXCEPT !.live = TRUE])
  /\ IF StillOwned(w) THEN GoOn(w, "owned") ELSE NextRow(w)
  /\ UNCHANGED <<due, world, request, history, faults, saves>>

(* canAccessTicket, after what the row read said.                          *)
Judge(w) ==
  /\ At(w, "owned")
  /\ GoOn(w, IF worker[w].isOpen /\ access THEN "granted" ELSE "denied")
  /\ UNCHANGED <<rows, world, request, history, faults, saves>>

Deny(w) ==
  /\ At(w, "denied")
  /\ UpdateOwned(w, WithStatus(worker[w].id, "CANCELLED"))
  /\ NextRow(w)
  /\ UNCHANGED <<due, world, request, history, faults, saves>>

\* Mutant: the bell is published once the mail has gone.
PublishedRowLate(row) == row

PublishedRow(row) == [row EXCEPT !.published = TRUE]

Publish(w) ==
  /\ At(w, "granted")
  /\ UpdateOwned(w, IF worker[w].seen.published
                      THEN reminder[worker[w].id]
                      ELSE PublishedRow(reminder[worker[w].id]))
  /\ GoOn(w, "published")
  /\ UNCHANGED <<due, world, request, history, faults, saves>>

\* Mutant: one mail too many.
WantsMailAgain(seen) == seen.email /\ ~seen.emailAccepted

WantsMail(seen) ==
  seen.email /\ ~seen.emailAccepted /\ seen.attempts <= MaxAttempts

SkipMail(w) ==
  /\ At(w, "published")
  /\ ~WantsMail(worker[w].seen)
  /\ worker' = [worker EXCEPT
       ![w].stage = "sent", ![w].sent = worker[w].seen.emailAccepted]
  /\ UNCHANGED <<rows, world, request, history, faults, saves>>

(* The provider takes the mail or not; the worker may not get to know.     *)
Mail(w, taken, told) ==
  LET i == worker[w].id
  IN  /\ At(w, "published")
      /\ WantsMail(worker[w].seen)
      /\ told => taken
      /\ mails' = [mails EXCEPT ![i] = @ + 1]
      /\ accepted' = IF taken /\ Owns(w, i) THEN accepted \cup {i} ELSE accepted
      /\ worker' = [worker EXCEPT ![w].stage = "sent", ![w].sent = told]
      /\ UNCHANGED <<rows, world, request, faults, saves>>

\* Mutant: a refused mail is retried for ever.
OutcomeRetried(seen, sent) ==
  IF ~seen.email \/ sent THEN "DELIVERED" ELSE "PENDING"

Outcome(seen, sent) ==
  CASE ~seen.email \/ sent -> "DELIVERED"
    [] seen.email /\ ~sent /\ seen.attempts >= MaxAttempts -> "FAILED"
    [] OTHER -> "PENDING"

Record(w) ==
  LET i == worker[w].id
      tick == worker[w]
  IN  /\ At(w, "sent")
      /\ UpdateOwned(w,
           [WithStatus(i, Outcome(tick.seen, tick.sent)) EXCEPT
              !.emailAccepted = tick.sent])
      /\ due' = IF Owns(w, i) THEN due \ {i} ELSE due
      /\ NextRow(w)
      /\ UNCHANGED <<world, request, history, faults, saves>>

(* A tick is over; no later one has its token.                             *)
EndTick(w) ==
  /\ worker' = [worker EXCEPT ![w] = None]
  /\ reminder' = [i \in Ids |->
       IF Stored(i) /\ reminder[i].lease = w
         THEN [reminder[i] EXCEPT !.lease = Lost] ELSE reminder[i]]
  /\ UNCHANGED <<due, world, request, history, saves>>

Finish(w) ==
  /\ At(w, "next") /\ worker[w].batch = {}
  /\ EndTick(w)
  /\ UNCHANGED faults

(* The process dies, or a query fails and the tick is given up.            *)
Crash(w) ==
  /\ worker[w] # None
  /\ faults < MaxFaults /\ faults' = faults + 1
  /\ EndTick(w)

Steps(w) ==
  \/ \E i \in Ids : Read(w, i)
  \/ Renew(w) \/ Judge(w) \/ Deny(w) \/ Publish(w) \/ SkipMail(w)
  \/ \E taken, told \in BOOLEAN : Mail(w, taken, told)
  \/ Record(w) \/ Finish(w)

ClaimSome(w) == \E batch \in SUBSET Ids : Claim(w, batch)

Next ==
  \/ \E q \in Requests :
       \/ \E op \in Operations, i \in Ids : Admit(q, op, i)
       \/ Count(q) \/ Cancel(q) \/ Refuse(q)
       \/ \E email \in BOOLEAN : Create(q, email) \/ Edit(q, email)
  \/ \E i \in Ids : BecomeDue(i) \/ EndLease(i)
  \/ ChangeWorld
  \/ \E w \in Workers : ClaimSome(w) \/ Steps(w) \/ Crash(w)

Spec == Init /\ [][Next]_vars

(* Time passes, the tick of every minute finds a due row (it takes the     *)
(* longest due first), and a tick that does not crash goes on.             *)
Fairness ==
  /\ \A i \in Ids :
       /\ WF_vars(BecomeDue(i))
       /\ WF_vars(Stored(i) /\ reminder[i].lease = Lost /\ EndLease(i))
       /\ SF_vars(\E w \in Workers, batch \in SUBSET Ids :
                    i \in batch /\ Claim(w, batch))
  /\ \A w \in Workers : WF_vars(Steps(w))

FairSpec == Spec /\ Fairness

-----------------------------------------------------------------------------
(* The shape of the rows, the ticks, the requests and the histories.       *)
TypeOK ==
  /\ reminder \in [Ids -> Row \cup {None}]
  /\ due \subseteq Ids
  /\ open \in BOOLEAN /\ access \in BOOLEAN
  /\ worker \in [Workers -> Tick \cup {None}]
  /\ request \in [Requests -> Request \cup {None}]
  /\ mails \in [Ids -> Nat]
  /\ accepted \subseteq Ids
  /\ faults \in Nat /\ saves \in Nat

(* Between the renewal and the result a worker handles the row that it     *)
(* read: nobody has claimed, edited or cancelled the reminder meanwhile,   *)
(* so no mail goes out for a reminder that is gone or that two workers     *)
(* hold (lease and guarded updates of processTicketReminders); and a       *)
(* schedule is mailed at most MaxAttempts times, however the attempts      *)
(* crash and whichever worker makes them (docs/TICKET_REMINDERS.md:9).     *)
HandledIsOwned ==
  /\ \A w \in Workers :
       Works(w) =>
         LET i == worker[w].id
         IN  /\ Owns(w, i) /\ reminder[i].live
             /\ reminder[i].email = worker[w].seen.email
             /\ reminder[i].attempts = worker[w].seen.attempts
  /\ \A i \in Ids : mails[i] <= MaxAttempts

(* A reminder ends in the bell, also when its mail failed; delivered by    *)
(* mail means that the provider took a mail of the present schedule: a     *)
(* late result of the one before is never recorded.  Both hold even if     *)
(* leases end under the workers (docs/TICKET_REMINDERS.md:9 and the token  *)
(* in processTicketReminders).                                             *)
SettledIsTruthful ==
  \A i \in Ids :
    Stored(i) /\ reminder[i].status \in {"DELIVERED", "FAILED"} =>
      /\ reminder[i].published
      /\ reminder[i].status = "DELIVERED" /\ reminder[i].email => i \in accepted

(* A user never has more than PendingLimit pending reminders, whatever     *)
(* requests run at once (docs/TICKET_REMINDERS.md:5).                      *)
PendingWithinLimit == Cardinality({i \in Ids : Pending(i)}) <= PendingLimit

(* Every reminder is delivered, failed or cancelled in the end, although   *)
(* workers crash (startTicketReminderWorker).                              *)
EventuallySettled ==
  \A i \in Ids : Pending(i) ~> (Stored(i) /\ ~Pending(i))

=============================================================================
