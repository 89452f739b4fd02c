--------------------------- MODULE TicketCreation ---------------------------
(***************************************************************************)
(* Creating tickets: src/lib/tickets/create-ticket.ts with the counter of  *)
(* src/lib/ticket-counter.ts and the files uploaded beforehand, for the    *)
(* requests of one user.  A request                                        *)
(*   - looks its idempotency key up (Lookup),                              *)
(*   - checks the rows and then the files of its uploads (CheckRows,       *)
(*     CheckFiles),                                                        *)
(*   - opens a transaction and reads the date (OpenTransaction), reserves  *)
(*     a number under an advisory lock and inserts the ticket (Reserve),   *)
(*     renames its files one by one (Move), and commits (Commit),          *)
(*   - after a failure renames them back as far as it can (Restore,        *)
(*     FailRestore) and, if a unique constraint failed, looks its key up   *)
(*     again (Refetch).                                                    *)
(* Files and rows have no common transaction.  What other users create     *)
(* meets these requests only in the counter, like a request without a key. *)
(***************************************************************************)
EXTENDS Naturals

CONSTANTS
  Requests,     \* requests, and the ids of the tickets they create
  Keys,         \* idempotency keys
  Files,        \* temporary uploads of the user
  Departments,  \* queue ids
  None,         \* no key, no ticket, no counter, a request not yet made
  LastYear,     \* bound: the last year, counted from 0
  MaxFaults     \* bound: crashes, lost answers of commits, files not put back

ASSUME CreationAssumption ==
  /\ LastYear \in Nat
  /\ MaxFaults \in Nat
  /\ None \notin Keys \cup Requests

VARIABLES
  year,      \* the calendar year
  counter,   \* the ticket_counter row, or None
  ticket,    \* ticket[r]: the row that r committed, or None
  uploads,   \* temporary_attachments rows, by file
  expired,   \* uploads whose expiresAt has passed
  place,     \* place[f]: "temp", "gone", or the ticket whose directory has f
  cleaning,  \* cleaning[f]: how far removeExpiredTemporaryFiles is with f
  stranded,  \* files that could not be renamed back
  creation,  \* creation[r]: what the handler of r holds, or None
  lost,      \* history: requests whose commit was answered by an error
  faults     \* faults so far

store == <<uploads, expired, place, cleaning, stranded>>
database == <<counter, ticket>>
vars == <<year, database, store, creation, lost, faults>>

Number == [year : Nat, count : Nat]
Ticket == [number : Number, key : Keys \cup {None}, queueId : Departments,
           files : SUBSET Files]

Running ==
  {"lookup", "rows", "files", "open", "dated", "moving", "failed", "conflict"}
Ended == {"created", "replayed", "refused", "dead"}
Creation ==
  [key : Keys \cup {None}, queueId : Departments, files : SUBSET Files,
   stage : Running \cup Ended, number : Number,
   moved : SUBSET Files, answer : Requests \cup {None}]

ASSUME CreationSentinel ==
  None \notin Ticket \cup Creation \cup Number /\ Requests \cap {"temp", "gone"} = {}

Init ==
  /\ year = 0
  /\ counter = None
  /\ ticket = [r \in Requests |-> None]
  /\ uploads = Files
  /\ expired = {}
  /\ place = [f \in Files |-> "temp"]
  /\ cleaning = [f \in Files |-> "idle"]
  /\ stranded = {}
  /\ creation = [r \in Requests |-> None]
  /\ lost = {}
  /\ faults = 0

Created == {t \in Requests : ticket[t] # None}
At(r, stage) == creation[r] # None /\ creation[r].stage = stage

(* A handler holds the date and then the number until its transaction ends. *)
NoNumber == [year |-> 0, count |-> 0]
Become(r, stage) ==
  creation' = [creation EXCEPT ![r].stage = stage, ![r].number = NoNumber]

-----------------------------------------------------------------------------
(* Before the transaction.                                                 *)

(* POST with a parsed body; the department may be used.                    *)
Submit(r, key, queueId, files) ==
  /\ creation[r] = None
  /\ creation' = [creation EXCEPT ![r] =
       [key |-> key, queueId |-> queueId, files |-> files,
        stage |-> "lookup", number |-> NoNumber, moved |-> {}, answer |-> None]]
  /\ UNCHANGED <<year, database, store, lost, faults>>

WithKey(key) == {t \in Created : key # None /\ ticket[t].key = key}

(* replay(): the ticket of the key, or 409 if it is of another department. *)
Replay(r, t) ==
  creation' = [creation EXCEPT
    ![r].stage =
      IF ticket[t].queueId = creation[r].queueId THEN "replayed" ELSE "refused",
    ![r].number = NoNumber,
    ![r].answer =
      IF ticket[t].queueId = creation[r].queueId THEN t ELSE None]

Lookup(r) ==
  /\ At(r, "lookup")
  /\ IF WithKey(creation[r].key) = {}
       THEN Become(r, "rows")
       ELSE \E t \in WithKey(creation[r].key) : Replay(r, t)
  /\ UNCHANGED <<year, database, store, lost, faults>>

(* The form does not accept the values, or a query fails.                  *)
Refuse(r) ==
  /\ \E stage \in {"lookup", "rows", "files"} : At(r, stage)
  /\ Become(r, "refused")
  /\ UNCHANGED <<year, database, store, lost, faults>>

CheckRows(r) ==
  /\ At(r, "rows")
  /\ Become(r, IF creation[r].files \subseteq uploads \ expired
                 THEN "files" ELSE "refused")
  /\ UNCHANGED <<year, database, store, lost, faults>>

CheckFiles(r) ==
  /\ At(r, "files")
  /\ Become(r, IF \A f \in creation[r].files : place[f] = "temp"
                 THEN "open" ELSE "refused")
  /\ UNCHANGED <<year, database, store, lost, faults>>

-----------------------------------------------------------------------------
(* The transaction.                                                        *)

OpenTransaction(r) ==
  /\ At(r, "open")
  /\ creation' = [creation EXCEPT ![r].stage = "dated", ![r].number.year = year]
  /\ UNCHANGED <<year, database, store, lost, faults>>

(* reserveNextTicketCount.                                                 *)
NextCount(y) ==
  IF counter # None /\ counter.year = y THEN counter.count + 1 ELSE 1

\* Mutant: no unique index on the requester and the idempotency key.
NumberTaken(number, key) == \E t \in Created : ticket[t].number = number

(* The unique indexes of the tickets table.                                *)
Taken(number, key) ==
  \E t \in Created :
    ticket[t].number = number \/ (key # None /\ ticket[t].key = key)

(* The advisory lock is held from here to the end of the transaction, so   *)
(* the insertion meets no other one that has not been committed.           *)
Reserve(r) ==
  LET y == creation[r].number.year
      number == [year |-> y, count |-> NextCount(y)]
  IN  /\ At(r, "dated")
      /\ \A p \in Requests : ~At(p, "moving")
      /\ creation' = [creation EXCEPT
           ![r].stage =
             IF Taken(number, creation[r].key) THEN "conflict" ELSE "moving",
           ![r].number = number]
      /\ UNCHANGED <<year, database, store, lost, faults>>

(* rename() fails if the file is no longer there.                          *)
Move(r, f) ==
  /\ At(r, "moving")
  /\ f \in creation[r].files \ creation[r].moved
  /\ IF place[f] = "temp"
       THEN /\ place' = [place EXCEPT ![f] = r]
            /\ creation' = [creation EXCEPT ![r].moved = @ \cup {f}]
       ELSE Become(r, "failed") /\ UNCHANGED place
  /\ UNCHANGED <<year, database, uploads, expired, cleaning, stranded, lost, faults>>

\* Mutant: the files are moved after the commit.
SomeMoved(r) == TRUE

AllMoved(r) == creation[r].moved = creation[r].files

CommitAs(r, stage) ==
  LET c == creation[r]
  IN  /\ At(r, "moving") /\ AllMoved(r)
      /\ counter' = c.number
      /\ ticket' = [ticket EXCEPT ![r] =
           [number |-> c.number, key |-> c.key, queueId |-> c.queueId,
            files |-> c.files]]
      /\ uploads' = uploads \ c.files
      /\ creation' = [creation EXCEPT ![r].stage = stage, ![r].number = NoNumber,
           ![r].answer = IF stage = "created" THEN r ELSE None]
      /\ UNCHANGED <<year, expired, place, cleaning, stranded>>

Commit(r) == CommitAs(r, "created") /\ UNCHANGED <<lost, faults>>

(* The connection breaks in the middle of COMMIT, which succeeded.         *)
LoseAnswer(r) ==
  /\ faults < MaxFaults /\ faults' = faults + 1
  /\ CommitAs(r, "failed")
  /\ lost' = lost \cup {r}

(* The transaction is rolled back: a storage limit, 15 seconds, an error.  *)
RollBack(r) ==
  /\ At(r, "dated") \/ At(r, "moving")
  /\ Become(r, "failed")
  /\ UNCHANGED <<year, database, store, lost, faults>>

-----------------------------------------------------------------------------
(* After a failure.                                                        *)

\* Mutant: the files are put into a place of their own.
RestoredElsewhere(f) == "orphaned"

RestoredPlace(f) == "temp"

(* restoreMovedFiles goes on to the next file, whether this one could be   *)
(* renamed ...                                                             *)
Restore(r, f) ==
  /\ At(r, "failed")
  /\ f \in creation[r].moved \ stranded
  /\ place' = [place EXCEPT ![f] = RestoredPlace(f)]
  /\ creation' = [creation EXCEPT ![r].moved = @ \ {f}]
  /\ UNCHANGED <<year, database, uploads, expired, cleaning, stranded, lost, faults>>

(* ... or mkdir or rename failed: it stays in the directory of a ticket    *)
(* that there is not.                                                      *)
FailRestore(r, f) ==
  /\ At(r, "failed")
  /\ f \in creation[r].moved \ stranded
  /\ faults < MaxFaults /\ faults' = faults + 1
  /\ stranded' = stranded \cup {f}
  /\ UNCHANGED <<year, database, uploads, expired, place, cleaning, creation, lost>>

(* A failed unique index: the request that won may be one with the key.    *)
Refetch(r) ==
  /\ At(r, "conflict")
  /\ IF WithKey(creation[r].key) = {}
       THEN Become(r, "refused")
       ELSE \E t \in WithKey(creation[r].key) : Replay(r, t)
  /\ UNCHANGED <<year, database, store, lost, faults>>

GiveUp(r) ==
  /\ At(r, "failed") /\ creation[r].moved \subseteq stranded
  /\ Become(r, "refused")
  /\ UNCHANGED <<year, database, store, lost, faults>>

Crash(r) ==
  /\ \E stage \in Running : At(r, stage)
  /\ faults < MaxFaults /\ faults' = faults + 1
  /\ Become(r, "dead")
  /\ UNCHANGED <<year, database, store, lost>>

-----------------------------------------------------------------------------
(* Time, and removeExpiredTemporaryFiles on the user's next upload.        *)

NewYear ==
  /\ year < LastYear /\ year' = year + 1
  /\ UNCHANGED <<database, store, creation, lost, faults>>

Expire(f) ==
  /\ f \in uploads \ expired
  /\ expired' = expired \cup {f}
  /\ UNCHANGED <<year, database, uploads, place, cleaning, stranded, creation, lost, faults>>

Clean(f, from, to) ==
  /\ cleaning[f] = from
  /\ cleaning' = [cleaning EXCEPT ![f] = to]
  /\ UNCHANGED <<year, database, expired, stranded, creation, lost, faults>>

FindExpired(f) ==
  /\ f \in uploads \cap expired
  /\ Clean(f, "idle", "found")
  /\ UNCHANGED <<uploads, place>>

(* A file that is not there counts as removed.                             *)
Unlink(f) ==
  /\ Clean(f, "found", "unlinked")
  /\ place' = [place EXCEPT ![f] = IF @ = "temp" THEN "gone" ELSE @]
  /\ UNCHANGED uploads

(* unlink fails otherwise: file and row stay for the next upload.          *)
FailToUnlink(f) ==
  /\ Clean(f, "found", "idle")
  /\ UNCHANGED <<uploads, place>>

DeleteUpload(f) ==
  /\ Clean(f, "unlinked", "idle")
  /\ uploads' = uploads \ {f}
  /\ UNCHANGED place

Steps(r) ==
  \/ Lookup(r) \/ Refuse(r) \/ CheckRows(r) \/ CheckFiles(r)
  \/ OpenTransaction(r) \/ Reserve(r) \/ Commit(r) \/ RollBack(r)
  \/ \E f \in Files : Move(r, f) \/ Restore(r, f)
  \/ Refetch(r) \/ GiveUp(r)

Next ==
  \/ \E r \in Requests :
       \/ \E key \in Keys \cup {None}, queueId \in Departments,
             files \in SUBSET Files : Submit(r, key, queueId, files)
       \/ Steps(r) \/ LoseAnswer(r) \/ Crash(r)
       \/ \E f \in Files : FailRestore(r, f)
  \/ NewYear
  \/ \E f \in Files :
       \/ Expire(f) \/ FindExpired(f) \/ Unlink(f) \/ FailToUnlink(f) \/ DeleteUpload(f)

Spec == Init /\ [][Next]_vars

-----------------------------------------------------------------------------
(* The shape of the rows, the files and the requests.                      *)
TypeOK ==
  /\ year \in Nat
  /\ counter \in Number \cup {None}
  /\ ticket \in [Requests -> Ticket \cup {None}]
  /\ uploads \subseteq Files /\ expired \subseteq Files /\ stranded \subseteq Files
  /\ place \in [Files -> {"temp", "gone"} \cup Requests]
  /\ cleaning \in [Files -> {"idle", "found", "unlinked"}]
  /\ creation \in [Requests -> Creation \cup {None}]
  /\ lost \subseteq Requests /\ faults \in Nat

(* A request that is repeated with its key, also while the first one runs  *)
(* or after its answer was lost, creates nothing more and is answered with *)
(* the ticket of the first (idempotencyKey of POST /api/tickets).          *)
AnswersAgree ==
  \A r, p \in Requests :
    /\ r \in Created /\ p \in Created /\ ticket[r].key # None
         /\ ticket[r].key = ticket[p].key => r = p
    /\ At(r, "created") \/ At(r, "replayed") =>
         LET t == creation[r].answer
         IN  /\ t \in Created
             /\ ticket[t].key = creation[r].key
             /\ ticket[t].queueId = creation[r].queueId

(* Files follow the outcome of the request that moved them, whoever else   *)
(* wanted them or cleaned up: a committed ticket has the files of its      *)
(* attachments in its directory, unless the answer of its commit was lost; *)
(* an upload that is not used and has not expired is in its temporary      *)
(* place, or in the hands of a request that still runs or that died, or it *)
(* could not be renamed back by the one that it was refused to; and none   *)
(* of these strands what another ticket has (movedFiles and                *)
(* restoreMovedFiles).                                                     *)
FilesFollowTheOutcome ==
  /\ \A t \in Created \ lost : \A f \in ticket[t].files : place[f] = t /\ f \notin stranded
  /\ \A f \in uploads \ expired :
       \/ place[f] = "temp"
       \/ \E r \in Requests :
            /\ place[f] = r
            /\ \/ At(r, "moving") \/ At(r, "failed") \/ At(r, "dead")
               \/ At(r, "refused") /\ f \in stranded

(* The number of a request that has just reserved it is not the number of  *)
(* a ticket: concurrent allocations remain unique, also when the year      *)
(* changes meanwhile (src/lib/ticket-counter.ts:3).                        *)
ReservedNumbersAreNew ==
  \A r \in Requests :
    At(r, "moving") \/ At(r, "conflict") =>
      \A t \in Created : ticket[t].number # creation[r].number

=============================================================================
