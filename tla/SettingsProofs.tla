--------------------------- MODULE SettingsProofs ---------------------------
(***************************************************************************)
(* What MCSettings checks on small instances of the creation of tickets    *)
(* and of the modules about settings, tags, mail and the API for programs, *)
(* proved for every value of the constants.  Each part has an inductive    *)
(* invariant of its own; the last part puts them together.                 *)
(***************************************************************************)
EXTENDS MCSettings, SequenceTheorems, FiniteSetTheorems, TLAPS

USE DEF vars, store, database

-----------------------------------------------------------------------------
(* A request holds the files that it has moved, and no others; only a      *)
(* request that moves, failed, died or succeeded holds any, and one that   *)
(* is refused holds what it could not put back.                            *)
FilesAreHeld ==
  \A r \in Requests :
    /\ \A f \in Files : place[f] = r <=> creation[r] # None /\ f \in creation[r].moved
    /\ creation[r] # None =>
         /\ creation[r].moved \subseteq creation[r].files
         /\ \/ creation[r].moved = {}
            \/ creation[r].stage \in {"moving", "failed", "dead", "created"}
            \/ creation[r].stage = "refused" /\ creation[r].moved \subseteq stranded

(* What could not be put back stays with a request that has failed.        *)
NotCreated == {"failed", "refused", "dead"}
StrandedAreHeld ==
  \A f \in stranded :
    \E r \in Requests : place[f] = r /\ creation[r] # None /\ creation[r].stage \in NotCreated

(* Only what has expired is cleaned up.                                    *)
CleaningIsLate ==
  \A f \in Files : cleaning[f] # "idle" \/ place[f] = "gone" => f \in expired

(* A ticket is what its request asked for.  If its answer was not lost,    *)
(* the request knows of it and holds all its files.                        *)
TicketsAreAsked ==
  \A r \in Requests : ticket[r] # None =>
    /\ creation[r] # None
    /\ ticket[r].key = creation[r].key
    /\ ticket[r].queueId = creation[r].queueId
    /\ ticket[r].files = creation[r].files
    /\ ticket[r].files \cap uploads = {}
    /\ creation[r].stage \in {"created", "failed", "refused", "dead"}
    /\ r \notin lost => creation[r].stage = "created" /\ creation[r].moved = creation[r].files

AnswersAreRight ==
  \A r \in Requests :
    /\ At(r, "created") => ticket[r] # None /\ creation[r].answer = r
    /\ At(r, "replayed") =>
         /\ creation[r].answer \in Created
         /\ ticket[creation[r].answer].key = creation[r].key
         /\ ticket[creation[r].answer].queueId = creation[r].queueId

(* The one that holds the lock has a number and a key that are not taken.  *)
LockIsHeld ==
  /\ \A r, p \in Requests : At(r, "moving") /\ At(p, "moving") => r = p
  /\ \A r \in Requests : At(r, "moving") => ~Taken(creation[r].number, creation[r].key)

OneTicketPerKey ==
  \A r, p \in Created : ticket[r].key # None /\ ticket[r].key = ticket[p].key => r = p

CreationInv ==
  /\ TypeOK /\ FilesAreHeld /\ StrandedAreHeld /\ CleaningIsLate /\ TicketsAreAsked
  /\ AnswersAreRight /\ LockIsHeld /\ OneTicketPerKey

LEMMA CreationInvMeans == CreationInv => AnswersAgree /\ FilesFollowTheOutcome
<1> SUFFICES ASSUME CreationInv PROVE AnswersAgree /\ FilesFollowTheOutcome
  OBVIOUS
<1> USE DEF CreationInv
<1>1. AnswersAgree
  <2>1. \A r \in Requests : At(r, "created") =>
          /\ creation[r].answer \in Created
          /\ ticket[creation[r].answer].key = creation[r].key
          /\ ticket[creation[r].answer].queueId = creation[r].queueId
    BY DEF AnswersAreRight, TicketsAreAsked, Created
  <2> QED
    BY <2>1 DEF AnswersAgree, OneTicketPerKey, AnswersAreRight
<1>2. ASSUME NEW t \in Created \ lost, NEW f \in ticket[t].files
      PROVE  place[f] = t /\ f \notin stranded
  <2>1. t \in Requests /\ ticket[t] \in Ticket
    BY DEF Created, TypeOK
  <2>2. f \in Files
    BY <1>2, <2>1 DEF Ticket
  <2>3. place[f] = t /\ creation[t].stage = "created"
    BY <1>2, <2>1, <2>2 DEF Created, TicketsAreAsked, FilesAreHeld
  <2> QED
    BY <2>3 DEF StrandedAreHeld, NotCreated
<1>3. ASSUME NEW f \in uploads \ expired, place[f] # "temp"
      PROVE  \E r \in Requests :
               /\ place[f] = r
               /\ \/ At(r, "moving") \/ At(r, "failed") \/ At(r, "dead")
                  \/ At(r, "refused") /\ f \in stranded
  <2>1. f \in Files /\ place[f] # "gone"
    BY DEF TypeOK, CleaningIsLate
  <2>2. place[f] \in Requests
    BY <1>3, <2>1 DEF TypeOK
  <2>3. PICK r \in Requests : r = place[f]
    BY <2>2
  <2>4. /\ creation[r] # None /\ f \in creation[r].moved /\ f \in creation[r].files
        /\ \/ creation[r].stage \in {"moving", "failed", "dead", "created"}
           \/ creation[r].stage = "refused" /\ f \in stranded
    BY <2>1, <2>3 DEF FilesAreHeld
  <2>5. creation[r].stage # "created"
    BY <2>4, <2>1 DEF AnswersAreRight, At, TicketsAreAsked
  <2> QED
    BY <2>3, <2>4, <2>5 DEF At
<1> QED
  BY <1>1, <1>2, <1>3 DEF FilesFollowTheOutcome

LEMMA CreationInvInit == Init => CreationInv
BY CreationAssumption, CreationSentinel
   DEF Init, CreationInv, TypeOK, FilesAreHeld, StrandedAreHeld, CleaningIsLate, TicketsAreAsked,
       AnswersAreRight, LockIsHeld, OneTicketPerKey, At, Created, Number

-----------------------------------------------------------------------------
(* The handler of r goes on; those of the others stay where they are.      *)
OnlyChanges(r, c) ==
  /\ creation'[r] = c
  /\ \A p \in Requests : p # r => creation'[p] = creation[p]

LEMMA Advances ==
  ASSUME TypeOK, NEW r \in Requests, NEW c \in Creation,
         creation' = [creation EXCEPT ![r] = c]
  PROVE  OnlyChanges(r, c) /\ c # None /\ creation' \in [Requests -> Creation \cup {None}]
BY CreationSentinel DEF OnlyChanges, TypeOK

LEMMA Becomes ==
  ASSUME TypeOK, NEW r \in Requests, creation[r] # None,
         NEW stage \in Running \cup Ended, Become(r, stage)
  PROVE  \E c \in Creation :
           /\ OnlyChanges(r, c) /\ creation' \in [Requests -> Creation \cup {None}]
           /\ c # None
           /\ c.stage = stage /\ c.moved = creation[r].moved /\ c.files = creation[r].files
           /\ c.key = creation[r].key /\ c.queueId = creation[r].queueId
           /\ c.answer = creation[r].answer
<1> DEFINE c == [creation[r] EXCEPT !.stage = stage, !.number = NoNumber]
<1>1. creation[r] \in Creation
  BY DEF TypeOK
<1>2. /\ c \in Creation /\ c.stage = stage /\ c.moved = creation[r].moved
      /\ c.files = creation[r].files /\ c.key = creation[r].key
      /\ c.queueId = creation[r].queueId /\ c.answer = creation[r].answer
  BY <1>1 DEF Creation, NoNumber, Number
<1>3. creation' = [creation EXCEPT ![r] = c]
  BY DEF Become
<1> HIDE DEF c
<1>4. OnlyChanges(r, c) /\ c # None /\ creation' \in [Requests -> Creation \cup {None}]
  BY <1>2, <1>3, Advances
<1> QED
  BY <1>2, <1>4

(* Before and after the transaction: nothing but the handler changes, and  *)
(* it holds no more than before.                                           *)
LEMMA QuietStep ==
  ASSUME CreationInv, NEW r \in Requests, NEW c \in Creation, c # None,
         OnlyChanges(r, c), creation' \in [Requests -> Creation \cup {None}],
         UNCHANGED <<year, database, store, lost>>, faults' \in Nat,
         IF creation[r] = None THEN c.moved = {} /\ ticket[r] = None
         ELSE /\ c.moved = creation[r].moved /\ c.files = creation[r].files
              /\ c.key = creation[r].key /\ c.queueId = creation[r].queueId,
         creation[r] # None => creation[r].stage # "created",
         \/ c.moved = {} \/ c.stage \in {"failed", "dead"}
         \/ c.stage = "refused" /\ c.moved \subseteq stranded,
         creation[r] # None /\ creation[r].stage \in NotCreated => c.stage \in NotCreated,
         ticket[r] # None => c.stage \in {"failed", "refused", "dead"},
         c.stage \notin {"created", "moving"},
         c.stage = "replayed" =>
           /\ c.answer \in Created
           /\ ticket[c.answer].key = c.key /\ ticket[c.answer].queueId = c.queueId
  PROVE  CreationInv'
<1> USE DEF CreationInv, OnlyChanges
<1>1. TypeOK'
  BY DEF TypeOK
<1>2. FilesAreHeld' /\ CleaningIsLate'
  BY DEF FilesAreHeld, CleaningIsLate
<1>8. StrandedAreHeld'
  BY DEF StrandedAreHeld
<1>3. TicketsAreAsked'
  BY DEF TicketsAreAsked
<1>4. Created' = Created
  BY DEF Created
<1>5. AnswersAreRight'
  BY <1>4 DEF AnswersAreRight, At
<1>6. LockIsHeld'
  BY <1>4 DEF LockIsHeld, At, Taken
<1>7. OneTicketPerKey'
  BY <1>4 DEF OneTicketPerKey
<1> QED
  BY <1>1, <1>2, <1>3, <1>5, <1>6, <1>7, <1>8

LEMMA QuietBecome ==
  ASSUME CreationInv, NEW r \in Requests, NEW stage \in Running \cup Ended,
         creation[r] # None, Become(r, stage),
         UNCHANGED <<year, database, store, lost>>, faults' \in Nat,
         creation[r].stage # "created", stage \notin {"created", "moving", "replayed"},
         \/ creation[r].moved = {} \/ stage \in {"failed", "dead"}
         \/ stage = "refused" /\ creation[r].moved \subseteq stranded,
         creation[r].stage \in NotCreated => stage \in NotCreated,
         ticket[r] # None => stage \in {"failed", "refused", "dead"}
  PROVE  CreationInv'
<1>1. TypeOK
  BY DEF CreationInv
<1>2. PICK c \in Creation :
        /\ OnlyChanges(r, c) /\ creation' \in [Requests -> Creation \cup {None}]
        /\ c # None /\ c.stage = stage /\ c.moved = creation[r].moved
        /\ c.files = creation[r].files /\ c.key = creation[r].key
        /\ c.queueId = creation[r].queueId
  BY <1>1, Becomes
<1> QED
  BY <1>2, QuietStep

(* Who holds no files before the transaction, and has no ticket.           *)
LEMMA Untouched ==
  ASSUME CreationInv, NEW r \in Requests,
         creation[r] # None => creation[r].stage \in {"lookup", "rows", "files", "open", "dated", "conflict"}
  PROVE  ticket[r] = None /\ (creation[r] # None => creation[r].moved = {})
BY DEF CreationInv, TicketsAreAsked, FilesAreHeld

LEMMA ReplayStep ==
  ASSUME CreationInv, NEW r \in Requests, NEW t \in WithKey(creation[r].key),
         creation[r] # None, creation[r].stage \in {"lookup", "conflict"}, Replay(r, t),
         UNCHANGED <<year, database, store, lost, faults>>
  PROVE  CreationInv'
<1> DEFINE same == ticket[t].queueId = creation[r].queueId
<1>1. TypeOK /\ creation[r] \in Creation /\ t \in Created /\ ticket[t].key = creation[r].key
  BY DEF CreationInv, TypeOK, WithKey
<1>2. t \in Requests
  BY <1>1 DEF Created
<1>3. PICK stage \in {"replayed", "refused"} :
        stage = IF same THEN "replayed" ELSE "refused"
  OBVIOUS
<1>4. PICK answer \in Requests \cup {None} : answer = IF same THEN t ELSE None
  BY <1>2
<1> DEFINE c == [creation[r] EXCEPT !.stage = stage, !.number = NoNumber, !.answer = answer]
<1>5. creation' = [creation EXCEPT ![r] = c]
  BY <1>3, <1>4 DEF Replay
<1>6. /\ c \in Creation /\ c.stage = stage /\ c.answer = answer /\ c.moved = creation[r].moved
      /\ c.files = creation[r].files /\ c.key = creation[r].key
      /\ c.queueId = creation[r].queueId
  BY <1>1 DEF Creation, Running, Ended, NoNumber, Number
<1> HIDE DEF c
<1>7. OnlyChanges(r, c) /\ c # None /\ creation' \in [Requests -> Creation \cup {None}]
  BY <1>1, <1>5, <1>6, Advances
<1>8. ticket[r] = None /\ c.moved = {}
  BY <1>6, Untouched
<1>9. c.stage = "replayed" =>
        c.answer \in Created /\ ticket[c.answer].key = c.key /\ ticket[c.answer].queueId = c.queueId
  BY <1>1, <1>3, <1>4, <1>6
<1>10. faults' \in Nat
  BY <1>1 DEF TypeOK
<1> QED
  BY <1>3, <1>6, <1>7, <1>8, <1>9, <1>10, QuietStep DEF NotCreated

LEMMA QuietSteps ==
  ASSUME CreationInv, NEW r \in Requests,
         \/ \E key \in Keys \cup {None}, queueId \in Departments, files \in SUBSET Files :
              Submit(r, key, queueId, files)
         \/ Lookup(r) \/ Refuse(r) \/ CheckRows(r) \/ CheckFiles(r) \/ OpenTransaction(r)
         \/ RollBack(r) \/ Refetch(r) \/ GiveUp(r) \/ Crash(r)
  PROVE  CreationInv'
<1>0. TypeOK /\ faults \in Nat
  BY DEF CreationInv, TypeOK
<1>1. ASSUME NEW key \in Keys \cup {None}, NEW queueId \in Departments,
             NEW files \in SUBSET Files, Submit(r, key, queueId, files)
      PROVE  CreationInv'
  <2> DEFINE c == [key |-> key, queueId |-> queueId, files |-> files,
                   stage |-> "lookup", number |-> NoNumber, moved |-> {}, answer |-> None]
  <2>1. c \in Creation /\ c.moved = {} /\ c.stage = "lookup"
    BY DEF Creation, Number, NoNumber, Running, Ended
  <2>2. creation' = [creation EXCEPT ![r] = c] /\ creation[r] = None
    BY <1>1 DEF Submit
  <2> HIDE DEF c
  <2>3. OnlyChanges(r, c) /\ c # None /\ creation' \in [Requests -> Creation \cup {None}]
    BY <1>0, <2>1, <2>2, Advances
  <2>4. UNCHANGED <<year, database, store, lost>> /\ faults' \in Nat
    BY <1>0, <1>1 DEF Submit
  <2>5. ticket[r] = None
    BY <2>2, Untouched
  <2> QED
    BY <2>1, <2>2, <2>3, <2>4, <2>5, QuietStep
<1>2. CASE Lookup(r)
  <2>1. creation[r] # None /\ creation[r].stage = "lookup" /\ UNCHANGED <<year, database, store, lost, faults>>
    BY <1>2 DEF Lookup, At
  <2>2. CASE Become(r, "rows")
    BY <1>0, <2>1, <2>2, Untouched, QuietBecome DEF Running, Ended, NotCreated
  <2>3. ASSUME NEW t \in WithKey(creation[r].key), Replay(r, t)
        PROVE  CreationInv'
    BY <2>1, <2>3, ReplayStep
  <2> QED
    BY <1>2, <2>2, <2>3 DEF Lookup
<1>3. CASE Refuse(r)
  <2>1. /\ creation[r] # None /\ creation[r].stage \in {"lookup", "rows", "files"}
        /\ Become(r, "refused") /\ UNCHANGED <<year, database, store, lost, faults>>
    BY <1>3 DEF Refuse, At
  <2> QED
    BY <1>0, <2>1, Untouched, QuietBecome DEF Running, Ended, NotCreated
<1>4. CASE CheckRows(r)
  <2>1. /\ creation[r] # None /\ creation[r].stage = "rows"
        /\ Become(r, "files") \/ Become(r, "refused")
        /\ UNCHANGED <<year, database, store, lost, faults>>
    BY <1>4 DEF CheckRows, At
  <2> QED
    BY <1>0, <2>1, Untouched, QuietBecome DEF Running, Ended, NotCreated
<1>5. CASE CheckFiles(r)
  <2>1. /\ creation[r] # None /\ creation[r].stage = "files"
        /\ Become(r, "open") \/ Become(r, "refused")
        /\ UNCHANGED <<year, database, store, lost, faults>>
    BY <1>5 DEF CheckFiles, At
  <2> QED
    BY <1>0, <2>1, Untouched, QuietBecome DEF Running, Ended, NotCreated
<1>6. CASE OpenTransaction(r)
  <2> DEFINE dated == [creation[r].number EXCEPT !.year = year]
             c == [creation[r] EXCEPT !.stage = "dated", !.number = dated]
  <2>1. /\ creation[r] # None /\ creation[r].stage = "open" /\ creation' = [creation EXCEPT ![r] = c]
        /\ UNCHANGED <<year, database, store, lost, faults>>
    BY <1>6 DEF OpenTransaction, At
  <2>2. creation[r] \in Creation /\ dated \in Number
    BY <1>0, <2>1 DEF TypeOK, Creation, Number
  <2>3. /\ c \in Creation /\ c.stage = "dated" /\ c.moved = creation[r].moved
        /\ c.files = creation[r].files /\ c.key = creation[r].key
        /\ c.queueId = creation[r].queueId
    BY <2>2 DEF Creation, Running, Ended
  <2> HIDE DEF c
  <2>4. OnlyChanges(r, c) /\ c # None /\ creation' \in [Requests -> Creation \cup {None}]
    BY <1>0, <2>1, <2>3, Advances
  <2>5. ticket[r] = None /\ c.moved = {}
    BY <2>1, <2>3, Untouched
  <2> QED
    BY <1>0, <2>1, <2>3, <2>4, <2>5, QuietStep DEF NotCreated
<1>7. CASE RollBack(r)
  <2>1. /\ creation[r] # None /\ creation[r].stage \in {"dated", "moving"}
        /\ Become(r, "failed") /\ UNCHANGED <<year, database, store, lost, faults>>
    BY <1>7 DEF RollBack, At
  <2> QED
    BY <1>0, <2>1, QuietBecome DEF Running, Ended, NotCreated
<1>8. CASE Refetch(r)
  <2>1. creation[r] # None /\ creation[r].stage = "conflict" /\ UNCHANGED <<year, database, store, lost, faults>>
    BY <1>8 DEF Refetch, At
  <2>2. CASE Become(r, "refused")
    BY <1>0, <2>1, <2>2, Untouched, QuietBecome DEF Running, Ended, NotCreated
  <2>3. ASSUME NEW t \in WithKey(creation[r].key), Replay(r, t)
        PROVE  CreationInv'
    BY <2>1, <2>3, ReplayStep
  <2> QED
    BY <1>8, <2>2, <2>3 DEF Refetch
<1>9. CASE GiveUp(r)
  <2>1. /\ creation[r] # None /\ creation[r].stage = "failed" /\ creation[r].moved \subseteq stranded
        /\ Become(r, "refused") /\ UNCHANGED <<year, database, store, lost, faults>>
    BY <1>9 DEF GiveUp, At
  <2> QED
    BY <1>0, <2>1, QuietBecome DEF Running, Ended, NotCreated
<1>10. CASE Crash(r)
  <2>1. /\ creation[r] # None /\ creation[r].stage \in Running
        /\ Become(r, "dead") /\ UNCHANGED <<year, database, store, lost>> /\ faults' = faults + 1
    BY <1>10 DEF Crash, At
  <2>2. creation[r].stage # "created" /\ faults' \in Nat
    BY <1>0, <2>1 DEF Running
  <2> QED
    BY <2>1, <2>2, QuietBecome DEF Running, Ended, NotCreated
<1> QED
  BY <1>1, <1>2, <1>3, <1>4, <1>5, <1>6, <1>7, <1>8, <1>9, <1>10

-----------------------------------------------------------------------------
(* The transaction.                                                        *)
LEMMA ReserveStep ==
  ASSUME CreationInv, NEW r \in Requests, Reserve(r)
  PROVE  CreationInv'
<1> DEFINE y == creation[r].number.year
           number == [year |-> y, count |-> NextCount(y)]
<1>1. /\ creation[r] # None /\ creation[r].stage = "dated" /\ \A p \in Requests : ~At(p, "moving")
      /\ UNCHANGED <<year, database, store, lost, faults>>
  BY DEF Reserve, At
<1>2. TypeOK /\ creation[r] \in Creation /\ faults \in Nat /\ counter \in Number \cup {None}
  BY <1>1 DEF CreationInv, TypeOK
<1>3. number \in Number
  <2>1. y \in Nat
    BY <1>2 DEF Creation, Number
  <2>2. counter # None => counter.count \in Nat
    BY <1>2 DEF Number
  <2>3. NextCount(y) \in Nat
    BY <2>2 DEF NextCount
  <2> QED
    BY <2>1, <2>3 DEF Number
<1>4. PICK stage \in {"conflict", "moving"} :
        stage = IF Taken(number, creation[r].key) THEN "conflict" ELSE "moving"
  OBVIOUS
<1> DEFINE c == [creation[r] EXCEPT !.stage = stage, !.number = number]
<1>5. creation' = [creation EXCEPT ![r] = c]
  BY <1>4 DEF Reserve
<1>6. /\ c \in Creation /\ c.stage = stage /\ c.number = number /\ c.moved = creation[r].moved
      /\ c.files = creation[r].files /\ c.key = creation[r].key
      /\ c.queueId = creation[r].queueId
  BY <1>2, <1>3 DEF Creation, Running, Ended
<1>7. stage = "moving" => ~Taken(number, c.key)
  BY <1>4, <1>6
<1> HIDE DEF c, number
<1>8. OnlyChanges(r, c) /\ c # None /\ creation' \in [Requests -> Creation \cup {None}]
  BY <1>2, <1>5, <1>6, Advances
<1>9. ticket[r] = None /\ c.moved = {}
  BY <1>1, <1>6, Untouched
<1>10. CASE stage = "conflict"
  BY <1>1, <1>2, <1>6, <1>8, <1>9, <1>10, QuietStep DEF NotCreated
<1>11. CASE stage = "moving"
  <2> USE DEF CreationInv, OnlyChanges
  <2>1. TypeOK'
    BY <1>1, <1>8 DEF TypeOK
  <2>2. FilesAreHeld' /\ CleaningIsLate'
    BY <1>1, <1>6, <1>8, <1>9, <1>11 DEF FilesAreHeld, CleaningIsLate
  <2>8. StrandedAreHeld'
    BY <1>1, <1>8 DEF StrandedAreHeld, NotCreated
  <2>3. TicketsAreAsked'
    BY <1>1, <1>8, <1>9 DEF TicketsAreAsked
  <2>4. Created' = Created
    BY <1>1 DEF Created
  <2>5. AnswersAreRight'
    BY <1>1, <1>6, <1>8, <1>11, <2>4 DEF AnswersAreRight, At
  <2>6. LockIsHeld'
    <3>1. \A p \in Requests : p # r => ~At(p, "moving")'
      BY <1>1, <1>8 DEF At
    <3>2. creation'[r].number = number /\ creation'[r].key = c.key
      BY <1>6, <1>8
    <3>3. \A n, k : Taken(n, k)' <=> Taken(n, k)
      BY <1>1, <2>4 DEF Taken
    <3> QED
      BY <1>7, <1>11, <3>1, <3>2, <3>3 DEF LockIsHeld
  <2>7. OneTicketPerKey'
    BY <1>1, <2>4 DEF OneTicketPerKey
  <2> QED
    BY <2>1, <2>2, <2>3, <2>5, <2>6, <2>7, <2>8
<1> QED
  BY <1>10, <1>11

LEMMA MoveStep ==
  ASSUME CreationInv, NEW r \in Requests, NEW f \in Files, Move(r, f)
  PROVE  CreationInv'
<1>1. /\ creation[r] # None /\ creation[r].stage = "moving" /\ f \in creation[r].files
      /\ UNCHANGED <<year, database, uploads, expired, cleaning, stranded, lost, faults>>
  BY DEF Move, At
<1>2. TypeOK /\ creation[r] \in Creation /\ faults \in Nat
  BY <1>1 DEF CreationInv, TypeOK
<1>3. CASE place[f] # "temp"
  <2>1. Become(r, "failed") /\ UNCHANGED place
    BY <1>3 DEF Move
  <2> QED
    BY <1>1, <1>2, <2>1, QuietBecome DEF Running, Ended, NotCreated
<1>4. CASE place[f] = "temp"
  <2> DEFINE c == [creation[r] EXCEPT !.moved = @ \cup {f}]
  <2>1. creation' = [creation EXCEPT ![r] = c] /\ place' = [place EXCEPT ![f] = r]
    BY <1>4 DEF Move
  <2>2. /\ c \in Creation /\ c.stage = "moving" /\ c.moved = creation[r].moved \cup {f}
        /\ c.files = creation[r].files /\ c.key = creation[r].key
        /\ c.queueId = creation[r].queueId /\ c.number = creation[r].number
    BY <1>1, <1>2 DEF Creation
  <2> HIDE DEF c
  <2>3. OnlyChanges(r, c) /\ c # None /\ creation' \in [Requests -> Creation \cup {None}]
    BY <1>2, <2>1, <2>2, Advances
  <2>4. ticket[r] = None
    BY <1>1 DEF CreationInv, TicketsAreAsked
  <2> USE DEF CreationInv, OnlyChanges
  <2>5. TypeOK'
    BY <1>1, <2>1, <2>3 DEF TypeOK
  <2>6. FilesAreHeld'
    <3>1. \A p \in Requests, g \in Files :
            place'[g] = p <=> IF g = f THEN p = r ELSE place[g] = p
      BY <1>2, <2>1 DEF TypeOK
    <3>2. ASSUME NEW p \in Requests, p # r
          PROVE  creation[p] # None => f \notin creation[p].moved
      BY <1>4, CreationSentinel DEF FilesAreHeld
    <3>3. ASSUME NEW p \in Requests, p # r
          PROVE  /\ \A g \in Files : place'[g] = p <=> creation'[p] # None /\ g \in creation'[p].moved
                 /\ creation'[p] # None =>
                      /\ creation'[p].moved \subseteq creation'[p].files
                      /\ \/ creation'[p].moved = {}
                         \/ creation'[p].stage \in {"moving", "failed", "dead", "created"}
                         \/ creation'[p].stage = "refused" /\ creation'[p].moved \subseteq stranded'
      BY <1>1, <2>3, <3>1, <3>2, <3>3 DEF FilesAreHeld
    <3>4. /\ \A g \in Files : place'[g] = r <=> creation'[r] # None /\ g \in creation'[r].moved
          /\ creation'[r].moved \subseteq creation'[r].files
          /\ creation'[r].stage = "moving"
      BY <1>1, <2>2, <2>3, <3>1 DEF FilesAreHeld
    <3> QED
      BY <3>3, <3>4 DEF FilesAreHeld
  <2>13. StrandedAreHeld'
    <3>1. ASSUME NEW g \in stranded
          PROVE  g \in Files /\ g # f
      <4>1. g \in Files
        BY <1>2 DEF TypeOK
      <4>2. PICK p \in Requests : place[g] = p
        BY DEF StrandedAreHeld
      <4> QED
        BY <1>4, <4>1, <4>2, CreationSentinel
    <3>2. \A g \in stranded : place'[g] = place[g]
      BY <1>2, <2>1, <3>1 DEF TypeOK
    <3> QED
      BY <1>1, <2>3, <3>2 DEF StrandedAreHeld, NotCreated
  <2>7. CleaningIsLate'
    BY <1>1, <1>2, <2>1, CreationSentinel DEF CleaningIsLate, TypeOK
  <2>8. TicketsAreAsked'
    BY <1>1, <2>3, <2>4 DEF TicketsAreAsked
  <2>9. Created' = Created
    BY <1>1 DEF Created
  <2>10. AnswersAreRight'
    BY <1>1, <2>2, <2>3, <2>9 DEF AnswersAreRight, At
  <2>11. LockIsHeld'
    <3>1. \A p \in Requests : At(p, "moving")' <=> At(p, "moving")
      BY <1>1, <2>2, <2>3 DEF At
    <3>2. \A n, k : Taken(n, k)' <=> Taken(n, k)
      BY <1>1, <2>9 DEF Taken
    <3>3. \A p \in Requests : At(p, "moving") =>
            creation'[p].number = creation[p].number /\ creation'[p].key = creation[p].key
      BY <2>2, <2>3 DEF At
    <3> QED
      BY <3>1, <3>2, <3>3 DEF LockIsHeld
  <2>12. OneTicketPerKey'
    BY <1>1, <2>9 DEF OneTicketPerKey
  <2> QED
    BY <2>5, <2>6, <2>7, <2>8, <2>10, <2>11, <2>12, <2>13
<1> QED
  BY <1>3, <1>4

(* The commit, whether its answer arrives or not.                          *)
LEMMA CommitStep ==
  ASSUME CreationInv, NEW r \in Requests, NEW stage \in {"created", "failed"},
         CommitAs(r, stage), faults' \in Nat,
         lost' = IF stage = "created" THEN lost ELSE lost \cup {r}
  PROVE  CreationInv'
<1>1. /\ creation[r] # None /\ creation[r].stage = "moving"
      /\ creation[r].moved = creation[r].files
      /\ UNCHANGED <<year, expired, place, cleaning, stranded>>
  BY DEF CommitAs, At, AllMoved
<1>2. TypeOK /\ creation[r] \in Creation
  BY <1>1 DEF CreationInv, TypeOK
<1>3. PICK answer \in Requests \cup {None} : answer = IF stage = "created" THEN r ELSE None
  OBVIOUS
<1> DEFINE c == [creation[r] EXCEPT !.stage = stage, !.number = NoNumber, !.answer = answer]
           row == [number |-> creation[r].number, key |-> creation[r].key,
                   queueId |-> creation[r].queueId, files |-> creation[r].files]
<1>4. /\ creation' = [creation EXCEPT ![r] = c] /\ ticket' = [ticket EXCEPT ![r] = row]
      /\ counter' = creation[r].number /\ uploads' = uploads \ creation[r].files
  BY <1>3 DEF CommitAs
<1>5. /\ c \in Creation /\ c.stage = stage /\ c.answer = answer /\ c.moved = creation[r].moved
      /\ c.files = creation[r].files /\ c.key = creation[r].key
      /\ c.queueId = creation[r].queueId
  BY <1>2 DEF Creation, Running, Ended, NoNumber, Number
<1>6. /\ row \in Ticket /\ row.key = creation[r].key /\ row.queueId = creation[r].queueId
      /\ row.files = creation[r].files /\ row.number = creation[r].number
      /\ creation[r].number \in Number
  BY <1>2 DEF Creation, Ticket
<1> HIDE DEF c, row
<1>7. OnlyChanges(r, c) /\ c # None /\ creation' \in [Requests -> Creation \cup {None}]
  BY <1>2, <1>4, <1>5, Advances
<1>8. row # None /\ ticket[r] = None
  BY <1>1, <1>6, CreationSentinel DEF CreationInv, TicketsAreAsked
<1>9. /\ ticket' \in [Requests -> Ticket \cup {None}]
      /\ ticket'[r] = row /\ \A p \in Requests : p # r => ticket'[p] = ticket[p]
  BY <1>2, <1>4, <1>6 DEF TypeOK
<1>10. Created' = Created \cup {r}
  BY <1>8, <1>9 DEF Created
<1> USE DEF CreationInv, OnlyChanges
<1>11. TypeOK'
  BY <1>1, <1>2, <1>4, <1>6, <1>7, <1>9 DEF TypeOK
<1>12. FilesAreHeld' /\ CleaningIsLate'
  BY <1>1, <1>5, <1>7 DEF FilesAreHeld, CleaningIsLate
<1>17. StrandedAreHeld'
  BY <1>1, <1>7 DEF StrandedAreHeld, NotCreated
<1>13. TicketsAreAsked'
  <2>1. ASSUME NEW p \in Requests, p # r, ticket'[p] # None
        PROVE  /\ creation'[p] # None
               /\ ticket'[p].key = creation'[p].key
               /\ ticket'[p].queueId = creation'[p].queueId
               /\ ticket'[p].files = creation'[p].files
               /\ ticket'[p].files \cap uploads' = {}
               /\ creation'[p].stage \in {"created", "failed", "refused", "dead"}
               /\ p \notin lost' => creation'[p].stage = "created" /\ creation'[p].moved = creation'[p].files
    BY <1>4, <1>7, <1>9, <2>1 DEF TicketsAreAsked
  <2>2. row.files \cap uploads' = {}
    BY <1>4, <1>6
  <2>3. r \notin lost' => stage = "created"
    OBVIOUS
  <2> QED
    BY <1>1, <1>5, <1>6, <1>7, <1>9, <2>1, <2>2, <2>3 DEF TicketsAreAsked
<1>14. AnswersAreRight'
  <2>1. ASSUME NEW p \in Requests, p # r
        PROVE  /\ At(p, "created")' => ticket'[p] # None /\ creation'[p].answer = p
               /\ At(p, "replayed")' =>
                    /\ creation'[p].answer \in Created'
                    /\ ticket'[creation'[p].answer].key = creation'[p].key
                    /\ ticket'[creation'[p].answer].queueId = creation'[p].queueId
    <3>1. At(p, "replayed") => creation[p].answer # r /\ creation[p].answer \in Requests
      BY <1>8 DEF AnswersAreRight, Created
    <3> QED
      BY <1>7, <1>9, <1>10, <2>1, <3>1 DEF AnswersAreRight, At
  <2> QED
    BY <1>3, <1>5, <1>7, <1>8, <1>9, <2>1 DEF AnswersAreRight, At
<1>15. LockIsHeld'
  <2>1. \A p \in Requests : ~At(p, "moving")'
    BY <1>1, <1>5, <1>7 DEF LockIsHeld, At
  <2> QED
    BY <2>1 DEF LockIsHeld
<1>16. OneTicketPerKey'
  <2>1. \A t \in Created : creation[r].key # None => ticket[t].key # creation[r].key
    BY <1>1 DEF LockIsHeld, At, Taken
  <2>2. \A t \in Created : t # r /\ t \in Requests
    BY <1>8 DEF Created
  <2>3. \A t \in Created : ticket'[t] = ticket[t]
    BY <1>9, <2>2
  <2> QED
    BY <1>6, <1>9, <1>10, <2>1, <2>2, <2>3 DEF OneTicketPerKey
<1> QED
  BY <1>11, <1>12, <1>13, <1>14, <1>15, <1>16, <1>17

-----------------------------------------------------------------------------
LEMMA RestoreStep ==
  ASSUME CreationInv, NEW r \in Requests, NEW f \in Files, Restore(r, f)
  PROVE  CreationInv'
<1> DEFINE c == [creation[r] EXCEPT !.moved = @ \ {f}]
<1>1. /\ creation[r] # None /\ creation[r].stage = "failed"
      /\ f \in creation[r].moved /\ f \notin stranded
      /\ creation' = [creation EXCEPT ![r] = c] /\ place' = [place EXCEPT ![f] = "temp"]
      /\ UNCHANGED <<year, database, uploads, expired, cleaning, stranded, lost, faults>>
  BY DEF Restore, At, RestoredPlace
<1>2. TypeOK /\ creation[r] \in Creation
  BY <1>1 DEF CreationInv, TypeOK
<1>3. /\ c \in Creation /\ c.stage = "failed" /\ c.moved = creation[r].moved \ {f}
      /\ c.files = creation[r].files /\ c.key = creation[r].key
      /\ c.queueId = creation[r].queueId
  BY <1>1, <1>2 DEF Creation
<1> HIDE DEF c
<1>4. OnlyChanges(r, c) /\ c # None /\ creation' \in [Requests -> Creation \cup {None}]
  BY <1>1, <1>2, <1>3, Advances
<1> USE DEF CreationInv, OnlyChanges
<1>5. TypeOK'
  BY <1>1, <1>4 DEF TypeOK
<1>6. place[f] = r
  BY <1>1 DEF FilesAreHeld
<1>7. \A p \in Requests, g \in Files : place'[g] = p <=> g # f /\ place[g] = p
  BY <1>1, <1>2, CreationSentinel DEF TypeOK
<1>8. FilesAreHeld'
  <2>1. ASSUME NEW p \in Requests, p # r
        PROVE  /\ \A g \in Files : place'[g] = p <=> creation'[p] # None /\ g \in creation'[p].moved
               /\ creation'[p] # None =>
                    /\ creation'[p].moved \subseteq creation'[p].files
                    /\ \/ creation'[p].moved = {}
                       \/ creation'[p].stage \in {"moving", "failed", "dead", "created"}
                       \/ creation'[p].stage = "refused" /\ creation'[p].moved \subseteq stranded'
    BY <1>1, <1>4, <1>6, <1>7, <2>1 DEF FilesAreHeld
  <2>2. /\ \A g \in Files : place'[g] = r <=> creation'[r] # None /\ g \in creation'[r].moved
        /\ creation'[r].moved \subseteq creation'[r].files
        /\ creation'[r].stage = "failed"
    BY <1>1, <1>3, <1>4, <1>7 DEF FilesAreHeld
  <2> QED
    BY <2>1, <2>2 DEF FilesAreHeld
<1>15. StrandedAreHeld'
  <2>1. \A g \in stranded : place'[g] = place[g]
    BY <1>1, <1>2 DEF TypeOK
  <2> QED
    BY <1>1, <1>3, <1>4, <2>1 DEF StrandedAreHeld, NotCreated
<1>9. CleaningIsLate'
  BY <1>1, <1>2 DEF CleaningIsLate, TypeOK
<1>10. TicketsAreAsked'
  BY <1>1, <1>3, <1>4 DEF TicketsAreAsked
<1>11. Created' = Created
  BY <1>1 DEF Created
<1>12. AnswersAreRight'
  BY <1>1, <1>3, <1>4, <1>11 DEF AnswersAreRight, At
<1>13. LockIsHeld'
  <2>1. \A p \in Requests : At(p, "moving")' => At(p, "moving") /\ p # r
    BY <1>1, <1>3, <1>4 DEF At
  <2>2. \A n, k : Taken(n, k)' <=> Taken(n, k)
    BY <1>1, <1>11 DEF Taken
  <2> QED
    BY <1>4, <2>1, <2>2 DEF LockIsHeld
<1>14. OneTicketPerKey'
  BY <1>1, <1>11 DEF OneTicketPerKey
<1> QED
  BY <1>5, <1>8, <1>9, <1>10, <1>12, <1>13, <1>14, <1>15

LEMMA FailRestoreStep ==
  ASSUME CreationInv, NEW r \in Requests, NEW f \in Files, FailRestore(r, f)
  PROVE  CreationInv'
<1>1. /\ creation[r] # None /\ creation[r].stage = "failed" /\ f \in creation[r].moved
      /\ stranded' = stranded \cup {f} /\ faults' = faults + 1
      /\ UNCHANGED <<year, database, uploads, expired, place, cleaning, creation, lost>>
  BY DEF FailRestore, At
<1> USE DEF CreationInv
<1>2. TypeOK' /\ CleaningIsLate' /\ TicketsAreAsked'
  BY <1>1 DEF TypeOK, CleaningIsLate, TicketsAreAsked
<1>3. FilesAreHeld'
  BY <1>1 DEF FilesAreHeld
<1>4. StrandedAreHeld'
  <2>1. place[f] = r
    BY <1>1 DEF FilesAreHeld
  <2> QED
    BY <1>1, <2>1 DEF StrandedAreHeld, NotCreated
<1>5. Created' = Created
  BY <1>1 DEF Created
<1>6. AnswersAreRight' /\ LockIsHeld' /\ OneTicketPerKey'
  BY <1>1, <1>5 DEF AnswersAreRight, LockIsHeld, OneTicketPerKey, At, Taken
<1> QED
  BY <1>2, <1>3, <1>4, <1>6

(* Time passes and expired uploads are cleaned up.                         *)
LEMMA UploadsStep ==
  ASSUME CreationInv, NewYear \/ \E f \in Files : Expire(f) \/ FindExpired(f) \/ Unlink(f)
                                   \/ FailToUnlink(f) \/ DeleteUpload(f)
  PROVE  CreationInv'
<1> USE DEF CreationInv
<1>1. /\ UNCHANGED <<database, stranded, creation, lost, faults>>
      /\ uploads' \subseteq uploads /\ expired \subseteq expired' /\ expired' \subseteq Files
      /\ year' \in Nat
  BY DEF NewYear, Expire, FindExpired, Unlink, FailToUnlink, DeleteUpload, Clean, TypeOK
<1> DEFINE PlacesAndCleaning ==
             /\ place' \in [Files -> {"temp", "gone"} \cup Requests]
             /\ \A g \in Files, p \in Requests : place'[g] = p <=> place[g] = p
             /\ cleaning' \in [Files -> {"idle", "found", "unlinked"}]
             /\ \A g \in Files : cleaning'[g] # "idle" \/ place'[g] = "gone" => g \in expired'
<1>2. PlacesAndCleaning
  <2>1. CASE NewYear
    BY <2>1 DEF NewYear, TypeOK, CleaningIsLate
  <2>2. ASSUME NEW f \in Files, Expire(f)
        PROVE  PlacesAndCleaning
    BY <2>2 DEF Expire, TypeOK, CleaningIsLate
  <2>3. ASSUME NEW f \in Files, FindExpired(f)
        PROVE  PlacesAndCleaning
    BY <2>3 DEF FindExpired, Clean, TypeOK, CleaningIsLate
  <2>4. ASSUME NEW f \in Files, Unlink(f)
        PROVE  PlacesAndCleaning
    <3>1. /\ cleaning[f] = "found" /\ f \in expired /\ expired' = expired
          /\ cleaning' = [cleaning EXCEPT ![f] = "unlinked"]
      BY <2>4 DEF Unlink, Clean, CleaningIsLate
    <3>2. PICK now \in {"temp", "gone"} \cup Requests : now = IF place[f] = "temp" THEN "gone" ELSE place[f]
      BY DEF TypeOK
    <3>3. place' = [place EXCEPT ![f] = now]
      BY <2>4, <3>2 DEF Unlink
    <3> QED
      BY <3>1, <3>2, <3>3, CreationSentinel DEF TypeOK, CleaningIsLate
  <2>5. ASSUME NEW f \in Files, DeleteUpload(f)
        PROVE  PlacesAndCleaning
    BY <2>5 DEF DeleteUpload, Clean, TypeOK, CleaningIsLate
  <2>6. ASSUME NEW f \in Files, FailToUnlink(f)
        PROVE  PlacesAndCleaning
    BY <2>6 DEF FailToUnlink, Clean, TypeOK, CleaningIsLate
  <2> QED
    BY <2>1, <2>2, <2>3, <2>4, <2>5, <2>6
<1>3. TypeOK' /\ FilesAreHeld' /\ CleaningIsLate'
  BY <1>1, <1>2 DEF TypeOK, FilesAreHeld, CleaningIsLate
<1>4. TicketsAreAsked'
  BY <1>1 DEF TicketsAreAsked
<1>5. Created' = Created
  BY <1>1 DEF Created
<1>6. AnswersAreRight' /\ LockIsHeld' /\ OneTicketPerKey'
  BY <1>1, <1>5 DEF AnswersAreRight, LockIsHeld, OneTicketPerKey, At, Taken
<1>7. StrandedAreHeld'
  <2>1. \A g \in stranded : g \in Files
    BY DEF TypeOK
  <2> QED
    BY <1>1, <1>2, <2>1 DEF StrandedAreHeld
<1> QED
  BY <1>3, <1>4, <1>6, <1>7

LEMMA CreationInvStep == CreationInv /\ [Next]_vars => CreationInv'
<1> SUFFICES ASSUME CreationInv, [Next]_vars PROVE CreationInv'
  OBVIOUS
<1>1. CASE UNCHANGED vars
  <2>1. Created' = Created
    BY <1>1 DEF Created
  <2> QED
    BY <1>1, <2>1
       DEF CreationInv, TypeOK, FilesAreHeld, StrandedAreHeld, CleaningIsLate, TicketsAreAsked,
           AnswersAreRight, LockIsHeld, OneTicketPerKey, At, Taken
<1>2. ASSUME NEW r \in Requests, Commit(r)
      PROVE  CreationInv'
  <2>1. CommitAs(r, "created") /\ lost' = lost /\ faults' \in Nat
    BY <1>2 DEF Commit, CreationInv, TypeOK
  <2> QED
    BY <2>1, CommitStep
<1>3. ASSUME NEW r \in Requests, LoseAnswer(r)
      PROVE  CreationInv'
  <2>1. CommitAs(r, "failed") /\ lost' = lost \cup {r} /\ faults' \in Nat
    BY <1>3 DEF LoseAnswer, CreationInv, TypeOK
  <2> QED
    BY <2>1, CommitStep
<1> QED
  BY <1>1, <1>2, <1>3, QuietSteps, ReserveStep, MoveStep, RestoreStep, FailRestoreStep,
     UploadsStep DEF Next, Steps

USE DEF cardsVars

-----------------------------------------------------------------------------
(* The settings page.  A touched input holds what was typed in it; what a  *)
(* card sends was typed or chosen for the very key.                        *)
ValueIsMeant(k, value) ==
  /\ <<k, value>> \in typedEver
  /\ \/ k \in SwitchKeys /\ value \in {"true", "false"}
     \/ k \in DraftKeys /\ value \in Phrase \cup {Empty, "null"}
IsSent(request, card) ==
  /\ request = [at |-> request.at, values |-> request.values, marks |-> request.marks]
  /\ request.at \in {"server", "back"}
  /\ request.marks \subseteq DOMAIN request.values /\ DOMAIN request.values \subseteq KeysOf[card]
  /\ \A k \in DOMAIN request.values : ValueIsMeant(k, request.values[k])
SavesAreMeant ==
  /\ sending = [c \in CardName |-> sending[c]]
  /\ \A c \in CardName : sending[c] # Nowhere => IsSent(sending[c], c)
TouchedAreTyped == \A k \in dirty : <<k, draft[k]>> \in typedEver

(* The copy that is on its way shows no secret.                            *)
CopiesAreShown ==
  reading # Nowhere => /\ reading = [at |-> "way", copy |-> reading.copy]
                       /\ \A k \in WriteOnly : reading.copy[k] = Empty

CardsInv == CardsTypeOK /\ SavesAreMeant /\ TouchedAreTyped /\ CopiesAreShown

LEMMA ValuesByKey ==
  /\ \A k \in DraftKeys : k \in SettingKeys /\ k \notin SwitchKeys /\ Value(k) = Phrase \cup {Empty}
  /\ \A k \in SwitchKeys : k \in SettingKeys /\ k \notin DraftKeys /\ Value(k) = {"true", "false"}
  /\ \A k \in WriteOnly : k \in DraftKeys
  /\ \A k \in SettingKeys : k \in DraftKeys \/ k \in SwitchKeys
<1>1. SettingKeys = DraftKeys \cup SwitchKeys
  BY DEF SettingKeys
<1>2. DraftKeys \cap SwitchKeys = {} /\ WriteOnly \subseteq DraftKeys
  BY CardsAssumption
<1> QED
  BY <1>1, <1>2 DEF Value

LEMMA CardNumbers == MaxTyped \in Nat /\ MaxSaves \in Nat /\ MaxOthers \in Nat
BY CardsAssumption

LEMMA SettingsByKey ==
  ASSUME NEW f, f = [k \in SettingKeys |-> f[k]], \A k \in SettingKeys : f[k] \in Value(k)
  PROVE  f \in SettingValues
<1>1. \A k \in SettingKeys : Value(k) \subseteq Phrase \cup {Empty, "true", "false"}
  BY DEF Value
<1>2. \A k \in SettingKeys : f[k] \in Phrase \cup {Empty, "true", "false"}
  BY <1>1
<1>3. f \in [SettingKeys -> Phrase \cup {Empty, "true", "false"}]
  BY <1>2
<1> QED
  BY <1>3 DEF SettingValues

LEMMA ShownSettings ==
  ASSUME NEW s \in SettingValues
  PROVE  Shown(s) \in SettingValues /\ \A k \in WriteOnly : Shown(s)[k] = Empty
<1>1. \A k \in SettingKeys : s[k] \in Value(k)
  BY DEF SettingValues
<1>2. \A k \in SettingKeys : Shown(s)[k] = IF k \in WriteOnly THEN Empty ELSE s[k]
  BY DEF Shown
<1>3. \A k \in WriteOnly : k \in SettingKeys /\ Empty \in Value(k)
  BY ValuesByKey
<1>4. \A k \in SettingKeys : Shown(s)[k] \in Value(k)
  BY <1>1, <1>2, <1>3
<1>5. Shown(s) = [k \in SettingKeys |-> Shown(s)[k]]
  BY DEF Shown
<1>6. Shown(s) \in SettingValues
  BY <1>4, <1>5, SettingsByKey
<1> QED
  BY <1>2, <1>3, <1>6

LEMMA CardsInvInit == CardsInit => CardsInv
<1> SUFFICES ASSUME CardsInit PROVE CardsInv
  OBVIOUS
<1>1. saved \in SettingValues
  <2>1. \A k \in SettingKeys : saved[k] = IF k \in SwitchKeys THEN "true" ELSE Empty
    BY DEF CardsInit
  <2>2. \A k \in SettingKeys : saved[k] \in Value(k)
    BY <2>1 DEF Value
  <2>3. saved = [k \in SettingKeys |-> saved[k]]
    BY DEF CardsInit
  <2> QED
    BY <2>2, <2>3, SettingsByKey
<1>2. settings \in SettingValues /\ \A k \in WriteOnly : settings[k] = Empty
  BY <1>1, ShownSettings DEF CardsInit
<1>3. draft \in [DraftKeys -> Phrase \cup {Empty}]
  <2>1. \A k \in DraftKeys : settings[k] \in Phrase \cup {Empty}
    BY <1>2, ValuesByKey DEF SettingValues
  <2> QED
    BY <2>1 DEF CardsInit
<1>4. \A c \in CardName : sending[c] = Nowhere
  BY DEF CardsInit
<1>5. reading = Nowhere /\ dirty = {} /\ typedCount = 0 /\ saveCount = 0 /\ otherCount = 0
  BY DEF CardsInit
<1>6. edited = [k \in DraftKeys |-> "settled"]
  BY DEF CardsInit
<1>7. CardsTypeOK
  <2>1. edited \in [DraftKeys -> {"typed", "late", "settled"}] /\ \A k \in DraftKeys : edited[k] # "typed"
    BY <1>6
  <2>2. typedCount \in 0..MaxTyped /\ saveCount \in 0..MaxSaves /\ otherCount \in 0..MaxOthers
    BY <1>5, CardNumbers
  <2> QED
    BY <1>1, <1>2, <1>3, <1>4, <1>5, <2>1, <2>2 DEF CardsTypeOK
<1>8. SavesAreMeant
  BY <1>4 DEF CardsInit, SavesAreMeant
<1>9. TouchedAreTyped /\ CopiesAreShown
  BY <1>5 DEF TouchedAreTyped, CopiesAreShown
<1> QED
  BY <1>7, <1>8, <1>9 DEF CardsInv

(* What was typed or chosen stays so.                                      *)
LEMMA MeaningStays ==
  ASSUME NEW request, NEW card, IsSent(request, card), typedEver \subseteq typedEver'
  PROVE  /\ \A k \in DOMAIN request.values :
              /\ <<k, request.values[k]>> \in typedEver'
              /\ \/ k \in SwitchKeys /\ request.values[k] \in {"true", "false"}
                 \/ k \in DraftKeys /\ request.values[k] \in Phrase \cup {Empty, "null"}
         /\ request = [at |-> request.at, values |-> request.values, marks |-> request.marks]
         /\ request.at \in {"server", "back"}
         /\ request.marks \subseteq DOMAIN request.values
         /\ DOMAIN request.values \subseteq KeysOf[card]
BY DEF IsSent, ValueIsMeant

LEMMA SendsStay ==
  ASSUME SavesAreMeant, UNCHANGED sending, typedEver \subseteq typedEver' PROVE SavesAreMeant'
BY MeaningStays DEF SavesAreMeant, IsSent, ValueIsMeant

LEMMA TypesSetting ==
  ASSUME CardsInv, NEW k \in DraftKeys, NEW text \in Phrase \cup {Empty}, TypeSetting(k, text)
  PROVE  CardsInv'
<1>1. /\ draft' = [draft EXCEPT ![k] = text] /\ dirty' = dirty \cup {k}
      /\ typedEver' = typedEver \cup {<<k, text>>}
      /\ UNCHANGED <<saved, settings, reading, sending, saveCount, otherCount>>
  BY DEF TypeSetting
<1>2. typedCount' \in 0 .. MaxTyped
  <2>1. typedCount \in 0 .. MaxTyped /\ typedCount < MaxTyped /\ typedCount' = typedCount + 1
    BY DEF TypeSetting, CardsInv, CardsTypeOK
  <2> QED
    BY <2>1, CardNumbers
<1>3. PICK mark \in {"late", "typed"} : edited' = [edited EXCEPT ![k] = mark]
  <2>1. edited' = [edited EXCEPT ![k] = IF InFlight(k) THEN "late" ELSE "typed"]
    BY DEF TypeSetting
  <2> QED
    BY <2>1
<1>4. /\ draft' \in [DraftKeys -> Phrase \cup {Empty}] /\ dirty' \subseteq DraftKeys
      /\ edited' \in [DraftKeys -> {"typed", "late", "settled"}]
      /\ \A x \in DraftKeys : x \notin dirty' => edited'[x] # "typed"
  BY <1>1, <1>3 DEF CardsInv, CardsTypeOK
<1>5. CardsTypeOK'
  BY <1>1, <1>2, <1>4 DEF CardsInv, CardsTypeOK
<1>6. SavesAreMeant'
  BY <1>1, SendsStay DEF CardsInv
<1>7. TouchedAreTyped'
  BY <1>1 DEF CardsInv, CardsTypeOK, TouchedAreTyped
<1>8. CopiesAreShown'
  BY <1>1 DEF CardsInv, CopiesAreShown
<1> QED
  BY <1>5, <1>6, <1>7, <1>8 DEF CardsInv

LEMMA AsksSettings == ASSUME CardsInv, AskSettings PROVE CardsInv'
<1>1. /\ reading' = [at |-> "way", copy |-> Shown(saved)]
      /\ UNCHANGED <<saved, settings, draft, dirty, sending, edited, typedEver, typedCount,
                     saveCount, otherCount>>
  BY DEF AskSettings
<1>2. Shown(saved) \in SettingValues /\ \A k \in WriteOnly : Shown(saved)[k] = Empty
  BY ShownSettings DEF CardsInv, CardsTypeOK
<1>3. CardsTypeOK'
  BY <1>1, <1>2 DEF CardsInv, CardsTypeOK
<1>4. SavesAreMeant'
  BY <1>1, SendsStay DEF CardsInv
<1>5. TouchedAreTyped' /\ CopiesAreShown'
  BY <1>1, <1>2 DEF CardsInv, TouchedAreTyped, CopiesAreShown
<1> QED
  BY <1>3, <1>4, <1>5 DEF CardsInv

LEMMA RefreshesDrafts == ASSUME CardsInv, RefreshDrafts PROVE CardsInv'
<1> DEFINE copy == reading.copy
<1>1. /\ settings' = copy /\ reading' = Nowhere
      /\ draft' = [k \in DraftKeys |-> IF k \in dirty THEN draft[k] ELSE copy[k]]
      /\ edited' = [k \in DraftKeys |-> IF k \in dirty THEN edited[k] ELSE "settled"]
      /\ UNCHANGED <<saved, dirty, sending, typedEver, typedCount, saveCount, otherCount>>
  BY DEF RefreshDrafts, SyncDraft
<1>2. copy \in SettingValues /\ \A k \in WriteOnly : copy[k] = Empty
  BY DEF RefreshDrafts, CardsInv, CardsTypeOK, CopiesAreShown
<1> HIDE DEF copy
<1>3. \A k \in DraftKeys : copy[k] \in Phrase \cup {Empty}
  BY <1>2, ValuesByKey DEF SettingValues
<1>4. draft' \in [DraftKeys -> Phrase \cup {Empty}]
  BY <1>1, <1>3 DEF CardsInv, CardsTypeOK
<1>5. /\ edited' \in [DraftKeys -> {"typed", "late", "settled"}]
      /\ \A k \in DraftKeys : k \notin dirty' => edited'[k] # "typed"
  BY <1>1 DEF CardsInv, CardsTypeOK
<1>6. CardsTypeOK'
  BY <1>1, <1>2, <1>4, <1>5 DEF CardsInv, CardsTypeOK
<1>7. SavesAreMeant'
  BY <1>1, SendsStay DEF CardsInv
<1>8. TouchedAreTyped'
  BY <1>1 DEF CardsInv, CardsTypeOK, TouchedAreTyped
<1>9. CopiesAreShown'
  BY <1>1 DEF CopiesAreShown
<1> QED
  BY <1>6, <1>7, <1>8, <1>9 DEF CardsInv

LEMMA SendsOff ==
  ASSUME CardsInv, NEW card \in CardName, NEW values, NEW marks, Send_(card, values, marks),
         marks \subseteq DOMAIN values, DOMAIN values \subseteq KeysOf[card],
         typedEver \subseteq typedEver',
         \A k \in DOMAIN values :
           /\ <<k, values[k]>> \in typedEver'
           /\ \/ k \in SwitchKeys /\ values[k] \in {"true", "false"}
              \/ k \in DraftKeys /\ values[k] \in Phrase \cup {Empty, "null"}
  PROVE  CardsInv'
<1> DEFINE request == [at |-> "server", values |-> values, marks |-> marks]
<1>1. /\ sending' = [sending EXCEPT ![card] = request]
      /\ UNCHANGED <<saved, settings, reading, draft, dirty, edited, typedCount, otherCount>>
  BY DEF Send_
<1>2. saveCount' \in 0 .. MaxSaves
  <2>1. saveCount \in 0 .. MaxSaves /\ saveCount < MaxSaves /\ saveCount' = saveCount + 1
    BY DEF Send_, CardsInv, CardsTypeOK
  <2> QED
    BY <2>1, CardNumbers
<1>3. /\ request.at = "server" /\ request.values = values /\ request.marks = marks
      /\ request = [at |-> request.at, values |-> request.values, marks |-> request.marks]
  OBVIOUS
<1> HIDE DEF request
<1>4. sending' = [c \in CardName |-> IF c = card THEN request ELSE sending[c]]
  BY <1>1 DEF CardsInv, SavesAreMeant
<1>5. SavesAreMeant'
  <2>1. sending' = [c \in CardName |-> sending'[c]]
    BY <1>4
  <2>2. ASSUME NEW c \in CardName, sending'[c] # Nowhere PROVE IsSent(sending[c], c)'
    <3>1. CASE c = card
      BY <1>3, <1>4, <3>1 DEF IsSent, ValueIsMeant
    <3>2. CASE c # card
      <4>1. sending'[c] = sending[c] /\ IsSent(sending[c], c)
        BY <1>4, <2>2, <3>2 DEF CardsInv, SavesAreMeant
      <4> QED
        BY <4>1, MeaningStays DEF IsSent, ValueIsMeant
    <3> QED
      BY <3>1, <3>2
  <2> QED
    BY <2>1, <2>2 DEF SavesAreMeant
<1>6. CardsTypeOK'
  <2>1. \A c \in CardName :
          sending'[c] # Nowhere => sending'[c].marks \subseteq DOMAIN sending'[c].values
                                  /\ DOMAIN sending'[c].values \subseteq KeysOf[c]
    BY <1>5 DEF SavesAreMeant, IsSent
  <2> QED
    BY <1>1, <1>2, <2>1 DEF CardsInv, CardsTypeOK
<1>7. TouchedAreTyped' /\ CopiesAreShown'
  BY <1>1 DEF CardsInv, TouchedAreTyped, CopiesAreShown
<1> QED
  BY <1>5, <1>6, <1>7 DEF CardsInv

LEMMA SendsDraft == ASSUME CardsInv, NEW card \in CardName, SendDraft(card) PROVE CardsInv'
<1> DEFINE values == ChangedValues(KeysOf[card])
<1>1. Send_(card, values, DOMAIN values) /\ UNCHANGED typedEver
  BY DEF SendDraft
<1>2. \A k \in DOMAIN values : k \in KeysOf[card] \cap dirty /\ values[k] = draft[k]
  BY DEF ChangedValues
<1> HIDE DEF values
<1>3. \A k \in DOMAIN values : k \in DraftKeys /\ values[k] \in Phrase \cup {Empty}
  BY <1>2 DEF CardsInv, CardsTypeOK
<1>4. \A k \in DOMAIN values : <<k, values[k]>> \in typedEver'
  BY <1>1, <1>2 DEF CardsInv, TouchedAreTyped
<1>5. DOMAIN values \subseteq KeysOf[card] /\ DOMAIN values \subseteq DOMAIN values
  BY <1>2
<1>6. typedEver \subseteq typedEver'
  BY <1>1
<1> QED
  BY <1>1, <1>3, <1>4, <1>5, <1>6, SendsOff

LEMMA SendsOne ==
  ASSUME CardsInv, NEW card \in CardName, NEW k \in KeysOf[card], NEW value, NEW marks \in SUBSET {k},
         Send_(card, [x \in {k} |-> value], marks), typedEver' = typedEver \cup {<<k, value>>},
         \/ k \in SwitchKeys /\ value \in {"true", "false"}
         \/ k \in DraftKeys /\ value \in Phrase \cup {Empty, "null"}
  PROVE  CardsInv'
<1> DEFINE values == [x \in {k} |-> value]
<1>1. DOMAIN values = {k} /\ values[k] = value /\ Send_(card, values, marks)
  OBVIOUS
<1> HIDE DEF values
<1>2. /\ marks \subseteq DOMAIN values /\ DOMAIN values \subseteq KeysOf[card]
      /\ typedEver \subseteq typedEver'
  BY <1>1
<1>3. \A x \in DOMAIN values :
        /\ <<x, values[x]>> \in typedEver'
        /\ \/ x \in SwitchKeys /\ values[x] \in {"true", "false"}
           \/ x \in DraftKeys /\ values[x] \in Phrase \cup {Empty, "null"}
  BY <1>1
<1> QED
  BY <1>1, <1>2, <1>3, SendsOff

LEMMA RemovesSaved ==
  ASSUME CardsInv, NEW card \in CardName, NEW k \in DraftKeys, RemoveSaved(card, k) PROVE CardsInv'
<1>1. PICK marks \in SUBSET {k} : marks = IF card = "certificates" THEN {k} ELSE {}
  OBVIOUS
<1>2. /\ k \in KeysOf[card] /\ Send_(card, [x \in {k} |-> "null"], marks)
      /\ typedEver' = typedEver \cup {<<k, "null">>}
  BY <1>1 DEF RemoveSaved
<1> QED
  BY <1>2, SendsOne

LEMMA Switches ==
  ASSUME CardsInv, NEW card \in CardName, NEW k \in SwitchKeys, SwitchBy(card, k) PROVE CardsInv'
<1>1. PICK value \in {"true", "false"} : value = Opposite(k)
  BY DEF Opposite
<1>2. /\ k \in KeysOf[card] /\ Send_(card, [x \in {k} |-> value], {})
      /\ typedEver' = typedEver \cup {<<k, value>>}
  BY <1>1 DEF SwitchBy
<1>3. PICK marks \in SUBSET {k} : marks = {}
  OBVIOUS
<1>4. Send_(card, [x \in {k} |-> value], marks)
  BY <1>2, <1>3
<1> QED
  BY <1>2, <1>4, SendsOne

LEMMA Applies == ASSUME CardsInv, NEW card \in CardName, Apply(card) PROVE CardsInv'
<1> DEFINE values == sending[card].values
           request == [sending[card] EXCEPT !.at = "back"]
<1>1. IsSent(sending[card], card)
  BY DEF Apply, CardsInv, SavesAreMeant
<1>2. /\ saved' = [k \in SettingKeys |-> Stores(values, k)]
      /\ sending' = [sending EXCEPT ![card].at = "back"]
      /\ UNCHANGED <<settings, reading, draft, dirty, edited, typedEver, typedCount, saveCount,
                     otherCount>>
  BY DEF Apply
<1>3. saved' \in SettingValues
  <2>1. ASSUME NEW k \in SettingKeys PROVE Stores(values, k) \in Value(k)
    <3>1. saved[k] \in Value(k)
      BY DEF CardsInv, CardsTypeOK, SettingValues
    <3>2. k \in DOMAIN values =>
            \/ k \in SwitchKeys /\ values[k] \in {"true", "false"}
            \/ k \in DraftKeys /\ values[k] \in Phrase \cup {Empty, "null"}
      BY <1>1 DEF IsSent, ValueIsMeant
    <3> HIDE DEF values
    <3>3. CASE k \in DOMAIN values /\ k \in SwitchKeys
      BY <3>2, <3>3, ValuesByKey DEF Stores, Empty
    <3>4. CASE k \in DOMAIN values /\ k \in DraftKeys
      BY <3>1, <3>2, <3>4, ValuesByKey DEF Stores
    <3>5. CASE k \notin DOMAIN values
      BY <3>1, <3>5 DEF Stores
    <3> QED
      BY <3>3, <3>4, <3>5, ValuesByKey
  <2>2. saved' = [k \in SettingKeys |-> saved'[k]]
    BY <1>2
  <2>3. \A k \in SettingKeys : saved'[k] \in Value(k)
    BY <1>2, <2>1
  <2> QED
    BY <2>2, <2>3, SettingsByKey
<1>4. /\ request.at = "back" /\ request.values = sending[card].values
      /\ request.marks = sending[card].marks
      /\ request = [at |-> request.at, values |-> request.values, marks |-> request.marks]
  BY <1>1 DEF IsSent
<1> HIDE DEF request, values
<1>5. sending' = [c \in CardName |-> IF c = card THEN request ELSE sending[c]]
  <2>1. sending = [c \in CardName |-> sending[c]]
    BY DEF CardsInv, SavesAreMeant
  <2> QED
    BY <1>2, <2>1 DEF request
<1>6. SavesAreMeant'
  <2>1. sending' = [c \in CardName |-> sending'[c]]
    BY <1>5
  <2>2. ASSUME NEW c \in CardName, sending'[c] # Nowhere PROVE IsSent(sending[c], c)'
    <3>1. CASE c = card
      BY <1>1, <1>2, <1>4, <1>5, <3>1 DEF IsSent, ValueIsMeant
    <3>2. CASE c # card
      <4>1. sending'[c] = sending[c] /\ IsSent(sending[c], c)
        BY <1>5, <2>2, <3>2 DEF CardsInv, SavesAreMeant
      <4> QED
        BY <1>2, <4>1 DEF IsSent, ValueIsMeant
    <3> QED
      BY <3>1, <3>2
  <2> QED
    BY <2>1, <2>2 DEF SavesAreMeant
<1>7. CardsTypeOK'
  <2>1. \A c \in CardName :
          sending'[c] # Nowhere => sending'[c].marks \subseteq DOMAIN sending'[c].values
                                  /\ DOMAIN sending'[c].values \subseteq KeysOf[c]
    BY <1>6 DEF SavesAreMeant, IsSent
  <2> QED
    BY <1>2, <1>3, <2>1 DEF CardsInv, CardsTypeOK
<1>8. TouchedAreTyped' /\ CopiesAreShown'
  BY <1>2 DEF CardsInv, TouchedAreTyped, CopiesAreShown
<1> QED
  BY <1>6, <1>7, <1>8 DEF CardsInv

(* The end of a save.                                                      *)
LEMMA SaveEnds ==
  ASSUME CardsInv, NEW card \in CardName, sending' = [sending EXCEPT ![card] = Nowhere],
         UNCHANGED <<saved, settings, draft, typedEver, typedCount, saveCount, otherCount>>,
         dirty' \subseteq dirty, edited' \in [DraftKeys -> {"typed", "late", "settled"}],
         \A k \in DraftKeys : k \notin dirty' => edited'[k] # "typed",
         reading' \in {reading, [at |-> "way", copy |-> Shown(saved)]}
  PROVE  CardsInv'
<1>1. Shown(saved) \in SettingValues /\ \A k \in WriteOnly : Shown(saved)[k] = Empty
  BY ShownSettings DEF CardsInv, CardsTypeOK
<1>2. sending' = [c \in CardName |-> IF c = card THEN Nowhere ELSE sending[c]]
  BY DEF CardsInv, SavesAreMeant
<1>3. SavesAreMeant'
  BY <1>2 DEF CardsInv, SavesAreMeant, IsSent, ValueIsMeant
<1>4. CopiesAreShown' /\ (reading' # Nowhere => reading'.copy \in SettingValues)
  BY <1>1 DEF CardsInv, CardsTypeOK, CopiesAreShown
<1>5. \A c \in CardName :
        sending'[c] # Nowhere => sending'[c].marks \subseteq DOMAIN sending'[c].values
                                /\ DOMAIN sending'[c].values \subseteq KeysOf[c]
  BY <1>3 DEF SavesAreMeant, IsSent
<1>6. CardsTypeOK'
  BY <1>4, <1>5 DEF CardsInv, CardsTypeOK
<1>7. TouchedAreTyped'
  BY DEF CardsInv, TouchedAreTyped
<1> QED
  BY <1>3, <1>4, <1>6, <1>7 DEF CardsInv

LEMMA MarksSaved == ASSUME CardsInv, NEW card \in CardName, MarkSaved(card) PROVE CardsInv'
<1>1. edited' = [k \in DraftKeys |-> IF k \in sending[card].marks /\ edited[k] = "typed"
                                       THEN "settled" ELSE edited[k]]
  BY DEF MarkSaved
<1>2. /\ dirty' = dirty \ sending[card].marks /\ sending' = [sending EXCEPT ![card] = Nowhere]
      /\ reading' = [at |-> "way", copy |-> Shown(saved)]
      /\ UNCHANGED <<saved, settings, draft, typedEver, typedCount, saveCount, otherCount>>
  BY DEF MarkSaved
<1>3. edited' \in [DraftKeys -> {"typed", "late", "settled"}]
  BY <1>1 DEF CardsInv, CardsTypeOK
<1>4. \A k \in DraftKeys : k \notin dirty' => edited'[k] # "typed"
  BY <1>1, <1>2 DEF CardsInv, CardsTypeOK
<1> QED
  BY <1>2, <1>3, <1>4, SaveEnds

LEMMA SavesFail == ASSUME CardsInv, NEW card \in CardName, SaveFails(card) PROVE CardsInv'
<1>1. edited' = [k \in DraftKeys |->
                   IF k \in dirty \cap DOMAIN sending[card].values /\ edited[k] = "late"
                     THEN "typed" ELSE edited[k]]
  BY DEF SaveFails
<1>2. /\ sending' = [sending EXCEPT ![card] = Nowhere]
      /\ UNCHANGED <<saved, settings, reading, draft, dirty, typedEver, typedCount, saveCount,
                     otherCount>>
  BY DEF SaveFails
<1>3. edited' \in [DraftKeys -> {"typed", "late", "settled"}]
  BY <1>1 DEF CardsInv, CardsTypeOK
<1>4. \A k \in DraftKeys : k \notin dirty' => edited'[k] # "typed"
  BY <1>1, <1>2 DEF CardsInv, CardsTypeOK
<1> QED
  BY <1>2, <1>3, <1>4, SaveEnds

LEMMA OthersSaveToo ==
  ASSUME CardsInv, NEW k \in SettingKeys, NEW value \in Value(k), OthersSave(k, value)
  PROVE  CardsInv'
<1>1. /\ saved' = [saved EXCEPT ![k] = value]
      /\ UNCHANGED <<settings, reading, draft, dirty, sending, edited, typedEver, typedCount,
                     saveCount>>
  BY DEF OthersSave
<1>2. otherCount' \in 0 .. MaxOthers
  <2>1. otherCount \in 0 .. MaxOthers /\ otherCount < MaxOthers /\ otherCount' = otherCount + 1
    BY DEF OthersSave, CardsInv, CardsTypeOK
  <2> QED
    BY <2>1, CardNumbers
<1>3. saved' \in SettingValues
  <2>1. saved = [x \in SettingKeys |-> saved[x]] /\ \A x \in SettingKeys : saved[x] \in Value(x)
    BY DEF CardsInv, CardsTypeOK, SettingValues
  <2>2. saved' = [x \in SettingKeys |-> saved'[x]] /\ \A x \in SettingKeys : saved'[x] \in Value(x)
    BY <1>1, <2>1
  <2> QED
    BY <2>2, SettingsByKey
<1>4. CardsTypeOK'
  BY <1>1, <1>2, <1>3 DEF CardsInv, CardsTypeOK
<1>5. SavesAreMeant'
  BY <1>1, SendsStay DEF CardsInv
<1>6. TouchedAreTyped' /\ CopiesAreShown'
  BY <1>1 DEF CardsInv, TouchedAreTyped, CopiesAreShown
<1> QED
  BY <1>4, <1>5, <1>6 DEF CardsInv

LEMMA CardsInvStep == CardsInv /\ [CardsNext]_cardsVars => CardsInv'
<1> SUFFICES ASSUME CardsInv, [CardsNext]_cardsVars PROVE CardsInv'
  OBVIOUS
<1>1. CASE UNCHANGED cardsVars
  BY <1>1 DEF CardsInv, CardsTypeOK, SavesAreMeant, IsSent, ValueIsMeant, TouchedAreTyped,
              CopiesAreShown
<1>2. ASSUME NEW k \in DraftKeys, NEW text \in Phrase \cup {Empty}, TypeSetting(k, text)
      PROVE  CardsInv'
  BY <1>2, TypesSetting
<1>3. CASE AskSettings \/ RefreshDrafts
  BY <1>3, AsksSettings, RefreshesDrafts
<1>4. CASE SaveSmtp \/ SaveCertificates \/ SaveProvider \/ SaveButton
  <2>1. {"smtp", "certificates", "provider", "button"} \subseteq CardName
    BY DEF CardName, KeysOf
  <2> QED
    BY <1>4, <2>1, SendsDraft DEF SaveSmtp, SaveCertificates, SaveProvider, SaveButton
<1>5. ASSUME NEW card \in CardName, NEW k \in DraftKeys, RemoveSaved(card, k) PROVE CardsInv'
  BY <1>5, RemovesSaved
<1>6. ASSUME NEW k \in SwitchKeys, ToggleEmail(k) \/ ToggleLogin(k) \/ ToggleFlag(k)
      PROVE  CardsInv'
  <2>1. {"email", "login", "flags"} \subseteq CardName
    BY DEF CardName, KeysOf
  <2> QED
    BY <1>6, <2>1, Switches DEF ToggleEmail, ToggleLogin, ToggleFlag
<1>7. ASSUME NEW card \in CardName, Apply(card) \/ MarkSaved(card) \/ SaveFails(card) PROVE CardsInv'
  BY <1>7, Applies, MarksSaved, SavesFail
<1>8. ASSUME NEW k \in SettingKeys, NEW value \in Value(k), OthersSave(k, value) PROVE CardsInv'
  BY <1>8, OthersSaveToo
<1> QED
  BY <1>1, <1>2, <1>3, <1>4, <1>5, <1>6, <1>7, <1>8, Zenon DEF CardsNext

LEMMA CardsInvMeans == CardsInv => CardsTypeOK
BY DEF CardsInv

(* What a step of the page may do to the settings and to the inputs.       *)
LEMMA OthersKeep == CardsInv /\ [CardsNext]_cardsVars => OthersKeepTheirSettings
<1> SUFFICES ASSUME CardsInv, [CardsNext]_cardsVars, otherCount' = otherCount,
                    NEW k \in SettingKeys, saved'[k] # saved[k]
             PROVE  \/ <<k, saved'[k]>> \in typedEver
                    \/ saved'[k] = Empty /\ <<k, "null">> \in typedEver
  BY DEF OthersKeepTheirSettings
<1>1. PICK card \in CardName : Apply(card)
  <2>1. \A key, text : ~TypeSetting(key, text)
    BY DEF TypeSetting
  <2>2. ~AskSettings /\ ~RefreshDrafts
    BY DEF AskSettings, RefreshDrafts
  <2>3. \A card : ~SendDraft(card) /\ ~MarkSaved(card) /\ ~SaveFails(card)
    BY DEF SendDraft, Send_, MarkSaved, SaveFails
  <2>4. \A card, key : ~RemoveSaved(card, key) /\ ~SwitchBy(card, key)
    BY DEF RemoveSaved, SwitchBy, Send_
  <2>5. \A key \in SettingKeys : \A value : ~OthersSave(key, value)
    <3>1. otherCount \in Nat
      BY CardNumbers DEF CardsInv, CardsTypeOK
    <3> QED
      BY <3>1 DEF OthersSave
  <2>6. ~UNCHANGED cardsVars
    OBVIOUS
  <2> QED
    BY <2>1, <2>2, <2>3, <2>4, <2>5, <2>6, Zenon
    DEF CardsNext, SaveSmtp, SaveCertificates, SaveProvider, SaveButton, ToggleEmail, ToggleLogin,
        ToggleFlag
<1>2. saved'[k] = Stores(sending[card].values, k)
  BY <1>1 DEF Apply
<1>3. \A x \in DOMAIN sending[card].values : <<x, sending[card].values[x]>> \in typedEver
  BY <1>1 DEF Apply, CardsInv, SavesAreMeant, IsSent, ValueIsMeant
<1> QED
  BY <1>2, <1>3 DEF Stores

LEMMA RefreshesKeep == CardsInv /\ [CardsNext]_cardsVars => RefreshesKeepEdits
<1> SUFFICES ASSUME CardsInv, [CardsNext]_cardsVars, NEW k \in DraftKeys, draft'[k] # draft[k]
             PROVE  typedCount' > typedCount \/ edited[k] # "typed"
  BY DEF RefreshesKeepEdits
<1>1. ASSUME NEW key, NEW text, TypeSetting(key, text) PROVE typedCount' > typedCount
  <2>1. typedCount \in Nat
    BY CardNumbers DEF CardsInv, CardsTypeOK
  <2> QED
    BY <1>1, <2>1 DEF TypeSetting
<1>2. ASSUME RefreshDrafts PROVE edited[k] # "typed"
  <2>1. draft'[k] = IF k \in dirty THEN draft[k] ELSE reading.copy[k]
    BY <1>2 DEF RefreshDrafts, SyncDraft
  <2> QED
    BY <2>1 DEF CardsInv, CardsTypeOK
<1>3. ~AskSettings
  BY DEF AskSettings
<1>4. \A card : ~SendDraft(card) /\ ~MarkSaved(card) /\ ~SaveFails(card) /\ ~Apply(card)
  BY DEF SendDraft, Send_, MarkSaved, SaveFails, Apply
<1>5. \A card, key : ~RemoveSaved(card, key) /\ ~SwitchBy(card, key)
  BY DEF RemoveSaved, SwitchBy, Send_
<1>6. \A key, value : ~OthersSave(key, value)
  BY DEF OthersSave
<1>7. ~UNCHANGED cardsVars
  OBVIOUS
<1> QED
  BY <1>1, <1>2, <1>3, <1>4, <1>5, <1>6, <1>7, Zenon
  DEF CardsNext, SaveSmtp, SaveCertificates, SaveProvider, SaveButton, ToggleEmail, ToggleLogin,
      ToggleFlag

USE DEF envVars

-----------------------------------------------------------------------------
(* The managed sign-in file.  Unless a lock was stolen, who writes holds   *)
(* the lock, and has read what the file holds still.                       *)
WritersHoldTheLock ==
  stolen \/ \A w \in Writing : lockFile = w
ReadersAreUpToDate ==
  stolen \/ \A w \in Savers : SaverAt(w, "read") => saver[w].contents = envFile

(* A lock is removed by another only after a crash, or a failing call.     *)
Accident == crashedCount + envFaults > 0
LocksAgeAfterCrashes ==
  stolen \/ lockOld \/ lockFile = Abandoned \/ (\E w \in Savers : SaverAt(w, "stale"))
    => Accident

(* What a save writes was asked for, or is a field of Entra as the save    *)
(* found it, if it did; and what it judged complete was complete without the process. *)
Writable(w, f) ==
  saver[w].writes[f] \in Texts(f) \/ (saver[w].writes[f] = "null" /\ "" \in Texts(f))
AsFound(w, f) ==
  /\ f \in EntraFields /\ saver[w].submitted \subseteq EntraFields
  /\ saver[w].writes[f] = saver[w].judged[f] \/ saver[w].judged[f] = ""
SavesAreJudged ==
  \A w \in Savers : saver[w] # NoSave =>
    /\ \A f \in DOMAIN saver[w].writes : Writable(w, f)
    /\ \A f \in DOMAIN saver[w].writes \ saver[w].submitted : AsFound(w, f)
    /\ \/ borrowed \/ DOMAIN saver[w].writes \subseteq EntraFields
       \/ ReadOidcConfig(With(saver[w].judged, saver[w].writes))

EnvInv ==
  /\ EnvTypeOK /\ WritersHoldTheLock /\ ReadersAreUpToDate /\ LocksAgeAfterCrashes
  /\ SavesAreJudged /\ NextStartIsComplete

LEMMA EmptyIsFile == EmptyFile \in EnvFile
BY DEF EmptyFile, EnvFile, EnvField, OidcFields, EntraFields, Texts

LEMMA EnvInvInit == EnvInit => EnvInv
<1> SUFFICES ASSUME EnvInit PROVE EnvInv
  OBVIOUS
<1>1. envFile \in EnvFile
  BY DEF EnvInit, EnvFile, EnvField, OidcFields, EntraFields, Texts
<1>9. EmptyFile \in EnvFile
  BY EmptyIsFile
<1>2. ReadOidcConfig(envFile)
  BY DEF EnvInit, ReadOidcConfig, EnvField, OidcFields
<1>3. Free # Abandoned
  BY DEF Free, Abandoned
<1>4. \A w \in Savers : saver[w].at = "idle" /\ saver[w] = NoSave
  BY DEF EnvInit, NoSave
<1>5. EnvTypeOK
  <2>1. crashedCount \in 0..MaxCrashed /\ envFaults \in 0..MaxEnvFaults
    BY EnvAssumption DEF EnvInit
  <2>2. saver \in [Savers -> Save \cup {NoSave}]
    BY DEF EnvInit
  <2>3. {stolen, overtaken, misread, borrowed} \subseteq BOOLEAN /\ lockOld \in BOOLEAN
        /\ lockFile \in Savers \cup {Free, Abandoned} /\ {backup, running} \subseteq EnvFile
    BY <1>1, <1>9 DEF EnvInit
  <2> QED
    BY <1>1, <2>1, <2>2, <2>3 DEF EnvTypeOK
<1>6. WritersHoldTheLock /\ ReadersAreUpToDate
  BY <1>4 DEF WritersHoldTheLock, ReadersAreUpToDate, Writing, SaverAt
<1>7. LocksAgeAfterCrashes
  BY <1>3, <1>4 DEF EnvInit, LocksAgeAfterCrashes, SaverAt
<1>8. SavesAreJudged
  BY Zenon, <1>4 DEF SavesAreJudged
<1> QED
  BY <1>2, <1>5, <1>6, <1>7, <1>8 DEF EnvInv, NextStartIsComplete

LEMMA EnvInvMeans == EnvInv => EnvTypeOK /\ OneWriterUnlessStolen /\ NextStartIsComplete
<1> SUFFICES ASSUME EnvInv PROVE Cardinality(Writing) > 1 => stolen
  BY DEF EnvInv, OneWriterUnlessStolen, LocksAgeAfterCrashes, Accident
<1> SUFFICES ASSUME ~stolen PROVE ~(Cardinality(Writing) > 1)
  OBVIOUS
<1>1. Writing \subseteq {lockFile}
  BY DEF EnvInv, WritersHoldTheLock
<1>2. IsFiniteSet({lockFile}) /\ Cardinality({lockFile}) = 1
  BY FS_Singleton
<1>3. Cardinality(Writing) <= 1 /\ Cardinality(Writing) \in Nat
  BY <1>1, <1>2, FS_Subset, FS_CardinalityType
<1> QED
  BY <1>3

(* What a save makes of a file is a file.                                  *)
LEMMA WithIsFile ==
  ASSUME NEW file \in EnvFile, NEW values \in Edits,
         \A f \in DOMAIN values : values[f] \in Texts(f) \/ (values[f] = "null" /\ "" \in Texts(f))
  PROVE  With(file, values) \in EnvFile
BY DEF With, EnvFile, EnvField, OidcFields, EntraFields, Texts

LEMMA ManagedIsFile ==
  ASSUME NEW file \in EnvFile, running \in EnvFile PROVE Managed(file) \in EnvFile
BY DEF Managed, EnvFile, EnvField, OidcFields, EntraFields, Texts

(* Edits are functions on fields, those that are submitted and those that  *)
(* are written.                                                            *)
LEMMA SubmissionsAreEdits ==
  ASSUME NEW values \in Submissions
  PROVE  /\ values \in Edits /\ DOMAIN values \subseteq EnvField
         /\ \A f \in DOMAIN values :
              values[f] \in Texts(f) \/ (values[f] = "null" /\ "" \in Texts(f) /\ ~ForEntra(values))
<1> DEFINE V == {"client_secret", "private_key_jwt", "", "x", "y", "null"}
<1>1. \A D \in SUBSET EnvField : \A e \in [D -> V] : e \in Edits
  BY DEF Edits
<1>2. \E D \in SUBSET EnvField : values \in [D -> V]
  BY DEF Submissions, EnvField, OidcFields, EntraFields
<1>3. \A f \in DOMAIN values :
        values[f] \in Texts(f) \/ (values[f] = "null" /\ "" \in Texts(f) /\ ~ForEntra(values))
  BY DEF Submissions, Texts, ForEntra, EntraFields
<1> QED
  BY <1>1, <1>2, <1>3

(* The edits that a save writes.                                           *)
LEMMA WritesAreJudged ==
  ASSUME NEW file \in EnvFile, running \in EnvFile, NEW values \in Submissions
  PROVE  LET writes == Writes(file, values) IN
         /\ writes \in Edits
         /\ \A f \in DOMAIN writes :
              writes[f] \in Texts(f) \/ (writes[f] = "null" /\ "" \in Texts(f))
         /\ \A f \in DOMAIN writes \ DOMAIN values :
              /\ f \in EntraFields /\ DOMAIN values \subseteq EntraFields
              /\ writes[f] = file[f] \/ file[f] = ""
         /\ ForEntra(values) => DOMAIN writes \subseteq EntraFields
         /\ ~ForEntra(values) => writes = values
<1>1. CASE ForEntra(values)
  <2> DEFINE candidate == With(Managed(file), values)
             writes == [f \in EntraFields |-> candidate[f]]
  <2>1. Writes(file, values) = writes
    BY <1>1 DEF Writes, ApplyEntraSettings
  <2>2. candidate \in EnvFile /\ Managed(file) \in EnvFile
    BY ManagedIsFile, SubmissionsAreEdits, WithIsFile
  <2>3. \A f \in EntraFields : f \notin DOMAIN values => candidate[f] = file[f] \/ file[f] = ""
    BY DEF With, Managed, EnvFile, EnvField, EntraFields, OidcFields, Texts
  <2>4. \A f \in EntraFields : candidate[f] \in Texts(f) /\ f \in EnvField
                               /\ candidate[f] \in {"client_secret", "private_key_jwt", "", "x", "y", "null"}
    BY <2>2 DEF EnvFile, EnvField
  <2> HIDE DEF candidate
  <2>5. writes \in Edits
    <3>1. writes \in [EntraFields -> {"client_secret", "private_key_jwt", "", "x", "y", "null"}]
      BY <2>4
    <3>2. EntraFields \in SUBSET EnvField
      BY DEF EnvField
    <3> QED
      BY <3>1, <3>2 DEF Edits
  <2> QED
    BY <1>1, <2>1, <2>3, <2>4, <2>5 DEF ForEntra
<1>2. CASE ~ForEntra(values)
  <2>1. Writes(file, values) = values
    BY <1>2 DEF Writes, ApplyOidcSettings
  <2> QED
    BY <1>2, <2>1, SubmissionsAreEdits
<1> QED
  BY <1>1, <1>2

(* A save goes on or ends, the lock passing from one to another, and the   *)
(* file stays.                                                             *)
LEMMA EnvSaveMoves ==
  ASSUME EnvInv, NEW w \in Savers, NEW to \in Save \cup {NoSave},
         saver' = [saver EXCEPT ![w] = to],
         \/ to = NoSave
         \/ /\ saver[w] # NoSave /\ to.writes = saver[w].writes
            /\ to.judged = saver[w].judged /\ to.submitted = saver[w].submitted,
         to # NoSave /\ to.at = "read" => to.contents = envFile \/ stolen',
         envFaults' \in 0..MaxEnvFaults, Accident => Accident', backup' \in EnvFile,
         to # NoSave /\ to.at = "stale" => Accident,
         \/ stolen'
         \/ /\ \A v \in Writing \ {w} : lockFile' = v
            /\ to # NoSave /\ to.at \in {"locked", "read", "blind", "renamed"} => lockFile' = w,
         lockFile' \in Savers \cup {Free, Abandoned}, lockOld' \in BOOLEAN, stolen' \in BOOLEAN,
         stolen => stolen', (stolen' \/ lockOld' \/ lockFile' = Abandoned) => Accident',
         UNCHANGED <<envFile, running, overtaken, misread, borrowed, crashedCount>>
  PROVE  EnvInv'
<1>1. saver \in [Savers -> Save \cup {NoSave}]
  BY DEF EnvInv, EnvTypeOK
<1>2. EnvTypeOK'
  BY <1>1 DEF EnvInv, EnvTypeOK
<1>3. \A v \in Savers : v # w => saver'[v] = saver[v]
  BY <1>1
<1>4. saver'[w] = to
  BY <1>1
<1>5. NoSave.at = "idle"
  BY DEF NoSave
<1>6. WritersHoldTheLock'
  <2>1. \A v \in Writing' : v = w \/ v \in Writing \ {w}
    BY <1>3 DEF Writing
  <2>2. w \in Writing' => to # NoSave /\ to.at \in {"locked", "read", "blind", "renamed"}
    BY <1>4, <1>5 DEF Writing
  <2> QED
    BY <2>1, <2>2 DEF WritersHoldTheLock
<1>7. ReadersAreUpToDate'
  BY <1>3, <1>4, <1>5 DEF EnvInv, ReadersAreUpToDate, SaverAt
<1>8. LocksAgeAfterCrashes'
  <2>1. (\E v \in Savers : SaverAt(v, "stale")') => Accident
    BY <1>3, <1>4, <1>5 DEF EnvInv, LocksAgeAfterCrashes, SaverAt
  <2> QED
    BY <2>1 DEF LocksAgeAfterCrashes
<1>9. SavesAreJudged'
  <2> SUFFICES ASSUME NEW v \in Savers, saver'[v] # NoSave
               PROVE  /\ \A f \in DOMAIN saver'[v].writes : Writable(v, f)'
                      /\ \A f \in DOMAIN saver'[v].writes \ saver'[v].submitted : AsFound(v, f)'
                      /\ \/ borrowed' \/ DOMAIN saver'[v].writes \subseteq EntraFields
                         \/ ReadOidcConfig(With(saver'[v].judged, saver'[v].writes))
    BY DEF SavesAreJudged
  <2>1. /\ saver[v] # NoSave /\ saver'[v].writes = saver[v].writes
        /\ saver'[v].judged = saver[v].judged /\ saver'[v].submitted = saver[v].submitted
    BY <1>3, <1>4
  <2>2. /\ \A f \in DOMAIN saver[v].writes : Writable(v, f)
        /\ \A f \in DOMAIN saver[v].writes \ saver[v].submitted : AsFound(v, f)
        /\ \/ borrowed \/ DOMAIN saver[v].writes \subseteq EntraFields
           \/ ReadOidcConfig(With(saver[v].judged, saver[v].writes))
    BY <2>1 DEF EnvInv, SavesAreJudged
  <2>3. \A f : /\ Writable(v, f)' <=> Writable(v, f)
               /\ AsFound(v, f)' <=> AsFound(v, f)
    BY <2>1 DEF Writable, AsFound
  <2> QED
    BY <2>1, <2>2, <2>3
<1>10. NextStartIsComplete'
  BY DEF EnvInv, NextStartIsComplete
<1> QED
  BY <1>2, <1>6, <1>7, <1>8, <1>9, <1>10 DEF EnvInv

(* Unless its lock was stolen, who writes is alone.                        *)
LEMMA WritersAreAlone ==
  ASSUME EnvInv, ~stolen, NEW w \in Writing
  PROVE  lockFile = w /\ \A v \in Writing : v = w
BY DEF EnvInv, WritersHoldTheLock

(* A save changes only what was submitted.                                 *)
LEMMA WriteKeepsTheRest ==
  ASSUME EnvInv, NEW w \in Savers, WriteAtomically(w)
  PROVE  /\ envFile' \in EnvFile
         /\ ~stolen => /\ saver[w].contents = envFile \/ saver[w].at = "blind"
                       /\ saver[w].judged = envFile \/ overtaken'
         /\ ~stolen /\ saver[w].at = "read" => \A f \in EnvField \ saver[w].submitted :
              \/ envFile'[f] = envFile[f]
              \/ /\ f \in EntraFields /\ saver[w].submitted \subseteq EntraFields
                 /\ saver[w].judged # envFile \/ envFile[f] = ""
<1>1. saver[w] \in Save /\ saver[w] # NoSave /\ saver[w].at \in {"read", "blind"}
  BY DEF EnvInv, EnvTypeOK, WriteAtomically, SaverAt, NoSave
<1>2. saver[w].contents \in EnvFile /\ saver[w].writes \in Edits
  BY <1>1 DEF Save
<1>3. envFile' = With(saver[w].contents, saver[w].writes)
  BY DEF WriteAtomically
<1>4. envFile' \in EnvFile
  BY <1>1, <1>2, <1>3, WithIsFile DEF EnvInv, SavesAreJudged, Writable
<1>5. ~stolen => saver[w].contents = envFile \/ saver[w].at = "blind"
  BY <1>1 DEF EnvInv, ReadersAreUpToDate, SaverAt
<1>6. saver[w].judged = envFile \/ overtaken'
  BY DEF WriteAtomically
<1>7. ASSUME ~stolen, saver[w].at = "read", NEW f \in EnvField \ saver[w].submitted
      PROVE  \/ envFile'[f] = envFile[f]
             \/ /\ f \in EntraFields /\ saver[w].submitted \subseteq EntraFields
                /\ saver[w].judged # envFile \/ envFile[f] = ""
  <2>1. CASE f \notin DOMAIN saver[w].writes
    BY <1>3, <1>5, <1>7, <2>1 DEF With
  <2>2. CASE f \in DOMAIN saver[w].writes
    <3>1. AsFound(w, f)
      BY <1>1, <2>2 DEF EnvInv, SavesAreJudged
    <3>2. envFile'[f] = IF saver[w].writes[f] = "null" THEN "" ELSE saver[w].writes[f]
      BY <1>3, <2>2 DEF With
    <3>3. saver[w].judged \in EnvFile
      BY <1>1 DEF Save
    <3>4. saver[w].judged[f] # "null"
      BY <3>1, <3>3 DEF AsFound, EntraFields, EnvField, EnvFile, Texts
    <3>5. CASE saver[w].judged = envFile /\ envFile[f] # ""
      BY <3>1, <3>2, <3>4, <3>5 DEF AsFound
    <3> QED
      BY <3>1, <3>5 DEF AsFound
  <2> QED
    BY <2>1, <2>2
<1> QED
  BY <1>4, <1>5, <1>6, <1>7

LEMMA EnvWriteStep ==
  ASSUME EnvInv, NEW w \in Savers, WriteAtomically(w)
  PROVE  EnvInv'
<1>1. saver[w] \in Save /\ saver[w] # NoSave /\ saver[w].at \in {"read", "blind"}
  BY DEF EnvInv, EnvTypeOK, WriteAtomically, SaverAt, NoSave
<1> DEFINE to == [saver[w] EXCEPT !.at = "renamed"]
<1>2. /\ to \in Save /\ to.at = "renamed" /\ to.writes = saver[w].writes
      /\ to.judged = saver[w].judged /\ to.submitted = saver[w].submitted
  BY <1>1 DEF Save
<1>3. /\ saver' = [saver EXCEPT ![w] = to]
      /\ overtaken' = (overtaken \/ saver[w].judged # envFile) /\ backup' = envFile
      /\ misread' = (misread \/ saver[w].at = "blind")
      /\ UNCHANGED <<running, lockFile, lockOld, stolen, borrowed, crashedCount, envFaults>>
  BY DEF WriteAtomically, Going, SaverAt
<1>4. saver \in [Savers -> Save \cup {NoSave}] /\ overtaken \in BOOLEAN /\ misread \in BOOLEAN
  BY DEF EnvInv, EnvTypeOK
<1> HIDE DEF to
<1>5. \A v \in Savers : v # w => saver'[v] = saver[v]
  BY <1>3, <1>4
<1>6. saver'[w] = to /\ overtaken' \in BOOLEAN /\ misread' \in BOOLEAN
  BY <1>3, <1>4
<1>7. EnvTypeOK'
  BY <1>2, <1>3, <1>4, <1>6, WriteKeepsTheRest DEF EnvInv, EnvTypeOK
<1>8. w \in Writing /\ Writing' = Writing
  BY <1>1, <1>2, <1>5, <1>6 DEF Writing
<1>9. WritersHoldTheLock'
  BY <1>3, <1>8 DEF EnvInv, WritersHoldTheLock
<1>10. ReadersAreUpToDate'
  <2>1. \A v \in Savers : SaverAt(v, "read")' => v # w /\ v \in Writing
    BY <1>2, <1>5, <1>6 DEF SaverAt, Writing
  <2>2. ~stolen => \A v \in Writing : v = w
    BY <1>8, WritersAreAlone
  <2> QED
    BY <1>3, <2>1, <2>2 DEF ReadersAreUpToDate
<1>11. LocksAgeAfterCrashes'
  BY <1>2, <1>3, <1>5, <1>6 DEF EnvInv, LocksAgeAfterCrashes, SaverAt, Accident
<1>12. SavesAreJudged'
  <2> SUFFICES ASSUME NEW v \in Savers, saver'[v] # NoSave
               PROVE  /\ \A f \in DOMAIN saver'[v].writes : Writable(v, f)'
                      /\ \A f \in DOMAIN saver'[v].writes \ saver'[v].submitted : AsFound(v, f)'
                      /\ \/ borrowed' \/ DOMAIN saver'[v].writes \subseteq EntraFields
                         \/ ReadOidcConfig(With(saver'[v].judged, saver'[v].writes))
    BY DEF SavesAreJudged
  <2>1. /\ saver[v] # NoSave /\ saver'[v].writes = saver[v].writes
        /\ saver'[v].judged = saver[v].judged /\ saver'[v].submitted = saver[v].submitted
    BY <1>1, <1>2, <1>5, <1>6
  <2>2. /\ \A f \in DOMAIN saver[v].writes : Writable(v, f)
        /\ \A f \in DOMAIN saver[v].writes \ saver[v].submitted : AsFound(v, f)
        /\ \/ borrowed \/ DOMAIN saver[v].writes \subseteq EntraFields
           \/ ReadOidcConfig(With(saver[v].judged, saver[v].writes))
    BY <2>1 DEF EnvInv, SavesAreJudged
  <2>3. \A f : /\ Writable(v, f)' <=> Writable(v, f)
               /\ AsFound(v, f)' <=> AsFound(v, f)
    BY <2>1 DEF Writable, AsFound
  <2> QED
    BY <1>3, <2>1, <2>2, <2>3
<1>13. NextStartIsComplete'
  <2> SUFFICES ASSUME ~overtaken', ~stolen, ~borrowed, ~misread' PROVE ReadOidcConfig(envFile')
    BY <1>3 DEF NextStartIsComplete
  <2>1. ~overtaken /\ ~misread /\ saver[w].judged = envFile /\ saver[w].contents = envFile
    BY <1>3, WriteKeepsTheRest
  <2>2. ReadOidcConfig(envFile) /\ envFile \in EnvFile
    BY <2>1 DEF EnvInv, NextStartIsComplete, EnvTypeOK
  <2>3. envFile' = With(envFile, saver[w].writes)
    BY <2>1 DEF WriteAtomically
  <2>4. CASE DOMAIN saver[w].writes \subseteq EntraFields
    BY <2>2, <2>3, <2>4 DEF With, ReadOidcConfig, EntraFields, EnvField, OidcFields
  <2>5. CASE ReadOidcConfig(With(saver[w].judged, saver[w].writes))
    BY <2>1, <2>3, <2>5
  <2> QED
    BY <1>1, <2>4, <2>5 DEF EnvInv, SavesAreJudged
<1> QED
  BY <1>7, <1>9, <1>10, <1>11, <1>12, <1>13 DEF EnvInv

LEMMA EnvJudgeStep ==
  ASSUME EnvInv, NEW w \in Savers, NEW values \in Submissions,
         NEW file \in {envFile, backup, EmptyFile}, JudgeSave(w, values, file)
  PROVE  EnvInv'
<1> DEFINE to == [at |-> "judged", submitted |-> DOMAIN values, judged |-> file,
                  writes |-> Writes(file, values), contents |-> file]
<1>1. file \in EnvFile /\ running \in EnvFile /\ saver \in [Savers -> Save \cup {NoSave}]
      /\ borrowed \in BOOLEAN /\ crashedCount \in Nat
  BY EmptyIsFile, EnvAssumption DEF EnvInv, EnvTypeOK
<1>2. /\ saver' = [saver EXCEPT ![w] = to]
      /\ borrowed' = (borrowed \/ OnlyTheProcessHas(file, values))
      /\ UNCHANGED <<envFile, backup, running, lockFile, lockOld, stolen, overtaken, misread,
                     crashedCount>>
  BY DEF JudgeSave
<1>16. envFaults' \in 0..MaxEnvFaults /\ (Accident => Accident')
  <2>1. envFaults \in 0..MaxEnvFaults /\ crashedCount' = crashedCount
    BY <1>2 DEF EnvInv, EnvTypeOK
  <2>2. envFaults' = envFaults \/ (envFaults < MaxEnvFaults /\ envFaults' = envFaults + 1)
    BY DEF JudgeSave, Fails
  <2> QED
    BY <1>1, <2>1, <2>2, EnvAssumption DEF Accident
<1>3. to \in Save
  BY <1>1, SubmissionsAreEdits, WritesAreJudged DEF Save
<1> DEFINE writes == Writes(file, values)
<1>14. /\ \A f \in DOMAIN writes : writes[f] \in Texts(f) \/ (writes[f] = "null" /\ "" \in Texts(f))
       /\ \A f \in DOMAIN writes \ DOMAIN values :
            /\ f \in EntraFields /\ DOMAIN values \subseteq EntraFields
            /\ writes[f] = file[f] \/ file[f] = ""
  BY <1>1, WritesAreJudged
<1>15. to.writes = writes /\ to.submitted = DOMAIN values /\ to.judged = file
  OBVIOUS
<1>4. /\ \A f \in DOMAIN to.writes : to.writes[f] \in Texts(f) \/ (to.writes[f] = "null" /\ "" \in Texts(f))
      /\ \A f \in DOMAIN to.writes \ to.submitted :
           /\ f \in EntraFields /\ to.submitted \subseteq EntraFields
           /\ to.writes[f] = to.judged[f] \/ to.judged[f] = ""
  <2> HIDE DEF to, writes
  <2> QED
    BY <1>14, <1>15
<1>5. borrowed' \/ DOMAIN to.writes \subseteq EntraFields \/ ReadOidcConfig(With(to.judged, to.writes))
  <2>1. CASE ForEntra(values)
    BY <1>1, <2>1, WritesAreJudged
  <2>2. CASE ~ForEntra(values)
    <3>1. to.writes = values
      BY <1>1, <2>2, WritesAreJudged
    <3>2. ReadOidcConfig(With(Managed(file), values))
      BY <2>2 DEF JudgeSave, Complete, BuildOidcCandidate
    <3> QED
      BY <1>2, <3>1, <3>2 DEF OnlyTheProcessHas
  <2> QED
    BY <2>1, <2>2
<1>6. to.at = "judged" /\ NoSave.at = "idle" /\ to # NoSave
  BY DEF NoSave
<1> HIDE DEF to
<1>7. \A v \in Savers : v # w => saver'[v] = saver[v]
  BY <1>1, <1>2
<1>8. saver'[w] = to /\ borrowed' \in BOOLEAN
  BY <1>1, <1>2
<1>9. EnvTypeOK'
  BY <1>1, <1>2, <1>3, <1>8, <1>16 DEF EnvInv, EnvTypeOK
<1>10. \A v \in Writing' : v \in Writing
  BY <1>6, <1>7, <1>8 DEF Writing
<1>11. WritersHoldTheLock' /\ ReadersAreUpToDate' /\ LocksAgeAfterCrashes'
  BY <1>1, <1>2, <1>6, <1>7, <1>8, <1>10, <1>16
  DEF EnvInv, WritersHoldTheLock, ReadersAreUpToDate, LocksAgeAfterCrashes, SaverAt
<1>12. SavesAreJudged'
  <2> SUFFICES ASSUME NEW v \in Savers, saver'[v] # NoSave
               PROVE  /\ \A f \in DOMAIN saver'[v].writes : Writable(v, f)'
                      /\ \A f \in DOMAIN saver'[v].writes \ saver'[v].submitted : AsFound(v, f)'
                      /\ \/ borrowed' \/ DOMAIN saver'[v].writes \subseteq EntraFields
                         \/ ReadOidcConfig(With(saver'[v].judged, saver'[v].writes))
    BY DEF SavesAreJudged
  <2>1. CASE v = w
    BY <1>4, <1>5, <1>8, <2>1 DEF Writable, AsFound
  <2>2. CASE v # w
    <3>1. saver'[v] = saver[v] /\ saver[v] # NoSave
      BY <1>7, <2>2
    <3>2. borrowed => borrowed'
      BY <1>2
    <3>3. /\ \A f \in DOMAIN saver[v].writes : Writable(v, f)
          /\ \A f \in DOMAIN saver[v].writes \ saver[v].submitted : AsFound(v, f)
          /\ \/ borrowed \/ DOMAIN saver[v].writes \subseteq EntraFields
             \/ ReadOidcConfig(With(saver[v].judged, saver[v].writes))
      BY <3>1 DEF EnvInv, SavesAreJudged
    <3>4. \A f : /\ Writable(v, f)' <=> Writable(v, f)
                 /\ AsFound(v, f)' <=> AsFound(v, f)
      BY <3>1 DEF Writable, AsFound
    <3> QED
      BY <3>1, <3>2, <3>3, <3>4
  <2> QED
    BY <2>1, <2>2
<1>13. NextStartIsComplete'
  BY <1>2 DEF EnvInv, NextStartIsComplete
<1> QED
  BY <1>9, <1>11, <1>12, <1>13 DEF EnvInv

LEMMA EnvInvStep == EnvInv /\ [EnvNext]_envVars => EnvInv'
<1> SUFFICES ASSUME EnvInv, EnvNext \/ UNCHANGED envVars PROVE EnvInv'
  OBVIOUS
<1>1. CASE UNCHANGED envVars
  BY <1>1 DEF EnvInv, EnvTypeOK, WritersHoldTheLock, ReadersAreUpToDate, LocksAgeAfterCrashes,
    SavesAreJudged, Writable, AsFound, NextStartIsComplete, Writing, SaverAt, Accident
<1>2. /\ saver \in [Savers -> Save \cup {NoSave}] /\ NoSave.at = "idle"
      /\ lockFile \in Savers \cup {Free, Abandoned} /\ lockOld \in BOOLEAN /\ stolen \in BOOLEAN
      /\ crashedCount \in Nat /\ envFaults \in Nat /\ envFaults \in 0..MaxEnvFaults
      /\ backup \in EnvFile /\ envFile \in EnvFile
  BY EnvAssumption DEF EnvInv, EnvTypeOK, NoSave
<1>3. Free # Abandoned /\ Free \notin Savers /\ Abandoned \notin Savers
  BY EnvAssumption DEF Free, Abandoned
<1>4. /\ stolen \/ lockOld \/ lockFile = Abandoned => Accident
      /\ \A w \in Savers : SaverAt(w, "stale") => Accident
  BY DEF EnvInv, LocksAgeAfterCrashes
<1>5. \A w \in Writing : w \in Savers
  BY DEF Writing
<1>6. ~stolen => \A w \in Writing : lockFile = w
  BY DEF EnvInv, WritersHoldTheLock
<1>18. UNCHANGED <<crashedCount, envFaults>> => Accident' = Accident
  BY DEF Accident
<1>19. crashedCount' = crashedCount /\ envFaults' = envFaults + 1 => Accident'
  BY <1>2 DEF Accident
<1>7. ASSUME NEW w \in Savers, AcquireLock(w) PROVE EnvInv'
  <2> DEFINE to == [saver[w] EXCEPT !.at = "locked"]
  <2>1. saver[w] # NoSave /\ saver[w] \in Save
    BY <1>2, <1>7 DEF AcquireLock, SaverAt
  <2>2. /\ to \in Save /\ to.at = "locked" /\ to.writes = saver[w].writes
        /\ to.judged = saver[w].judged /\ to.submitted = saver[w].submitted
    BY <2>1 DEF Save
  <2>3. /\ saver' = [saver EXCEPT ![w] = to] /\ lockFile = Free /\ lockFile' = w /\ lockOld' = FALSE
        /\ UNCHANGED <<envFile, backup, running, stolen, overtaken, misread, borrowed, crashedCount,
                       envFaults>>
    BY <1>7 DEF AcquireLock, Going
  <2> HIDE DEF to
  <2>4. ~stolen => \A v \in Writing \ {w} : lockFile' = v
    BY <1>3, <1>5, <1>6, <2>3
  <2> QED
    BY <1>2, <1>3, <1>4, <2>1, <2>2, <2>3, <2>4, <1>18, EnvSaveMoves
<1>8. ASSUME NEW w \in Savers, FindLockOld(w) PROVE EnvInv'
  <2> DEFINE to == [saver[w] EXCEPT !.at = "stale"]
  <2>1. saver[w] # NoSave /\ saver[w] \in Save /\ saver[w].at = "judged" /\ lockOld
    BY <1>2, <1>8 DEF FindLockOld, SaverAt
  <2>2. /\ to \in Save /\ to.at = "stale" /\ to.writes = saver[w].writes
        /\ to.judged = saver[w].judged /\ to.submitted = saver[w].submitted
    BY <2>1 DEF Save
  <2>3. /\ saver' = [saver EXCEPT ![w] = to]
        /\ UNCHANGED <<envFile, backup, running, lockFile, lockOld, stolen, overtaken, misread, borrowed,
                       crashedCount, envFaults>>
    BY <1>8 DEF FindLockOld, Going
  <2> HIDE DEF to
  <2> QED
    BY <1>2, <1>4, <1>6, <2>1, <2>2, <2>3, <1>18, EnvSaveMoves
<1>9. ASSUME NEW w \in Savers, UnlinkLock(w) PROVE EnvInv'
  <2> DEFINE to == [saver[w] EXCEPT !.at = "judged"]
  <2>1. saver[w] # NoSave /\ saver[w] \in Save /\ SaverAt(w, "stale")
    BY <1>2, <1>9 DEF UnlinkLock, SaverAt
  <2>2. /\ to \in Save /\ to.at = "judged" /\ to.writes = saver[w].writes
        /\ to.judged = saver[w].judged /\ to.submitted = saver[w].submitted
    BY <2>1 DEF Save
  <2>3. /\ saver' = [saver EXCEPT ![w] = to] /\ stolen' = (stolen \/ lockFile \in Savers)
        /\ lockFile' = Free /\ lockOld' = FALSE
        /\ UNCHANGED <<envFile, backup, running, overtaken, misread, borrowed, crashedCount, envFaults>>
    BY <1>9 DEF UnlinkLock, Going
  <2> HIDE DEF to
  <2>4. ~stolen' => \A v \in Writing \ {w} : lockFile' = v
    BY <1>5, <1>6, <2>3
  <2>5. stolen' \in BOOLEAN /\ (stolen => stolen') /\ Accident
    BY <1>2, <1>4, <2>1, <2>3
  <2> QED
    BY <1>2, <1>3, <2>1, <2>2, <2>3, <2>4, <2>5, <1>18, EnvSaveMoves
<1>10. ASSUME NEW w \in Savers, GiveUpLock(w) PROVE EnvInv'
  <2>1. /\ saver' = [saver EXCEPT ![w] = NoSave]
        /\ UNCHANGED <<envFile, backup, running, lockFile, lockOld, stolen, overtaken, misread, borrowed,
                       crashedCount, envFaults>>
    BY <1>10 DEF GiveUpLock
  <2> QED
    BY <1>2, <1>4, <1>6, <2>1, <1>18, EnvSaveMoves
<1>11. ASSUME NEW w \in Savers, ReadContents(w) PROVE EnvInv'
  <2> DEFINE to == [saver[w] EXCEPT !.at = "read", !.contents = envFile]
  <2>1. saver[w] # NoSave /\ saver[w] \in Save /\ w \in Writing
    BY <1>2, <1>11 DEF ReadContents, SaverAt, Writing
  <2>2. /\ to \in Save /\ to.at = "read" /\ to.writes = saver[w].writes /\ to.contents = envFile
        /\ to.judged = saver[w].judged /\ to.submitted = saver[w].submitted
    BY <2>1 DEF Save, EnvInv, EnvTypeOK
  <2>3. /\ saver' = [saver EXCEPT ![w] = to]
        /\ UNCHANGED <<envFile, backup, running, lockFile, lockOld, stolen, overtaken, misread, borrowed,
                       crashedCount, envFaults>>
    BY <1>2, <1>11 DEF ReadContents, ContentsNow
  <2> HIDE DEF to
  <2> QED
    BY <1>2, <1>4, <1>6, <2>1, <2>2, <2>3, <1>18, EnvSaveMoves
<1>12. ASSUME NEW w \in Savers, ReleaseLock(w) PROVE EnvInv'
  <2>1. /\ saver' = [saver EXCEPT ![w] = NoSave] /\ lockFile' = Free /\ lockOld' = FALSE
        /\ stolen' = (stolen \/ lockFile \in Savers \ {w})
        /\ UNCHANGED <<envFile, backup, running, overtaken, misread, borrowed, crashedCount, envFaults>>
    BY <1>12 DEF ReleaseLock
  <2>2. w \in Writing
    BY <1>12 DEF ReleaseLock, SaverAt, Writing
  <2>3. ~stolen => stolen' = stolen /\ \A v \in Writing : v = w
    <3>1. CASE stolen
      BY <3>1
    <3>2. CASE ~stolen
      <4>1. lockFile = w /\ \A v \in Writing : v = w
        BY <2>2, <3>2, WritersAreAlone
      <4>2. ~stolen'
        BY <2>1, <3>2, <4>1
      <4> QED
        BY <1>2, <2>1, <3>2, <4>1, <4>2
    <3> QED
      BY <3>1, <3>2
  <2>4. stolen' \in BOOLEAN /\ (stolen <=> stolen')
    BY <1>2, <2>1, <2>3
  <2>5. stolen' \/ \A v \in Writing \ {w} : lockFile' = v
    BY <2>3, <2>4
  <2>6. stolen' \/ lockOld' \/ lockFile' = Abandoned => Accident
    BY <1>3, <1>4, <2>1, <2>4
  <2> QED
    BY <1>2, <1>3, <2>1, <2>4, <2>5, <2>6, <1>18, EnvSaveMoves
<1>13. CASE CrashSaves
  <2>1. /\ running' = envFile /\ saver' = [w \in Savers |-> NoSave]
        /\ lockFile' = IF lockFile = Free THEN Free ELSE Abandoned
        /\ crashedCount' = crashedCount + 1 /\ crashedCount < MaxCrashed
        /\ UNCHANGED <<envFile, lockOld, stolen, overtaken, misread, borrowed, envFaults>>
    BY <1>13 DEF CrashSaves
  <2>2. \A w \in Savers : saver'[w] = NoSave
    BY <2>1
  <2>5. backup' \in EnvFile
    BY <1>2, <1>13, EmptyIsFile DEF CrashSaves
  <2>3. crashedCount' \in 0..MaxCrashed /\ Accident'
    BY <1>2, <2>1, EnvAssumption DEF Accident
  <2>4. EnvTypeOK'
    BY <2>1, <2>3, <2>5 DEF EnvInv, EnvTypeOK
  <2> QED
    BY <1>2, <2>1, <2>2, <2>3, <2>4
    DEF EnvInv, WritersHoldTheLock, ReadersAreUpToDate, LocksAgeAfterCrashes,
        SavesAreJudged, NextStartIsComplete, Writing, SaverAt
<1>14. CASE LockAges
  <2>1. lockFile = Abandoned /\ lockOld' = TRUE
        /\ UNCHANGED <<envFile, backup, running, lockFile, saver, stolen, overtaken, misread, borrowed,
                       crashedCount, envFaults>>
    BY <1>14 DEF LockAges
  <2>2. EnvTypeOK'
    BY <2>1 DEF EnvInv, EnvTypeOK
  <2> QED
    BY <2>1, <2>2 DEF EnvInv, WritersHoldTheLock, ReadersAreUpToDate, LocksAgeAfterCrashes,
        SavesAreJudged, Writable, AsFound, NextStartIsComplete, Writing, SaverAt, Accident
<1>15. ASSUME NEW w \in Savers, FailRead(w) PROVE EnvInv'
  <2> DEFINE to == [saver[w] EXCEPT !.at = "blind", !.contents = EmptyFile]
  <2>1. saver[w] # NoSave /\ saver[w] \in Save /\ w \in Writing
    BY <1>2, <1>15 DEF FailRead, SaverAt, Writing
  <2>2. /\ to \in Save /\ to.at = "blind" /\ to.writes = saver[w].writes
        /\ to.judged = saver[w].judged /\ to.submitted = saver[w].submitted
    BY <2>1, EmptyIsFile DEF Save
  <2>3. /\ saver' = [saver EXCEPT ![w] = to]
        /\ UNCHANGED <<envFile, backup, running, lockFile, lockOld, stolen, overtaken, misread, borrowed,
                       crashedCount>>
    BY <1>2, <1>15 DEF FailRead
  <2>4. envFaults' \in 0..MaxEnvFaults /\ envFaults' = envFaults + 1
    BY <1>2, <1>15, EnvAssumption DEF FailRead, Fails
  <2> HIDE DEF to
  <2> QED
    BY <1>2, <1>4, <1>6, <2>1, <2>2, <2>3, <2>4, <1>19, EnvSaveMoves
<1>16. ASSUME NEW w \in Savers, FailEnvWrite(w) PROVE EnvInv'
  <2> DEFINE to == [saver[w] EXCEPT !.at = "renamed"]
  <2>1. saver[w] # NoSave /\ saver[w] \in Save /\ w \in Writing
    BY <1>2, <1>16 DEF FailEnvWrite, SaverAt, Writing
  <2>2. /\ to \in Save /\ to.at = "renamed" /\ to.writes = saver[w].writes
        /\ to.judged = saver[w].judged /\ to.submitted = saver[w].submitted
    BY <2>1 DEF Save
  <2>3. /\ saver' = [saver EXCEPT ![w] = to]
        /\ UNCHANGED <<envFile, running, lockFile, lockOld, stolen, overtaken, misread, borrowed,
                       crashedCount>>
    BY <1>16 DEF FailEnvWrite, Going
  <2>4. envFaults' \in 0..MaxEnvFaults /\ envFaults' = envFaults + 1 /\ backup' \in EnvFile
    BY <1>2, <1>16, EnvAssumption, EmptyIsFile DEF FailEnvWrite, Fails
  <2> HIDE DEF to
  <2> QED
    BY <1>2, <1>4, <1>6, <2>1, <2>2, <2>3, <2>4, <1>19, EnvSaveMoves
<1>17. ASSUME NEW w \in Savers, FailRelease(w) PROVE EnvInv'
  <2>1. /\ saver' = [saver EXCEPT ![w] = NoSave]
        /\ lockFile' = IF lockFile = w THEN Abandoned ELSE lockFile
        /\ UNCHANGED <<envFile, backup, running, lockOld, stolen, overtaken, misread, borrowed,
                       crashedCount>>
    BY <1>17 DEF FailRelease
  <2>2. envFaults' \in 0..MaxEnvFaults /\ envFaults' = envFaults + 1 /\ w \in Writing
    BY <1>2, <1>17, EnvAssumption DEF FailRelease, Fails, SaverAt, Writing
  <2>3. stolen \/ \A v \in Writing \ {w} : lockFile' = v
    BY <2>2, WritersAreAlone
  <2>4. Accident'
    BY <1>19, <2>1, <2>2
  <2>5. lockFile' \in Savers \cup {Free, Abandoned}
    BY <1>2, <2>1
  <2> QED
    BY <1>2, <2>1, <2>2, <2>3, <2>4, <2>5, <1>19, EnvSaveMoves
<1> QED
  BY <1>1, <1>7, <1>8, <1>9, <1>10, <1>11, <1>12, <1>13, <1>14, <1>15, <1>16, <1>17, EnvJudgeStep,
     EnvWriteStep
  DEF EnvNext

(* A write is the only change of the file.                                 *)
LEMMA EnvKeepsTheRest == EnvInv /\ [EnvNext]_envVars => SavesKeepTheRest
<1> SUFFICES ASSUME EnvInv, EnvNext, NEW w \in Savers,
                    saver[w].at \in {"read", "blind"}, envFile' # envFile, saver'[w] # saver[w],
                    NEW f \in EnvField \ saver[w].submitted
             PROVE  \/ envFile'[f] = envFile[f]
                    \/ stolen
                    \/ SaverAt(w, "blind")
                    \/ /\ f \in EntraFields /\ saver[w].submitted \subseteq EntraFields
                       /\ saver[w].judged # envFile \/ envFile[f] = ""
  BY DEF SavesKeepTheRest
<1>1. saver \in [Savers -> Save \cup {NoSave}]
  BY DEF EnvInv, EnvTypeOK
<1>2. PICK v \in Savers : WriteAtomically(v)
  BY Zenon DEF EnvNext, JudgeSave, AcquireLock, FindLockOld, UnlinkLock, GiveUpLock, ReadContents,
    FailRead, FailEnvWrite, ReleaseLock, FailRelease, CrashSaves, LockAges
<1>3. v = w
  BY <1>1, <1>2 DEF WriteAtomically, Going
<1> QED
  BY <1>2, <1>3, WriteKeepsTheRest DEF SaverAt

USE DEF brandVars

-----------------------------------------------------------------------------
(* Branding.  Every logo was uploaded.                                     *)
Uploaded(logo) == logo \in usedImages \cup {NoLogo}
LogosWereUploaded ==
  /\ Uploaded(branding.logo)
  /\ \A p \in Brandings :
       /\ Uploaded(form[p].logo)
       /\ brandCall[p] # NoCall =>
            /\ Uploaded(brandCall[p].sent.logo) /\ Uploaded(brandCall[p].previous.logo)
            /\ Uploaded(brandCall[p].result.logo) /\ Uploaded(brandCall[p].image)
            /\ brandCall[p].old \subseteq usedImages
            /\ brandCall[p].op = "upload" <=> brandCall[p].image # NoLogo

(* Unless changes crossed, an image that is about to be stored is nowhere  *)
(* else, and the stored logo is not about to be removed.                   *)
Uploads(p) ==
  brandCall[p] # NoCall /\ brandCall[p].op = "upload" /\ brandCall[p].at \in {"asked", "read"}
Removes(p, logo) ==
  brandCall[p] # NoCall /\ brandCall[p].at = "saved" /\ logo \in brandCall[p].old
UploadsAreFresh ==
  \A p \in Brandings : Uploads(p) =>
    /\ brandCall[p].image \in imageFiles /\ brandCall[p].image # branding.logo
    /\ \A q \in Brandings :
         /\ ~Removes(q, brandCall[p].image)
         /\ Uploads(q) /\ brandCall[q].image = brandCall[p].image => p = q
LogoStays == \A q \in Brandings : ~Removes(q, branding.logo)
Uncrossed == crossed \/ (UploadsAreFresh /\ LogoStays)

(* What a change has read is the row it remembers, unless a read failed.   *)
ReadsAreTrue ==
  \A p \in Brandings : brandCall[p] # NoCall =>
    /\ brandCall[p].previous.logo \in {brandCall[p].row.logo, NoLogo}
    /\ brandCall[p].reads = "whole" =>
         /\ brandCall[p].previous = GetBrandingConfig(brandCall[p].row)
         /\ brandCall[p].policy = IsLoginMethodEnabled(brandCall[p].row)

BrandingInv ==
  BrandingTypeOK /\ LogosWereUploaded /\ ReadsAreTrue /\ Uncrossed /\ LogoHasItsFile

(* A look with its switches.                                               *)
LEMMA LookOf ==
  ASSUME NEW b \in StoredBranding
  PROVE  /\ GetBrandingConfig(b) \in Config
         /\ GetBrandingConfig(b).name = b.name /\ GetBrandingConfig(b).logo = b.logo
         /\ GetBrandingConfig(b).text = b.text
         /\ GetBrandingConfig(b).local <=> b.local # "false"
         /\ GetBrandingConfig(b).sso <=> b.sso # "false"
<1>1. PICK local \in BOOLEAN, sso \in BOOLEAN :
        (local <=> b.local # "false") /\ (sso <=> b.sso # "false")
  OBVIOUS
<1>2. local = (b.local # "false") /\ sso = (b.sso # "false")
  BY Zenon, <1>1
<1>3. GetBrandingConfig(b) = [b EXCEPT !.local = local, !.sso = sso]
  BY Zenon, <1>2 DEF GetBrandingConfig
<1> QED
  BY <1>1, <1>3 DEF StoredBranding, Config

LEMMA PolicyOf ==
  ASSUME NEW b \in StoredBranding
  PROVE  /\ IsLoginMethodEnabled(b) \in Policy
         /\ IsLoginMethodEnabled(b).local <=> b.local # "false"
         /\ IsLoginMethodEnabled(b).sso <=> b.sso = "true"
<1>1. PICK local \in BOOLEAN, sso \in BOOLEAN :
        (local <=> b.local # "false") /\ (sso <=> b.sso = "true")
  OBVIOUS
<1>2. local = (b.local # "false") /\ sso = (b.sso = "true")
  BY Zenon, <1>1
<1>3. IsLoginMethodEnabled(b) = [local |-> local, sso |-> sso]
  BY Zenon, <1>2 DEF IsLoginMethodEnabled
<1> QED
  BY <1>1, <1>3 DEF Policy

LEMMA DefaultIsALook == DefaultBranding \in Config /\ DefaultBranding.logo = NoLogo
BY DEF DefaultBranding, Config, Names

LEMMA BrandingInvInit == BrandingInit => BrandingInv
<1> SUFFICES ASSUME BrandingInit PROVE BrandingInv
  OBVIOUS
<1>1. branding \in StoredBranding /\ branding.logo = NoLogo
  BY DEF BrandingInit, StoredBranding, Switch, Names
<1>2. \A p \in Brandings : form[p] \in Config /\ form[p].logo = NoLogo
  BY <1>1, LookOf DEF BrandingInit
<1>3. BrandingTypeOK
  <2>1. form \in [Brandings -> Config]
    BY <1>1, LookOf DEF BrandingInit
  <2>2. brandCount \in 0..MaxBrandChanges /\ editCount \in 0..MaxBrandEdits
    BY BrandingAssumption DEF BrandingInit
  <2>3. brandCall \in [Brandings -> BrandCall \cup {NoCall}] /\ isDirty \in [Brandings -> BOOLEAN]
        /\ crossed \in BOOLEAN /\ imageFiles \subseteq usedImages /\ usedImages \subseteq Images
    BY DEF BrandingInit
  <2> QED
    BY <1>1, <2>1, <2>2, <2>3 DEF BrandingTypeOK
<1> QED
  BY <1>1, <1>2, <1>3
  DEF BrandingInit, BrandingInv, LogosWereUploaded, ReadsAreTrue, Uploaded, Uncrossed,
      UploadsAreFresh, LogoStays, Uploads, Removes, LogoHasItsFile

(* What a change stores.                                                   *)
LEMMA NewLook ==
  ASSUME NEW c \in BrandCall
  PROVE  /\ NewBranding(c) \in Config
         /\ NewBranding(c).logo \in {c.sent.logo, c.image, c.previous.logo, NoLogo}
         /\ c.op = "upload" => NewBranding(c).logo = c.image
         /\ c.op = "save" => NewBranding(c).logo = c.sent.logo
         /\ c.op \notin {"upload", "save"} =>
              NewBranding(c).logo \in {c.previous.logo, NoLogo} \/ c.image # NoLogo
         /\ c.op \notin {"upload", "unload"} => NewBranding(c).sso = c.policy.sso
         /\ c.op \in {"upload", "unload"} => /\ NewBranding(c).sso = c.previous.sso
                                            /\ NewBranding(c).local = c.previous.local
         /\ c.op = "text" => NewBranding(c).local = c.policy.local
<1>1. /\ c.sent \in Config /\ c.previous \in Config /\ c.policy \in Policy /\ c.op \in BrandOp
      /\ c.image \in Images \cup {NoLogo}
  BY DEF BrandCall
<1>2. PICK sso \in BOOLEAN, local \in BOOLEAN, text \in Names :
        sso = c.policy.sso /\ local = c.policy.local /\ text = c.previous.text
  BY <1>1 DEF Policy, Config
<1>3. SsoLoginFields(c).sso = sso /\ SsoLoginFields(c).text = text
  BY Zenon, <1>2 DEF SsoLoginFields
<1>9. CASE c.op = "save"
  <2>1. NewBranding(c) = [c.sent EXCEPT !.sso = sso, !.text = text]
    BY Zenon, <1>3, <1>9 DEF NewBranding
  <2> QED
    BY <1>1, <1>2, <1>9, <2>1 DEF Config
<1>10. CASE c.op = "reset"
  <2>1. NewBranding(c) = [DefaultBranding EXCEPT !.sso = sso, !.text = text]
    BY Zenon, <1>3, <1>10 DEF NewBranding
  <2> QED
    BY <1>2, <1>10, <2>1, DefaultIsALook DEF Config
<1>11. CASE c.op \in {"upload", "unload"}
  <2>1. NewBranding(c) = [c.previous EXCEPT !.logo = c.image]
    <3>1. c.op # "save" /\ c.op # "reset" /\ c.op # "text"
      BY <1>11
    <3> QED
      BY Zenon, <1>11, <3>1 DEF NewBranding
  <2> QED
    BY <1>1, <1>11, <2>1 DEF Config
<1>12. CASE c.op = "text"
  <2>1. NewBranding(c) = [c.previous EXCEPT !.text = "ours", !.local = local, !.sso = sso]
    BY Zenon, <1>2, <1>12 DEF NewBranding
  <2> QED
    BY <1>1, <1>2, <1>12, <2>1 DEF Config, Names
<1> QED
  BY <1>1, <1>9, <1>10, <1>11, <1>12 DEF BrandOp

LEMMA BrandingInvMeans == BrandingInv => BrandingTypeOK /\ LogoHasItsFile
BY DEF BrandingInv

(* A form takes another look.                                              *)
LEMMA FormMoves ==
  ASSUME BrandingInv, NEW p \in Brandings, NEW look \in Config, Uploaded(look.logo),
         form' = [form EXCEPT ![p] = look], isDirty' \in [Brandings -> BOOLEAN],
         editCount' \in 0..MaxBrandEdits,
         UNCHANGED <<branding, imageFiles, usedImages, brandCall, crossed, brandCount>>
  PROVE  BrandingInv'
<1>1. BrandingTypeOK' /\ ReadsAreTrue'
  BY DEF BrandingInv, BrandingTypeOK, ReadsAreTrue
<1>2. LogosWereUploaded'
  <2>1. form \in [Brandings -> Config]
    BY DEF BrandingInv, BrandingTypeOK
  <2>2. \A q \in Brandings : Uploaded(form'[q].logo)
    BY <2>1 DEF BrandingInv, LogosWereUploaded
  <2> QED
    BY <2>2 DEF BrandingInv, LogosWereUploaded, Uploaded
<1> QED
  BY <1>1, <1>2 DEF BrandingInv, Uncrossed, UploadsAreFresh, LogoStays, Uploads, Removes, LogoHasItsFile

LEMMA BrandAskStep ==
  ASSUME BrandingInv, NEW p \in Brandings, NEW op \in BrandOp, NEW image \in Images \cup {NoLogo},
         AskBranding(p, op, image)
  PROVE  BrandingInv'
<1> DEFINE call == [op |-> op, at |-> "asked", sent |-> form[p], image |-> image,
                    row |-> branding, previous |-> GetBrandingConfig(branding),
                    policy |-> IsLoginMethodEnabled(branding), reads |-> "whole",
                    old |-> {}, result |-> form[p]]
<1>1. /\ branding \in StoredBranding /\ form \in [Brandings -> Config]
      /\ brandCall \in [Brandings -> BrandCall \cup {NoCall}]
      /\ imageFiles \subseteq usedImages /\ usedImages \subseteq Images
      /\ brandCount \in 0..MaxBrandChanges
  BY DEF BrandingInv, BrandingTypeOK
<1>2. /\ call \in BrandCall /\ call.op = op /\ call.at = "asked" /\ call.image = image
      /\ call.sent = form[p] /\ call.row = branding /\ call.result = form[p] /\ call.old = {}
      /\ call.previous = GetBrandingConfig(branding) /\ call.previous.logo = branding.logo
      /\ call.policy = IsLoginMethodEnabled(branding)
  BY <1>1, LookOf, PolicyOf DEF BrandCall
<1>3. /\ brandCall[p] = NoCall /\ brandCall' = [brandCall EXCEPT ![p] = call]
      /\ imageFiles' = imageFiles \cup ({image} \ {NoLogo})
      /\ usedImages' = usedImages \cup ({image} \ {NoLogo})
      /\ image \notin usedImages /\ (op = "upload" <=> image # NoLogo)
      /\ UNCHANGED <<branding, form, isDirty, crossed, editCount>>
  BY DEF AskBranding
<1>4. brandCount' \in 0..MaxBrandChanges
  BY <1>1, BrandingAssumption DEF AskBranding
<1> HIDE DEF call
<1>5. call # NoCall
  <2>1. NoCall.op = "none" /\ call.op \in BrandOp
    BY <1>2 DEF NoCall
  <2> QED
    BY <2>1 DEF BrandOp
<1>6. \A q \in Brandings : q # p => brandCall'[q] = brandCall[q]
  BY <1>1, <1>3
<1>7. brandCall'[p] = call
  BY <1>1, <1>3
<1>8. BrandingTypeOK'
  BY <1>1, <1>2, <1>3, <1>4 DEF BrandingInv, BrandingTypeOK
<1>9. \A logo : Uploaded(logo) => Uploaded(logo)'
  BY <1>3 DEF Uploaded
<1>10. LogosWereUploaded'
  <2>1. Uploaded(branding.logo)' /\ \A q \in Brandings : Uploaded(form[q].logo)'
    BY <1>3, <1>9 DEF BrandingInv, LogosWereUploaded
  <2>2. Uploaded(image)'
    BY <1>3 DEF Uploaded
  <2>3. ASSUME NEW q \in Brandings, brandCall'[q] # NoCall
        PROVE  (/\ Uploaded(brandCall[q].sent.logo) /\ Uploaded(brandCall[q].previous.logo)
                /\ Uploaded(brandCall[q].result.logo) /\ Uploaded(brandCall[q].image)
                /\ brandCall[q].old \subseteq usedImages
                /\ brandCall[q].op = "upload" <=> brandCall[q].image # NoLogo)'
    <3>1. CASE q = p
      <4>1. Uploaded(form[p].logo)' /\ Uploaded(branding.logo)'
        BY <2>1
      <4> QED
        BY <1>2, <1>3, <1>7, <2>2, <3>1, <4>1 DEF Uploaded
    <3>2. CASE q # p
      <4>1. brandCall'[q] = brandCall[q]
        BY <1>6, <3>2
      <4>2. /\ Uploaded(brandCall[q].sent.logo) /\ Uploaded(brandCall[q].previous.logo)
            /\ Uploaded(brandCall[q].result.logo) /\ Uploaded(brandCall[q].image)
            /\ brandCall[q].old \subseteq usedImages
            /\ (brandCall[q].op = "upload" <=> brandCall[q].image # NoLogo)
        BY <2>3, <4>1 DEF BrandingInv, LogosWereUploaded
      <4> QED
        BY <1>3, <4>1, <4>2 DEF Uploaded
    <3> QED
      BY <3>1, <3>2
  <2> QED
    BY <2>1, <2>3 DEF LogosWereUploaded
<1>11. Uncrossed'
  <2> SUFFICES ASSUME ~crossed PROVE UploadsAreFresh' /\ LogoStays'
    BY <1>3 DEF Uncrossed
  <2>1. UploadsAreFresh /\ LogoStays
    BY DEF BrandingInv, Uncrossed
  <2>2. \A q \in Brandings : \A logo : Removes(q, logo)' => Removes(q, logo) /\ logo \in usedImages
    BY <1>2, <1>6, <1>7 DEF Removes, BrandingInv, LogosWereUploaded
  <2>3. \A q \in Brandings : Uploads(q)' => q = p \/ (Uploads(q) /\ brandCall'[q] = brandCall[q])
    BY <1>6 DEF Uploads
  <2>4. Uploads(p)' => image # NoLogo /\ brandCall'[p].image = image /\ image \in imageFiles'
    BY <1>2, <1>3, <1>7 DEF Uploads
  <2>5. \A q \in Brandings : Uploads(q) => brandCall[q].image \in usedImages
    BY <1>1, <2>1 DEF UploadsAreFresh
  <2>6. image # NoLogo => image # branding.logo
    BY <1>3 DEF BrandingInv, LogosWereUploaded, Uploaded
  <2> QED
    BY <1>3, <2>1, <2>2, <2>3, <2>4, <2>5, <2>6 DEF UploadsAreFresh, LogoStays
<1>12. LogoHasItsFile'
  BY <1>3 DEF BrandingInv, LogoHasItsFile
<1>13. ReadsAreTrue'
  BY <1>2, <1>6, <1>7 DEF BrandingInv, ReadsAreTrue
<1> QED
  BY <1>8, <1>10, <1>11, <1>12, <1>13 DEF BrandingInv

(* A change has read something, and nothing else moves.                    *)
LEMMA CallReads ==
  ASSUME BrandingInv, NEW p \in Brandings, NEW call \in BrandCall,
         brandCall[p] # NoCall, brandCall[p].at # "saved", call.at # "saved",
         call.op = brandCall[p].op, call.image = brandCall[p].image,
         call.sent = brandCall[p].sent, call.result = brandCall[p].result,
         call.old = brandCall[p].old,
         brandCall[p].op = "upload" /\ call.at \in {"asked", "read"} =>
           brandCall[p].at \in {"asked", "read"},
         Uploaded(call.previous.logo), call.previous.logo \in {call.row.logo, NoLogo},
         call.reads = "whole" => /\ call.previous = GetBrandingConfig(call.row)
                                 /\ call.policy = IsLoginMethodEnabled(call.row),
         brandCall' = [brandCall EXCEPT ![p] = call],
         UNCHANGED <<branding, imageFiles, usedImages, form, isDirty, crossed, brandCount, editCount>>
  PROVE  BrandingInv'
<1>1. brandCall \in [Brandings -> BrandCall \cup {NoCall}]
  BY DEF BrandingInv, BrandingTypeOK
<1>5. \A q \in Brandings : q # p => brandCall'[q] = brandCall[q]
  BY <1>1
<1>6. brandCall'[p] = call
  BY <1>1
<1>7. BrandingTypeOK'
  BY <1>1 DEF BrandingInv, BrandingTypeOK
<1>8. LogosWereUploaded'
  <2>1. ASSUME NEW q \in Brandings, brandCall'[q] # NoCall
        PROVE  /\ Uploaded(brandCall'[q].sent.logo) /\ Uploaded(brandCall'[q].previous.logo)
               /\ Uploaded(brandCall'[q].result.logo) /\ Uploaded(brandCall'[q].image)
               /\ brandCall'[q].old \subseteq usedImages
               /\ brandCall'[q].op = "upload" <=> brandCall'[q].image # NoLogo
    BY <1>5, <1>6, <2>1 DEF BrandingInv, LogosWereUploaded
  <2> QED
    BY <2>1 DEF BrandingInv, LogosWereUploaded, Uploaded
<1>9. Uncrossed'
  <2>1. \A q \in Brandings : \A logo : Removes(q, logo)' => Removes(q, logo)
    BY <1>5, <1>6 DEF Removes
  <2>2. \A q \in Brandings : Uploads(q)' => Uploads(q) /\ brandCall'[q].image = brandCall[q].image
    BY <1>5, <1>6 DEF Uploads
  <2> QED
    BY <2>1, <2>2 DEF BrandingInv, Uncrossed, UploadsAreFresh, LogoStays
<1>10. ReadsAreTrue'
  BY <1>5, <1>6 DEF BrandingInv, ReadsAreTrue
<1> QED
  BY <1>7, <1>8, <1>9, <1>10 DEF BrandingInv, LogoHasItsFile

LEMMA BrandReadStep ==
  ASSUME BrandingInv, NEW p \in Brandings, ReadBranding(p)
  PROVE  BrandingInv'
<1>1. branding \in StoredBranding /\ brandCall \in [Brandings -> BrandCall \cup {NoCall}]
  BY DEF BrandingInv, BrandingTypeOK
<1>2. brandCall[p] \in BrandCall /\ brandCall[p] # NoCall /\ brandCall[p].at = "asked"
  BY <1>1 DEF ReadBranding
<1>3. PICK previous \in Config, reads \in {"whole", "mixed", "failed"} :
        /\ previous.logo \in {branding.logo, NoLogo}
        /\ reads = "whole" => previous = GetBrandingConfig(branding)
        /\ brandCall' = [brandCall EXCEPT ![p] =
             [brandCall[p] EXCEPT !.previous = previous, !.reads = reads, !.at = "read",
                                  !.row = branding, !.policy = IsLoginMethodEnabled(branding)]]
  <2> DEFINE Read(call) == [call EXCEPT !.at = "read", !.row = branding,
                                        !.policy = IsLoginMethodEnabled(branding)]
  <2>1. PICK call \in {[brandCall[p] EXCEPT !.previous = GetBrandingConfig(branding)],
                       [brandCall[p] EXCEPT !.previous = DefaultBranding, !.reads = "failed"]} :
          brandCall' = [brandCall EXCEPT ![p] = Read(call)]
    BY DEF ReadBranding
  <2>2. CASE call = [brandCall[p] EXCEPT !.previous = GetBrandingConfig(branding)]
    <3>1. PICK reads \in {"whole", "mixed", "failed"} : reads = brandCall[p].reads
      BY <1>2 DEF BrandCall
    <3>2. GetBrandingConfig(branding) \in Config /\ GetBrandingConfig(branding).logo = branding.logo
      BY <1>1, LookOf
    <3>3. Read(call) = [brandCall[p] EXCEPT !.previous = GetBrandingConfig(branding),
                          !.reads = reads, !.at = "read",
                          !.row = branding, !.policy = IsLoginMethodEnabled(branding)]
      BY <1>2, <2>2, <3>1 DEF BrandCall
    <3> QED
      BY <2>1, <3>2, <3>3
  <2>3. CASE call = [brandCall[p] EXCEPT !.previous = DefaultBranding, !.reads = "failed"]
    <3>1. Read(call) = [brandCall[p] EXCEPT !.previous = DefaultBranding,
                          !.reads = "failed", !.at = "read",
                          !.row = branding, !.policy = IsLoginMethodEnabled(branding)]
      BY <1>2, <2>3 DEF BrandCall
    <3> QED
      BY <2>1, <3>1, DefaultIsALook
  <2> QED
    BY <2>1, <2>2, <2>3
<1> DEFINE call == [brandCall[p] EXCEPT !.previous = previous, !.reads = reads, !.at = "read",
                                !.row = branding, !.policy = IsLoginMethodEnabled(branding)]
<1>4. /\ call \in BrandCall /\ call.op = brandCall[p].op /\ call.at = "read"
      /\ call.image = brandCall[p].image /\ call.sent = brandCall[p].sent /\ call.row = branding
      /\ call.result = brandCall[p].result /\ call.old = brandCall[p].old
      /\ call.previous = previous /\ call.reads = reads /\ call.policy = IsLoginMethodEnabled(branding)
  BY <1>1, <1>2, PolicyOf DEF BrandCall
<1>5. Uploaded(previous.logo)
  BY <1>3 DEF BrandingInv, LogosWereUploaded, Uploaded
<1>6. /\ brandCall' = [brandCall EXCEPT ![p] = call]
      /\ UNCHANGED <<branding, imageFiles, usedImages, form, isDirty, crossed, brandCount, editCount>>
  BY <1>3 DEF ReadBranding
<1> HIDE DEF call
<1> QED
  BY <1>2, <1>3, <1>4, <1>5, <1>6, CallReads

LEMMA BrandSwitchReadStep ==
  ASSUME BrandingInv, NEW p \in Brandings, NEW switch \in {"local", "sso"}, ReadSwitch(p, switch)
  PROVE  BrandingInv'
<1>1. branding \in StoredBranding /\ brandCall \in [Brandings -> BrandCall \cup {NoCall}]
  BY DEF BrandingInv, BrandingTypeOK
<1>2. /\ brandCall[p] \in BrandCall /\ brandCall[p] # NoCall
      /\ brandCall[p].at \in {"read", "local"}
  BY <1>1 DEF ReadSwitch, ReadNext
<1>3. PICK call : /\ call \in {SwitchRead(brandCall[p], switch)} \cup
                        {[brandCall[p] EXCEPT !.policy[switch] = on, !.reads = "failed"] : on \in BOOLEAN}
                  /\ brandCall' = [brandCall EXCEPT ![p] = [call EXCEPT !.at = switch]]
  BY DEF ReadSwitch
<1>4. /\ Uploaded(brandCall[p].previous.logo)
      /\ brandCall[p].previous.logo \in {brandCall[p].row.logo, NoLogo}
      /\ brandCall[p].reads = "whole" => /\ brandCall[p].previous = GetBrandingConfig(brandCall[p].row)
                                         /\ brandCall[p].policy = IsLoginMethodEnabled(brandCall[p].row)
  BY <1>2 DEF BrandingInv, LogosWereUploaded, ReadsAreTrue
<1>5. /\ call \in BrandCall /\ call.op = brandCall[p].op /\ call.image = brandCall[p].image
      /\ call.sent = brandCall[p].sent /\ call.row = brandCall[p].row
      /\ call.result = brandCall[p].result /\ call.old = brandCall[p].old
      /\ call.previous = brandCall[p].previous
      /\ call.reads = "whole" => /\ brandCall[p].reads = "whole"
                                 /\ call.policy = IsLoginMethodEnabled(call.row)
  <2>1. brandCall[p].policy \in Policy
    BY <1>2 DEF BrandCall
  <2>2. CASE call = SwitchRead(brandCall[p], switch)
    <3>1. PICK on \in BOOLEAN : on = IsLoginMethodEnabled(branding)[switch]
      BY <1>1, PolicyOf DEF Policy
    <3>2. PICK reads \in {"whole", "mixed", "failed"} :
            reads = IF brandCall[p].reads = "whole" /\ brandCall[p].row # branding THEN "mixed"
                    ELSE brandCall[p].reads
      BY <1>2 DEF BrandCall
    <3>3. call = [brandCall[p] EXCEPT !.policy[switch] = on, !.reads = reads]
      BY <2>2, <3>1, <3>2 DEF SwitchRead
    <3>4. call.policy = [brandCall[p].policy EXCEPT ![switch] = on] /\ call.policy \in Policy
      BY <1>2, <2>1, <3>3 DEF BrandCall, Policy
    <3>5. /\ call \in BrandCall /\ call.op = brandCall[p].op /\ call.image = brandCall[p].image
          /\ call.sent = brandCall[p].sent /\ call.row = brandCall[p].row
          /\ call.result = brandCall[p].result /\ call.old = brandCall[p].old
          /\ call.previous = brandCall[p].previous /\ call.reads = reads
      BY <1>2, <3>3, <3>4 DEF BrandCall
    <3>6. reads = "whole" => brandCall[p].reads = "whole" /\ brandCall[p].row = branding
      BY <3>2
    <3>7. brandCall[p].policy = IsLoginMethodEnabled(branding) => call.policy = brandCall[p].policy
      BY <2>1, <3>1, <3>4 DEF Policy
    <3> QED
      BY <1>4, <3>5, <3>6, <3>7
  <2>3. CASE \E on \in BOOLEAN : call = [brandCall[p] EXCEPT !.policy[switch] = on, !.reads = "failed"]
    <3>1. PICK on \in BOOLEAN : call = [brandCall[p] EXCEPT !.policy[switch] = on, !.reads = "failed"]
      BY <2>3
    <3>2. call.policy = [brandCall[p].policy EXCEPT ![switch] = on] /\ call.policy \in Policy
      BY <1>2, <2>1, <3>1 DEF BrandCall, Policy
    <3> QED
      BY <1>2, <3>1, <3>2 DEF BrandCall
  <2> QED
    BY <1>3, <2>2, <2>3
<1> DEFINE next == [call EXCEPT !.at = switch]
<1>6. /\ next \in BrandCall /\ next.op = call.op /\ next.image = call.image /\ next.at = switch
      /\ next.sent = call.sent /\ next.row = call.row /\ next.result = call.result
      /\ next.old = call.old /\ next.previous = call.previous /\ next.reads = call.reads
      /\ next.policy = call.policy
  BY <1>5 DEF BrandCall
<1>7. /\ brandCall' = [brandCall EXCEPT ![p] = next]
      /\ UNCHANGED <<branding, imageFiles, usedImages, form, isDirty, crossed, brandCount, editCount>>
  BY <1>3 DEF ReadSwitch
<1> HIDE DEF next
<1> QED
  BY <1>2, <1>4, <1>5, <1>6, <1>7, CallReads

LEMMA BrandSaveStep ==
  ASSUME BrandingInv, NEW p \in Brandings, SaveBrandingConfig(p)
  PROVE  BrandingInv' /\ BrandingKeepsSwitches
<1> DEFINE c == brandCall[p]
           new == NewBranding(c)
           old == ReplacedImages(c)
           call == [c EXCEPT !.at = "saved", !.result = new, !.old = old]
           row == [new EXCEPT !.local = StoredSwitch(new.local), !.sso = StoredSwitch(new.sso)]
<1>1. /\ branding \in StoredBranding /\ brandCall \in [Brandings -> BrandCall \cup {NoCall}]
      /\ crossed \in BOOLEAN
  BY DEF BrandingInv, BrandingTypeOK
<1>2. c \in BrandCall /\ c # NoCall /\ c.at \in {"read", "sso"} /\ (c.op = "upload" => c.at = "read")
  BY <1>1 DEF SaveBrandingConfig, ReadyToSave
<1>3. /\ branding' = row /\ brandCall' = [brandCall EXCEPT ![p] = call]
      /\ crossed' = (\/ crossed \/ c.row # branding
                     \/ c.op = "save" /\ c.sent.logo \notin {branding.logo, NoLogo})
      /\ UNCHANGED <<imageFiles, usedImages, form, isDirty, brandCount, editCount>>
  BY DEF SaveBrandingConfig
<1>4. /\ new \in Config /\ new.logo \in {c.sent.logo, c.image, c.previous.logo, NoLogo}
      /\ c.op = "upload" => new.logo = c.image
      /\ c.op = "save" => new.logo = c.sent.logo
      /\ c.op \notin {"upload", "save"} => new.logo \in {c.previous.logo, NoLogo} \/ c.image # NoLogo
  BY <1>2, NewLook
<1>5. /\ Uploaded(c.sent.logo) /\ Uploaded(c.previous.logo) /\ Uploaded(c.result.logo) /\ Uploaded(c.image)
      /\ (c.op = "upload" <=> c.image # NoLogo) /\ c.row \in StoredBranding /\ c.previous \in Config
      /\ c.previous.logo \in {c.row.logo, NoLogo}
  BY <1>2 DEF BrandingInv, LogosWereUploaded, BrandCall, ReadsAreTrue
<1>6. old \subseteq {c.previous.logo} \ {NoLogo, new.logo} /\ old \subseteq usedImages /\ old \subseteq Images
  <2>1. old \subseteq {c.previous.logo} \ {NoLogo, new.logo}
    BY DEF ReplacedImages
  <2>2. c.previous.logo \in Images \cup {NoLogo}
    BY <1>5 DEF Config
  <2> QED
    BY <1>5, <2>1, <2>2 DEF Uploaded
<1>7. /\ row \in StoredBranding /\ row.logo = new.logo
      /\ row.local = StoredSwitch(new.local) /\ row.sso = StoredSwitch(new.sso)
  <2>1. StoredSwitch(new.local) \in Switch /\ StoredSwitch(new.sso) \in Switch
    BY DEF StoredSwitch, Switch
  <2> HIDE DEF new
  <2> QED
    BY <1>4, <2>1 DEF Config, StoredBranding
<1>8. /\ call \in BrandCall /\ call.op = c.op /\ call.at = "saved"
      /\ call.image = c.image /\ call.sent = c.sent /\ call.row = c.row
      /\ call.previous = c.previous /\ call.policy = c.policy /\ call.reads = c.reads
      /\ call.result = new /\ call.old = old
  <2> HIDE DEF new, old
  <2> QED
    BY <1>2, <1>4, <1>6 DEF BrandCall
<1> HIDE DEF call, row, old
<1>9. \A q \in Brandings : q # p => brandCall'[q] = brandCall[q]
  BY <1>1, <1>3
<1>10. brandCall'[p] = call
  BY <1>1, <1>3
<1>11. crossed' \in BOOLEAN
  BY <1>3
<1>12. BrandingTypeOK'
  BY <1>1, <1>3, <1>7, <1>8, <1>11 DEF BrandingInv, BrandingTypeOK
<1>13. Uploaded(new.logo)
  BY <1>4, <1>5 DEF Uploaded
<1>14. call # NoCall
  BY <1>8 DEF NoCall, BrandCall, BrandOp
<1>15. LogosWereUploaded'
  <2>1. ASSUME NEW q \in Brandings, brandCall'[q] # NoCall
        PROVE  /\ Uploaded(brandCall'[q].sent.logo) /\ Uploaded(brandCall'[q].previous.logo)
               /\ Uploaded(brandCall'[q].result.logo) /\ Uploaded(brandCall'[q].image)
               /\ brandCall'[q].old \subseteq usedImages
               /\ brandCall'[q].op = "upload" <=> brandCall'[q].image # NoLogo
    <3>1. CASE q = p
      BY <1>5, <1>6, <1>8, <1>10, <1>13, <3>1
    <3>2. CASE q # p
      BY <1>9, <2>1, <3>2 DEF BrandingInv, LogosWereUploaded
    <3> QED
      BY <3>1, <3>2
  <2>2. Uploaded(branding'.logo)
    BY <1>3, <1>7, <1>13
  <2> QED
    BY <1>3, <2>1, <2>2 DEF BrandingInv, LogosWereUploaded, Uploaded
<1>16. ASSUME ~crossed' PROVE UploadsAreFresh' /\ LogoStays' /\ branding'.logo \in imageFiles' \cup {NoLogo}
  <2>1. /\ ~crossed /\ c.row = branding /\ (c.op = "save" => c.sent.logo \in {branding.logo, NoLogo})
        /\ c.previous.logo \in {branding.logo, NoLogo}
    BY <1>3, <1>5, <1>16
  <2>2. UploadsAreFresh /\ LogoStays /\ branding.logo \in imageFiles \cup {NoLogo}
    BY <2>1 DEF BrandingInv, Uncrossed, LogoHasItsFile
  <2>3. branding'.logo = new.logo
    BY <1>3, <1>7
  <2>4. \/ new.logo \in {branding.logo, NoLogo}
        \/ Uploads(p) /\ new.logo = c.image
    BY <1>2, <1>4, <1>5, <2>1 DEF Uploads
  <2>5. \A q \in Brandings : \A logo :
          Removes(q, logo)' => \/ Removes(q, logo)
                               \/ q = p /\ logo = branding.logo /\ logo \notin {NoLogo, new.logo}
    <3> SUFFICES ASSUME NEW q \in Brandings, NEW logo, Removes(q, logo)'
                 PROVE  \/ Removes(q, logo)
                        \/ q = p /\ logo = branding.logo /\ logo \notin {NoLogo, new.logo}
      OBVIOUS
    <3>1. CASE q = p
      <4>1. logo \in old
        BY <1>8, <1>10, <3>1 DEF Removes
      <4> QED
        BY <1>6, <2>1, <3>1, <4>1
    <3>2. CASE q # p
      BY <1>9, <3>2 DEF Removes
    <3> QED
      BY <3>1, <3>2
  <2>6. \A q \in Brandings : Uploads(q)' => q # p /\ Uploads(q) /\ brandCall'[q] = brandCall[q]
    BY <1>8, <1>9, <1>10 DEF Uploads
  <2>7. \A q \in Brandings : ~Removes(q, NoLogo)
    BY BrandingAssumption DEF Removes, BrandingInv, LogosWereUploaded, BrandingTypeOK
  <2>8. LogoStays'
    <3> SUFFICES ASSUME NEW q \in Brandings, NEW logo, logo = branding'.logo
                 PROVE  ~Removes(q, logo)'
      BY DEF LogoStays
    <3>1. Removes(q, logo)' => Removes(q, logo)
      BY <2>3, <2>5
    <3>2. ~Removes(q, logo)
      BY <2>2, <2>3, <2>4, <2>7 DEF LogoStays, UploadsAreFresh
    <3> QED
      BY <3>1, <3>2
  <2>9. UploadsAreFresh'
    <3> SUFFICES ASSUME NEW u \in Brandings, Uploads(u)', NEW image, image = brandCall'[u].image
                 PROVE  /\ image \in imageFiles' /\ image # branding'.logo
                        /\ \A q \in Brandings :
                             /\ ~Removes(q, image)'
                             /\ Uploads(q)' /\ brandCall'[q].image = image => u = q
      BY DEF UploadsAreFresh
    <3>1. u # p /\ Uploads(u) /\ brandCall'[u] = brandCall[u]
      BY <2>6
    <3>2. /\ image \in imageFiles /\ image # branding.logo
          /\ \A q \in Brandings :
               /\ ~Removes(q, image)
               /\ Uploads(q) /\ brandCall[q].image = image => u = q
      BY <2>2, <3>1 DEF UploadsAreFresh
    <3>3. image # NoLogo
      BY <3>1 DEF Uploads, BrandingInv, LogosWereUploaded
    <3>4. image # branding'.logo
      <4>1. image = new.logo /\ new.logo = c.image => p = u
        <5> SUFFICES ASSUME image = new.logo, new.logo = c.image PROVE p = u
          OBVIOUS
        <5>1. Uploads(p)
          BY <2>4, <3>2, <3>3
        <5> QED
          BY <3>2, <5>1
      <4> QED
        BY <2>3, <2>4, <3>1, <3>2, <3>3, <4>1
    <3>5. \A q \in Brandings : ~Removes(q, image)'
      BY <2>5, <3>2
    <3>6. \A q \in Brandings : Uploads(q)' /\ brandCall'[q].image = image => u = q
      BY <2>6, <3>2
    <3> QED
      BY <1>3, <3>2, <3>4, <3>5, <3>6
  <2>10. new.logo \in imageFiles \cup {NoLogo}
    BY <2>2, <2>4 DEF UploadsAreFresh
  <2> QED
    BY <1>3, <2>3, <2>8, <2>9, <2>10
<1>17. BrandingKeepsSwitches
  <2> SUFFICES ASSUME NEW q \in Brandings, brandCall[q] # NoCall, brandCall[q].at # "saved",
                      brandCall'[q] # NoCall, brandCall'[q].at = "saved",
                      brandCall[q].row = branding, brandCall[q].reads = "whole"
               PROVE  LET was == IsLoginMethodEnabled(branding)
                          is == IsLoginMethodEnabled(branding')
                      IN /\ is.sso # was.sso => brandCall[q].op \in {"upload", "unload"} /\ branding.sso = "unset"
                         /\ is.local # was.local => brandCall[q].op \in {"save", "reset"}
                                                     /\ is.local = NewBranding(brandCall[q]).local
    BY Zenon DEF BrandingKeepsSwitches
  <2>1. q = p
    BY <1>9
  <2>2. new.local \in BOOLEAN /\ new.sso \in BOOLEAN
    BY <1>4 DEF Config
  <2>4. /\ c.op \notin {"upload", "unload"} => new.sso = c.policy.sso
        /\ c.op \in {"upload", "unload"} => new.sso = c.previous.sso /\ new.local = c.previous.local
        /\ c.op = "text" => new.local = c.policy.local
    BY <1>2, NewLook
  <2>5. c.previous = GetBrandingConfig(branding) /\ c.policy = IsLoginMethodEnabled(branding)
    BY <1>2, <2>1 DEF BrandingInv, ReadsAreTrue
  <2>9. new = NewBranding(brandCall[p])
    OBVIOUS
  <2> HIDE DEF new
  <2>3. /\ IsLoginMethodEnabled(branding').local = new.local
        /\ IsLoginMethodEnabled(branding').sso = new.sso
    BY <1>3, <1>7, <2>2 DEF IsLoginMethodEnabled, StoredSwitch
  <2>6. /\ GetBrandingConfig(branding).local <=> branding.local # "false"
        /\ GetBrandingConfig(branding).sso <=> branding.sso # "false"
        /\ IsLoginMethodEnabled(branding).local <=> branding.local # "false"
        /\ IsLoginMethodEnabled(branding).sso <=> branding.sso = "true"
        /\ branding.sso \in {"unset", "true", "false"}
        /\ GetBrandingConfig(branding).local \in BOOLEAN /\ GetBrandingConfig(branding).sso \in BOOLEAN
        /\ IsLoginMethodEnabled(branding).local \in BOOLEAN /\ IsLoginMethodEnabled(branding).sso \in BOOLEAN
    BY <1>1, LookOf, PolicyOf DEF StoredBranding, Switch, Config, Policy
  <2>7. c.op \in {"upload", "unload"} =>
          /\ new.local = IsLoginMethodEnabled(branding).local
          /\ branding.sso # "unset" => new.sso = IsLoginMethodEnabled(branding).sso
    <3>1. (branding.sso # "false" <=> branding.sso = "true") \/ branding.sso = "unset"
      BY <2>6
    <3> QED
      BY Zenon, <2>4, <2>5, <2>6, <3>1
  <2>8. c.op \in BrandOp
    BY <1>2 DEF BrandCall
  <2> QED
    BY <2>1, <2>3, <2>4, <2>5, <2>7, <2>8, <2>9 DEF BrandOp
<1>18. ReadsAreTrue'
  BY <1>2, <1>8, <1>9, <1>10 DEF BrandingInv, ReadsAreTrue
<1> QED
  BY <1>12, <1>15, <1>16, <1>17, <1>18 DEF BrandingInv, Uncrossed, LogoHasItsFile

LEMMA BrandEndStep ==
  ASSUME BrandingInv, NEW p \in Brandings, BrandingFails(p) \/ RemoveReplaced(p)
  PROVE  BrandingInv'
<1>1. /\ brandCall \in [Brandings -> BrandCall \cup {NoCall}] /\ form \in [Brandings -> Config]
      /\ isDirty \in [Brandings -> BOOLEAN] /\ imageFiles \subseteq usedImages
  BY DEF BrandingInv, BrandingTypeOK
<1>2. brandCall[p] \in BrandCall /\ brandCall[p] # NoCall
  BY <1>1 DEF BrandingFails, RemoveReplaced
<1>3. /\ brandCall' = [brandCall EXCEPT ![p] = NoCall]
      /\ UNCHANGED <<branding, usedImages, crossed, brandCount, editCount>>
  BY DEF BrandingFails, RemoveReplaced
<1>4. /\ imageFiles' \subseteq imageFiles
      /\ \A logo \in imageFiles : (\A q \in Brandings : ~Removes(q, logo)) => logo \in imageFiles'
  BY <1>2 DEF BrandingFails, RemoveReplaced, FilesOnceFailed, Removes
<1>5. form' \in [Brandings -> Config] /\ \A q \in Brandings : Uploaded(form'[q].logo)
  <2>1. CASE BrandingFails(p)
    BY <1>1, <2>1 DEF BrandingFails, BrandingInv, LogosWereUploaded
  <2>3. CASE RemoveReplaced(p) /\ form' = form
    BY <1>1, <2>3 DEF BrandingInv, LogosWereUploaded
  <2>2. CASE RemoveReplaced(p) /\ form' # form
    <3> DEFINE look == FormOnceAnswered(p, brandCall[p])
    <3>1. form' = [form EXCEPT ![p] = look]
      BY <2>2 DEF RemoveReplaced
    <3>2. /\ brandCall[p].image \in Images \cup {NoLogo} /\ brandCall[p].result \in Config
          /\ Uploaded(brandCall[p].image) /\ Uploaded(brandCall[p].result.logo) /\ Uploaded(form[p].logo)
      BY <1>2 DEF BrandCall, BrandingInv, LogosWereUploaded
    <3>3. look \in Config /\ Uploaded(look.logo)
      <4>1. CASE brandCall[p].op \in {"upload", "unload"}
        <5>1. look = [form[p] EXCEPT !.logo = brandCall[p].image]
          BY <4>1 DEF FormOnceAnswered
        <5>2. form[p] \in Config
          BY <1>1
        <5> HIDE DEF look
        <5> QED
          BY <3>2, <5>1, <5>2 DEF Config
      <4>2. CASE brandCall[p].op \notin {"upload", "unload"}
        <5>1. look = form[p] \/ look = brandCall[p].result
          BY <4>2 DEF FormOnceAnswered
        <5> QED
          BY <1>1, <3>2, <5>1
      <4> QED
        BY <4>1, <4>2
    <3> HIDE DEF look
    <3> QED
      BY <1>1, <3>1, <3>3 DEF BrandingInv, LogosWereUploaded
  <2> QED
    BY <2>1, <2>2, <2>3
<1>6. isDirty' \in [Brandings -> BOOLEAN]
  BY <1>1 DEF BrandingFails, RemoveReplaced
<1>7. \A q \in Brandings : brandCall'[q] # NoCall => brandCall'[q] = brandCall[q]
  BY <1>1, <1>3
<1>8. BrandingTypeOK'
  BY <1>1, <1>3, <1>4, <1>5, <1>6 DEF BrandingInv, BrandingTypeOK
<1>9. LogosWereUploaded'
  BY <1>3, <1>5, <1>7 DEF BrandingInv, LogosWereUploaded, Uploaded
<1>11. ReadsAreTrue'
  BY <1>7 DEF BrandingInv, ReadsAreTrue
<1>10. ASSUME ~crossed PROVE UploadsAreFresh' /\ LogoStays' /\ branding.logo \in imageFiles' \cup {NoLogo}
  <2>1. UploadsAreFresh /\ LogoStays /\ branding.logo \in imageFiles \cup {NoLogo}
    BY <1>10 DEF BrandingInv, Uncrossed, LogoHasItsFile
  <2>2. \A q \in Brandings : \A logo : Removes(q, logo)' => Removes(q, logo)
    BY <1>7 DEF Removes
  <2>3. \A q \in Brandings : Uploads(q)' => Uploads(q) /\ brandCall'[q] = brandCall[q]
    BY <1>7 DEF Uploads
  <2> QED
    BY <1>3, <1>4, <2>1, <2>2, <2>3 DEF UploadsAreFresh, LogoStays
<1> QED
  BY <1>3, <1>8, <1>9, <1>10, <1>11 DEF BrandingInv, Uncrossed, LogoHasItsFile

LEMMA BrandSwitchStep ==
  ASSUME BrandingInv, NEW field \in {"local", "sso"}, SetSwitch(field)
  PROVE  BrandingInv'
<1>1. branding \in StoredBranding /\ brandCount \in 0..MaxBrandChanges
  BY DEF BrandingInv, BrandingTypeOK
<1>2. PICK on \in {"true", "false"} : branding' = [branding EXCEPT ![field] = on]
  BY DEF SetSwitch
<1>3. branding' \in StoredBranding /\ branding'.logo = branding.logo
  <2>1. CASE field = "local"
    <3>1. branding' = [branding EXCEPT !.local = on]
      BY <1>2, <2>1
    <3> QED
      BY <1>1, <3>1 DEF StoredBranding, Switch
  <2>2. CASE field = "sso"
    <3>1. branding' = [branding EXCEPT !.sso = on]
      BY <1>2, <2>2
    <3> QED
      BY <1>1, <3>1 DEF StoredBranding, Switch
  <2> QED
    BY <2>1, <2>2
<1>4. brandCount' \in 0..MaxBrandChanges
  BY <1>1, BrandingAssumption DEF SetSwitch
<1>5. UNCHANGED <<imageFiles, usedImages, form, isDirty, brandCall, crossed, editCount>>
  BY DEF SetSwitch
<1>6. BrandingTypeOK'
  BY <1>3, <1>4, <1>5 DEF BrandingInv, BrandingTypeOK
<1> QED
  BY <1>3, <1>5, <1>6 DEF BrandingInv, LogosWereUploaded, ReadsAreTrue, Uploaded, Uncrossed,
    UploadsAreFresh, LogoStays, Uploads, Removes, LogoHasItsFile

LEMMA BrandFormStep ==
  ASSUME BrandingInv, NEW p \in Brandings, EditForm(p) \/ LoadForm(p)
  PROVE  BrandingInv'
<1>1. form \in [Brandings -> Config] /\ isDirty \in [Brandings -> BOOLEAN] /\ branding \in StoredBranding
      /\ editCount \in 0..MaxBrandEdits /\ Uploaded(form[p].logo) /\ Uploaded(branding.logo)
  BY DEF BrandingInv, BrandingTypeOK, LogosWereUploaded
<1>2. UNCHANGED <<branding, imageFiles, usedImages, brandCall, crossed, brandCount>>
  BY DEF EditForm, LoadForm
<1>3. isDirty' \in [Brandings -> BOOLEAN] /\ editCount' \in 0..MaxBrandEdits
  <2>1. CASE EditForm(p)
    <3>1. isDirty' = [isDirty EXCEPT ![p] = TRUE] /\ editCount' = editCount + 1 /\ editCount < MaxBrandEdits
      BY <2>1 DEF EditForm
    <3> QED
      BY <1>1, <3>1, BrandingAssumption
  <2>2. CASE LoadForm(p)
    BY <1>1, <2>2 DEF LoadForm
  <2> QED
    BY <2>1, <2>2
<1>4. PICK look \in Config : Uploaded(look.logo) /\ form' = [form EXCEPT ![p] = look]
  <2>1. CASE LoadForm(p)
    <3>1. PICK look \in {GetBrandingConfig(branding), DefaultBranding} : form' = [form EXCEPT ![p] = look]
      BY <2>1 DEF LoadForm
    <3> QED
      BY <1>1, <3>1, LookOf, DefaultIsALook DEF Uploaded
  <2>2. CASE \E name \in Names : form' = [form EXCEPT ![p].name = name]
    <3>1. PICK name \in Names : form' = [form EXCEPT ![p].name = name]
      BY <2>2
    <3> DEFINE look == [form[p] EXCEPT !.name = name]
    <3>2. look \in Config /\ look.logo = form[p].logo
      BY <1>1 DEF Config
    <3>3. form' = [form EXCEPT ![p] = look]
      BY <3>1
    <3> QED
      BY <1>1, <3>2, <3>3
  <2>3. CASE form' = [form EXCEPT ![p].local = ~form[p].local]
    <3>1. PICK local \in BOOLEAN : local = ~form[p].local
      BY Zenon
    <3> DEFINE look == [form[p] EXCEPT !.local = local]
    <3>2. look \in Config /\ look.logo = form[p].logo
      BY <1>1 DEF Config
    <3>3. form' = [form EXCEPT ![p] = look]
      BY Zenon, <2>3, <3>1
    <3> QED
      BY <1>1, <3>2, <3>3
  <2> QED
    BY <2>1, <2>2, <2>3 DEF EditForm
<1> QED
  BY <1>2, <1>3, <1>4, FormMoves

LEMMA BrandingInvStep == BrandingInv /\ [BrandingNext]_brandVars => BrandingInv'
<1>1. BrandingInv /\ UNCHANGED brandVars => BrandingInv'
  BY DEF BrandingInv, BrandingTypeOK, LogosWereUploaded, ReadsAreTrue, Uploaded, Uncrossed,
    UploadsAreFresh, LogoStays, Uploads, Removes, LogoHasItsFile
<1> QED
  BY <1>1, BrandAskStep, BrandReadStep, BrandSwitchReadStep, BrandSaveStep, BrandEndStep, BrandSwitchStep, BrandFormStep
  DEF BrandingNext

(* Only a save answers for the switches.                                   *)
LEMMA BrandingKeeps == BrandingInv /\ [BrandingNext]_brandVars => BrandingKeepsSwitches
<1> SUFFICES ASSUME BrandingInv, BrandingNext \/ UNCHANGED brandVars,
                    NEW q \in Brandings, brandCall[q] # NoCall, brandCall[q].at # "saved",
                    brandCall'[q] # NoCall, brandCall'[q].at = "saved"
             PROVE  BrandingKeepsSwitches
  BY Zenon DEF BrandingKeepsSwitches
<1>1. brandCall \in [Brandings -> BrandCall \cup {NoCall}] /\ brandCall' # brandCall
  BY DEF BrandingInv, BrandingTypeOK
<1>2. \E p \in Brandings : SaveBrandingConfig(p)
  <2>1. ASSUME NEW p \in Brandings, NEW op \in BrandOp, NEW image \in Images \cup {NoLogo},
               AskBranding(p, op, image)
        PROVE  FALSE
    BY <1>1, <2>1 DEF AskBranding
  <2>2. ASSUME NEW p \in Brandings, ReadBranding(p) PROVE FALSE
    <3>1. \A c \in BrandCall : [c EXCEPT !.previous = GetBrandingConfig(branding)].at = c.at
      BY DEF BrandCall
    <3> QED
      BY <1>1, <2>2 DEF ReadBranding, BrandCall
  <2>6. ASSUME NEW p \in Brandings, NEW switch \in {"local", "sso"}, ReadSwitch(p, switch) PROVE FALSE
    BY <1>1, <2>6 DEF ReadSwitch, ReadNext, SwitchRead, BrandCall
  <2>3. ASSUME NEW p \in Brandings, BrandingFails(p) \/ RemoveReplaced(p) PROVE FALSE
    BY <1>1, <2>3 DEF BrandingFails, RemoveReplaced
  <2>4. ASSUME NEW p \in Brandings, EditForm(p) \/ LoadForm(p) PROVE FALSE
    BY <1>1, <2>4 DEF EditForm, LoadForm
  <2>5. ASSUME NEW field, SetSwitch(field) PROVE FALSE
    BY <1>1, <2>5 DEF SetSwitch
  <2> QED
    BY <1>1, <2>1, <2>2, <2>3, <2>4, <2>5, <2>6 DEF BrandingNext
<1> QED
  BY <1>2, BrandSaveStep

LEMMA BrandingFormsKeepEdits == BrandingInv /\ [BrandingNext]_brandVars => FormsKeepEdits
<1> SUFFICES ASSUME BrandingInv, BrandingNext,
                    NEW p \in Brandings, isDirty[p], editCount' = editCount, brandCall[p] # NoCall,
                    brandCall[p].op \notin {"save", "reset"}, form' # form
             PROVE  form'[p].name = form[p].name /\ form'[p].local = form[p].local
  BY Zenon DEF FormsKeepEdits
<1>1. form \in [Brandings -> Config] /\ editCount \in Nat
  BY BrandingAssumption DEF BrandingInv, BrandingTypeOK
<1>2. \E q \in Brandings : LoadForm(q) \/ RemoveReplaced(q)
  <2>1. \A q \in Brandings : ~EditForm(q)
    BY <1>1 DEF EditForm
  <2>2. \A q \in Brandings : /\ \A op, image : ~AskBranding(q, op, image)
                            /\ ~ReadBranding(q) /\ ~SaveBrandingConfig(q) /\ ~BrandingFails(q)
                            /\ \A switch : ~ReadSwitch(q, switch)
    BY DEF AskBranding, ReadBranding, ReadSwitch, SaveBrandingConfig, BrandingFails
  <2>3. ~SetSwitch("local") /\ ~SetSwitch("sso")
    BY DEF SetSwitch
  <2> QED
    BY <2>1, <2>2, <2>3 DEF BrandingNext
<1>3. PICK q \in Brandings : LoadForm(q) \/ RemoveReplaced(q)
  BY <1>2
<1>4. CASE q # p
  BY <1>1, <1>3, <1>4 DEF LoadForm, RemoveReplaced
<1>5. CASE q = p
  <2>1. RemoveReplaced(p)
    BY <1>3, <1>5 DEF LoadForm
  <2> DEFINE look == FormOnceAnswered(p, brandCall[p])
  <2>2. form' = [form EXCEPT ![p] = look]
    BY <2>1 DEF RemoveReplaced
  <2>3. brandCall[p].op \in BrandOp
    BY DEF BrandingInv, BrandingTypeOK, BrandCall
  <2>4. look = form[p] \/ look = [form[p] EXCEPT !.logo = brandCall[p].image]
    BY <2>3 DEF FormOnceAnswered, BrandOp
  <2>5. form[p] \in Config
    BY <1>1
  <2>6. look.name = form[p].name /\ look.local = form[p].local
    <3> HIDE DEF look
    <3> QED
      BY <2>4, <2>5 DEF Config
  <2> HIDE DEF look
  <2> QED
    BY <1>1, <2>2, <2>6
<1> QED
  BY <1>4, <1>5

USE DEF mailVars

-----------------------------------------------------------------------------
(* Mail settings.  What a form can hold: one half of a certificate and its *)
(* key is removed with the other, and a form about Microsoft 365 names the *)
(* provider and the tenant and never removes the secret.                   *)
FormIsAsked(asked) ==
  /\ DOMAIN asked \subseteq MailKey
  /\ \A k \in DOMAIN asked :
       /\ asked[k] \in MailValue[k] \/ asked[k] = "null" \/ asked[k] = "keep"
       /\ asked[k] = "keep" => k = "key"
       /\ asked[k] = "null" => k \in {"cert", "key"} /\ {"cert", "key"} \subseteq DOMAIN asked
                              /\ asked["cert"] = "null" /\ asked["key"] = "null"
       /\ k = "from" => asked[k] = "x"
       /\ k \in {"tenant", "secret"} => "provider" \in DOMAIN asked
       /\ k = "secret" => asked[k] = "x"
  /\ "provider" \in DOMAIN asked =>
       "tenant" \in DOMAIN asked /\ DOMAIN asked \subseteq {"provider", "tenant", "secret"}

LEMMA MailKeys ==
  MailKey = {"port", "secure", "requireTLS", "cert", "key", "from", "user", "notify",
             "provider", "tenant", "secret"}
BY DEF MailKey, MailValue

LEMMA MailValues ==
  /\ MailValue["port"] = {Unset, "465", "587"} /\ MailValue["secure"] = {Unset, "true", "false"}
  /\ MailValue["requireTLS"] = {Unset, "true", "false"}
  /\ MailValue["cert"] = PemOf /\ MailValue["key"] = PemOf
  /\ MailValue["from"] = {Unset, "x"} /\ MailValue["user"] = {Unset, "x"}
  /\ MailValue["notify"] = {"true", "false"} /\ MailValue["provider"] = {"smtp", "graph"}
  /\ MailValue["tenant"] = {Unset, "x"} /\ MailValue["secret"] = {Unset, "x"}
BY DEF MailValue

(* The same before the halves are tied, when only one may be removed.      *)
WrittenKeys(asked) == DOMAIN asked \subseteq MailKey /\ asked = [k \in DOMAIN asked |-> asked[k]]
WrittenValues(asked) ==
  \A k \in DOMAIN asked : asked[k] \in MailValue[k] \/ asked[k] = "null" \/ asked[k] = "keep"
WrittenMarks(asked) ==
  \A k \in DOMAIN asked :
    (asked[k] = "keep" => k = "key") /\ (asked[k] = "null" => k \in {"cert", "key"})
WrittenGiven(asked) == \A k \in DOMAIN asked \cap {"from", "secret"} : asked[k] = "x"
WrittenProvider(asked) ==
  /\ DOMAIN asked \cap {"tenant", "secret"} # {} => "provider" \in DOMAIN asked
  /\ "provider" \in DOMAIN asked =>
       "tenant" \in DOMAIN asked /\ DOMAIN asked \subseteq {"provider", "tenant", "secret"}
FormIsWritten(asked) ==
  WrittenKeys(asked) /\ WrittenValues(asked) /\ WrittenMarks(asked) /\ WrittenGiven(asked)
    /\ WrittenProvider(asked)

LEMMA FormsAreWritten == \A asked \in MailForms \cup GraphForms : FormIsWritten(asked)
<1>1. \A asked \in MailForms \cup GraphForms : WrittenKeys(asked)
  BY MailKeys DEF MailForms, GraphForms, WrittenKeys
<1>2. \A asked \in MailForms \cup GraphForms : WrittenValues(asked)
  <2>1. \A asked \in MailForms : WrittenValues(asked)
    BY MailValues DEF MailForms, WrittenValues, PemOf
  <2>2. \A asked \in GraphForms : WrittenValues(asked)
    BY MailValues DEF GraphForms, WrittenValues
  <2> QED
    BY <2>1, <2>2
<1>3. \A asked \in MailForms \cup GraphForms : WrittenMarks(asked)
  <2>1. \A asked \in MailForms : WrittenMarks(asked)
    BY DEF MailForms, WrittenMarks, Unset
  <2>2. \A asked \in GraphForms : WrittenMarks(asked)
    BY DEF GraphForms, WrittenMarks, Unset
  <2> QED
    BY <2>1, <2>2
<1>4. \A asked \in MailForms \cup GraphForms : WrittenGiven(asked)
  <2>1. \A asked \in MailForms : WrittenGiven(asked)
    BY DEF MailForms, WrittenGiven
  <2>2. \A asked \in GraphForms : WrittenGiven(asked)
    BY DEF GraphForms, WrittenGiven
  <2> QED
    BY <2>1, <2>2
<1>5. \A asked \in MailForms \cup GraphForms : WrittenProvider(asked)
  <2>1. \A asked \in MailForms : WrittenProvider(asked)
    BY DEF MailForms, WrittenProvider
  <2>2. \A asked \in GraphForms : WrittenProvider(asked)
    BY DEF GraphForms, WrittenProvider
  <2> QED
    BY <2>1, <2>2
<1> QED
  BY <1>1, <1>2, <1>3, <1>4, <1>5 DEF FormIsWritten

LEMMA ClearingAsks ==
  ASSUME NEW asked, FormIsWritten(asked) PROVE FormIsAsked(ClearsClientPair(asked))
<1>1. CASE \E k \in DOMAIN asked \cap {"cert", "key"} : asked[k] = "null"
  <2> DEFINE clear == [k \in DOMAIN asked \cup {"cert", "key"} |->
                         IF k \in {"cert", "key"} THEN "null" ELSE asked[k]]
  <2>1. ClearsClientPair(asked) = clear
    BY <1>1 DEF ClearsClientPair
  <2>2. "provider" \notin DOMAIN asked
    BY <1>1 DEF FormIsWritten, WrittenProvider
  <2>3. FormIsAsked(clear)
    BY <2>2, MailKeys DEF FormIsAsked, FormIsWritten, WrittenKeys, WrittenValues, WrittenMarks,
         WrittenGiven, WrittenProvider
  <2> QED
    BY <2>1, <2>3
<1>2. CASE \A k \in DOMAIN asked \cap {"cert", "key"} : asked[k] # "null"
  <2>1. ClearsClientPair(asked) = asked
    BY <1>2 DEF ClearsClientPair
  <2>2. FormIsAsked(asked)
    BY <1>2 DEF FormIsAsked, FormIsWritten, WrittenKeys, WrittenValues, WrittenMarks,
         WrittenGiven, WrittenProvider
  <2> QED
    BY <2>1, <2>2
<1> QED
  BY <1>1, <1>2


LEMMA FormsAreAsked == \A asked \in MailBodies : FormIsAsked(asked)
BY FormsAreWritten, ClearingAsks DEF MailBodies

-----------------------------------------------------------------------------
(* What the judgements a request has passed still mean, as long as no save *)
(* has written over what they looked at; and Microsoft 365, in any case.   *)
AboutSmtp(asked) == "provider" \notin DOMAIN asked
PairFits(asked) ==
  Submitted(asked, "cert") \/ Submitted(asked, "key") => KeyMatchesCertificate(asked)
TlsFits(asked) ==
  DOMAIN asked \cap {"port", "secure", "requireTLS"} # {} => ValidCombination(asked)
NoticeFits(asked) == "notify" \in DOMAIN asked /\ asked["notify"] = "true" => CanDeliver(asked)
GraphFits(asked) ==
  "provider" \in DOMAIN asked /\ asked["provider"] = "graph" =>
    asked["tenant"] # Unset /\ ("secret" \in DOMAIN asked \/ mail["secret"] # Unset)

RequestIsJudged(call) ==
  /\ call.at \in {"pair", "tls", "delivery"} => AboutSmtp(call.form)
  /\ call.at = "graph" => ~AboutSmtp(call.form)
  /\ call.at = "store" => GraphFits(call.form)
  /\ ~call.overlapped /\ AboutSmtp(call.form) =>
       /\ call.at \in {"tls", "delivery", "store"} => PairFits(call.form)
       /\ call.at \in {"delivery", "store"} => TlsFits(call.form)
       /\ call.at = "store" => NoticeFits(call.form)
RequestsAreJudged ==
  \A c \in MailCalls : mailCall[c] # NoMailCall => RequestIsJudged(mailCall[c])

MailInv == MailTypeOK /\ StoredMailWorks /\ RequestsAreJudged

LEMMA MailInvInit == MailInit => MailInv
<1> SUFFICES ASSUME MailInit PROVE MailInv
  OBVIOUS
<1>1. MailTypeOK
  <2>1. \A k \in MailKey : mail[k] \in MailValue[k]
    BY MailKeys, MailValues DEF MailInit, PemOf
  <2>2. mail \in [MailKey -> UNION {MailValue[k] : k \in MailKey}]
    <3>1. \A k \in MailKey : mail[k] \in UNION {MailValue[x] : x \in MailKey}
      BY <2>1, Zenon
    <3>2. mail = [k \in MailKey |-> mail[k]]
      BY DEF MailInit
    <3> HIDE DEF MailInit
    <3> QED
      BY <3>1, <3>2
  <2>3. mailCall \in [MailCalls -> MailRequest \cup {NoMailCall}]
    BY DEF MailInit
  <2>4. mailCrossed \in BOOLEAN /\ mailCount \in 0 .. MaxMailCalls
    <3>1. mailCrossed = FALSE /\ mailCount = 0
      BY DEF MailInit
    <3>2. mailCount \in 0 .. MaxMailCalls
      BY <3>1, MailAssumption
    <3>3. mailCrossed \in BOOLEAN
      BY <3>1
    <3> QED
      BY <3>2, <3>3
  <2> QED
    BY <2>1, <2>2, <2>3, <2>4 DEF MailTypeOK
<1>2. StoredMailWorks
  BY MailKeys DEF MailInit, StoredMailWorks, ValidSmtp, Port, RequireTLS, Unset
<1>3. RequestsAreJudged
  BY DEF MailInit, RequestsAreJudged
<1> QED
  BY <1>1, <1>2, <1>3 DEF MailInv

(* A step of a request that writes nothing yet.                            *)
LEMMA RequestMoves ==
  ASSUME MailInv, NEW c \in MailCalls, NEW call \in MailRequest \cup {NoMailCall},
         call # NoMailCall => RequestIsJudged(call),
         mailCall' = [mailCall EXCEPT ![c] = call], UNCHANGED <<mail, mailCrossed>>,
         mailCount' \in 0 .. MaxMailCalls
  PROVE  MailInv'
<1>1. MailTypeOK'
  BY DEF MailInv, MailTypeOK
<1>2. StoredMailWorks'
  BY DEF MailInv, StoredMailWorks, ValidSmtp, GraphMailConfig
<1>3. RequestsAreJudged'
  <2> SUFFICES ASSUME NEW d \in MailCalls, mailCall'[d] # NoMailCall
               PROVE  (RequestIsJudged(mailCall[d]))'
    BY DEF RequestsAreJudged
  <2>1. mailCall'[d] \in MailRequest
    BY <1>1 DEF MailTypeOK
  <2>2. RequestIsJudged(mailCall'[d])
    BY DEF MailInv, MailTypeOK, RequestsAreJudged
  <2> DEFINE new == mailCall'[d]
  <2>3. (RequestIsJudged(mailCall[d]))' <=> RequestIsJudged(new)
    BY DEF RequestIsJudged, AboutSmtp, PairFits, TlsFits, NoticeFits, GraphFits, Submitted,
           KeyMatchesCertificate, Merged, ValidCombination, CanDeliver, GetEmailDeliveryStatus,
           GraphMailConfig, HasSmtpAuthentication
  <2> QED
    BY <2>2, <2>3
<1> QED
  BY <1>1, <1>2, <1>3 DEF MailInv

LEMMA AsksMail == ASSUME MailInv, NEW c \in MailCalls, AskMail(c) PROVE MailInv'
<1>1. PICK asked \in MailForms \cup GraphForms :
        mailCall' = [mailCall EXCEPT ![c] =
          [at |-> IF "provider" \in DOMAIN asked THEN "graph" ELSE "pair",
           form |-> ClearsClientPair(asked), overlapped |-> FALSE]]
  BY DEF AskMail
<1> DEFINE body == ClearsClientPair(asked)
           at == IF "provider" \in DOMAIN asked THEN "graph" ELSE "pair"
           call == [at |-> at, form |-> body, overlapped |-> FALSE]
<1>2. body \in MailBodies
  BY DEF MailBodies
<1>3. "provider" \in DOMAIN body <=> "provider" \in DOMAIN asked
  BY DEF ClearsClientPair
<1>4. at \in {"graph", "pair"} /\ (at = "pair" <=> "provider" \notin DOMAIN body)
  BY <1>3
<1>5. mailCall' = [mailCall EXCEPT ![c] = call]
  BY <1>1
<1> HIDE DEF at, body
<1>6. call \in MailRequest
  BY <1>2, <1>4 DEF MailRequest
<1>7. RequestIsJudged(call)
  BY <1>4 DEF RequestIsJudged, AboutSmtp
<1>8. mailCount' \in 0 .. MaxMailCalls /\ UNCHANGED <<mail, mailCrossed>>
  BY MailAssumption DEF AskMail, MailInv, MailTypeOK
<1> HIDE DEF call
<1> QED
  BY <1>5, <1>6, <1>7, <1>8, RequestMoves

LEMMA RefusesMail == ASSUME MailInv, NEW c \in MailCalls, RefuseMail(c) PROVE MailInv'
BY RequestMoves DEF RefuseMail, MailInv, MailTypeOK

(* A request that passed a judgement.                                      *)
LEMMA RequestPasses ==
  ASSUME MailInv, NEW c \in MailCalls, NEW step \in {"tls", "delivery", "store"},
         Moves(c, step), mailCall[c] # NoMailCall,
         RequestIsJudged([mailCall[c] EXCEPT !.at = step])
  PROVE  MailInv'
<1> DEFINE call == [mailCall[c] EXCEPT !.at = step]
<1>1. mailCall[c] \in MailRequest
  BY DEF MailInv, MailTypeOK
<1>2. call \in MailRequest
  BY <1>1 DEF MailRequest
<1>3. mailCall' = [mailCall EXCEPT ![c] = call] /\ UNCHANGED <<mail, mailCrossed, mailCount>>
  BY DEF Moves
<1>4. mailCount' \in 0 .. MaxMailCalls
  BY <1>3 DEF MailInv, MailTypeOK
<1> HIDE DEF call
<1> QED
  BY <1>2, <1>3, <1>4, RequestMoves DEF call

LEMMA JudgesPair == ASSUME MailInv, NEW c \in MailCalls, JudgePair(c) PROVE MailInv'
<1>1. mailCall[c] \in MailRequest /\ mailCall[c].at = "pair" /\ Moves(c, "tls")
  BY DEF JudgePair, Stands, MailInv, MailTypeOK, NoMailCall
<1>2. RequestIsJudged(mailCall[c]) /\ mailCall[c] # NoMailCall
  BY <1>1 DEF MailInv, RequestsAreJudged, NoMailCall
<1>3. PairFits(mailCall[c].form)
  BY DEF JudgePair, PairFits
<1>4. RequestIsJudged([mailCall[c] EXCEPT !.at = "tls"])
  BY <1>1, <1>2, <1>3 DEF RequestIsJudged, MailRequest
<1> QED
  BY <1>1, <1>2, <1>4, RequestPasses

LEMMA JudgesTls == ASSUME MailInv, NEW c \in MailCalls, JudgeTls(c) PROVE MailInv'
<1>1. mailCall[c] \in MailRequest /\ mailCall[c].at = "tls" /\ Moves(c, "delivery")
  BY DEF JudgeTls, Stands, MailInv, MailTypeOK, NoMailCall
<1>2. RequestIsJudged(mailCall[c]) /\ mailCall[c] # NoMailCall
  BY <1>1 DEF MailInv, RequestsAreJudged, NoMailCall
<1>3. TlsFits(mailCall[c].form)
  BY DEF JudgeTls, TlsFits
<1>4. RequestIsJudged([mailCall[c] EXCEPT !.at = "delivery"])
  BY <1>1, <1>2, <1>3 DEF RequestIsJudged, MailRequest
<1> QED
  BY <1>1, <1>2, <1>4, RequestPasses

LEMMA JudgesDelivery == ASSUME MailInv, NEW c \in MailCalls, JudgeDelivery(c) PROVE MailInv'
<1>1. mailCall[c] \in MailRequest /\ mailCall[c].at = "delivery" /\ Moves(c, "store")
  BY DEF JudgeDelivery, Stands, MailInv, MailTypeOK, NoMailCall
<1>2. RequestIsJudged(mailCall[c]) /\ mailCall[c] # NoMailCall
  BY <1>1 DEF MailInv, RequestsAreJudged, NoMailCall
<1>3. NoticeFits(mailCall[c].form)
  BY DEF JudgeDelivery, NoticeFits
<1>4. GraphFits(mailCall[c].form)
  BY <1>1, <1>2 DEF RequestIsJudged, AboutSmtp, GraphFits
<1>5. RequestIsJudged([mailCall[c] EXCEPT !.at = "store"])
  BY <1>1, <1>2, <1>3, <1>4 DEF RequestIsJudged, MailRequest
<1> QED
  BY <1>1, <1>2, <1>5, RequestPasses

LEMMA JudgesGraph == ASSUME MailInv, NEW c \in MailCalls, JudgeGraph(c) PROVE MailInv'
<1>1. mailCall[c] \in MailRequest /\ mailCall[c].at = "graph" /\ Moves(c, "store")
  BY DEF JudgeGraph, Stands, MailInv, MailTypeOK, NoMailCall
<1>2. RequestIsJudged(mailCall[c]) /\ mailCall[c] # NoMailCall
  BY <1>1 DEF MailInv, RequestsAreJudged, NoMailCall
<1> DEFINE asked == mailCall[c].form
<1>3. asked \in MailBodies /\ "provider" \in DOMAIN asked
  BY <1>1, <1>2 DEF RequestIsJudged, AboutSmtp, MailRequest
<1>4. FormIsAsked(asked)
  BY <1>3, FormsAreAsked
<1>5. ASSUME asked["provider"] = "graph"
      PROVE  asked["tenant"] # Unset /\ ("secret" \in DOMAIN asked \/ mail["secret"] # Unset)
  <2>1. Merged(asked, "tenant") # Unset /\ Merged(asked, "secret") # Unset
    BY <1>5, MailKeys DEF JudgeGraph, GraphMailConfig
  <2>2. "tenant" \in DOMAIN asked /\ asked["tenant"] \notin {"null", "keep"}
    BY <1>3, <1>4, MailValues DEF FormIsAsked
  <2>3. Merged(asked, "tenant") = asked["tenant"]
    BY <2>2 DEF Merged, Submitted
  <2>4. "secret" \notin DOMAIN asked => Merged(asked, "secret") = mail["secret"]
    BY DEF Merged, Submitted
  <2> QED
    BY <2>1, <2>3, <2>4
<1>6. GraphFits(asked) /\ ~AboutSmtp(asked)
  BY <1>3, <1>5 DEF GraphFits, AboutSmtp
<1>7. RequestIsJudged([mailCall[c] EXCEPT !.at = "store"])
  BY <1>1, <1>6 DEF RequestIsJudged, MailRequest
<1> QED
  BY <1>1, <1>2, <1>7, RequestPasses

(* What a save writes, seen key by key.                                    *)
LEMMA WritesByKey ==
  ASSUME MailInv, NEW asked, FormIsAsked(asked),
         mail' = [k \in MailKey |->
                    IF k \in DOMAIN asked /\ asked[k] = "null" THEN Unset ELSE Merged(asked, k)]
  PROVE  /\ \A k \in MailKey : mail'[k] \in MailValue[k]
         /\ mail' \in [MailKey -> UNION {MailValue[k] : k \in MailKey}]
         /\ \A k \in MailKey : k \notin {"cert", "key"} =>
              mail'[k] = IF k \in DOMAIN asked THEN asked[k] ELSE mail[k]
<1>1. \A k \in MailKey : mail[k] \in MailValue[k]
  BY DEF MailInv, MailTypeOK
<1>2. ASSUME NEW k \in MailKey PROVE mail'[k] \in MailValue[k]
  <2>1. CASE k \in DOMAIN asked /\ asked[k] = "null"
    <3>1. k \in {"cert", "key"} /\ mail'[k] = Unset
      BY <2>1 DEF FormIsAsked
    <3> QED
      BY <3>1, MailValues DEF PemOf
  <2>2. CASE ~(k \in DOMAIN asked /\ asked[k] = "null")
    <3>1. mail'[k] = Merged(asked, k)
      BY <2>2
    <3>2. Merged(asked, k) \in MailValue[k]
      BY <1>1 DEF Merged, Submitted, FormIsAsked
    <3> QED
      BY <3>1, <3>2
  <2> QED
    BY <2>1, <2>2
<1>3. \A k \in MailKey : mail'[k] \in UNION {MailValue[x] : x \in MailKey}
  BY <1>2, Zenon
<1>4. mail' = [k \in MailKey |-> mail'[k]]
  OBVIOUS
<1>5. mail' \in [MailKey -> UNION {MailValue[k] : k \in MailKey}]
  BY <1>3, <1>4, Zenon
<1>6. ASSUME NEW k \in MailKey, k \notin {"cert", "key"}
      PROVE  mail'[k] = IF k \in DOMAIN asked THEN asked[k] ELSE mail[k]
  <2>1. k \in DOMAIN asked => asked[k] \notin {"null", "keep"}
    BY <1>6 DEF FormIsAsked
  <2> QED
    BY <2>1 DEF Merged, Submitted
<1> QED
  BY <1>2, <1>5, <1>6

LEMMA StoresMail == ASSUME MailInv, NEW c \in MailCalls, StoreMail(c) PROVE MailInv'
<1> DEFINE call == mailCall[c]
           asked == mailCall[c].form
<1>1. call \in MailRequest /\ call.at = "store"
  BY DEF StoreMail, Stands, MailInv, MailTypeOK, NoMailCall
<1>2. RequestIsJudged(call)
  BY <1>1 DEF MailInv, RequestsAreJudged, NoMailCall
<1>3. asked \in MailBodies
  BY <1>1 DEF MailRequest
<1>4. FormIsAsked(asked)
  BY <1>3, FormsAreAsked
<1>5. mail' = [k \in MailKey |->
                 IF k \in DOMAIN asked /\ asked[k] = "null" THEN Unset ELSE Merged(asked, k)]
  BY DEF StoreMail
<1>6. /\ \A k \in MailKey : mail'[k] \in MailValue[k]
      /\ mail' \in [MailKey -> UNION {MailValue[k] : k \in MailKey}]
      /\ \A k \in MailKey : k \notin {"cert", "key"} =>
           mail'[k] = IF k \in DOMAIN asked THEN asked[k] ELSE mail[k]
  <2> HIDE DEF asked
  <2> QED
    BY <1>4, <1>5, WritesByKey
<1>7. mailCrossed' = (mailCrossed \/ call.overlapped)
  BY DEF StoreMail
<1>8. mailCall' = [x \in MailCalls |->
        IF x = c \/ mailCall[x] = NoMailCall THEN NoMailCall
        ELSE [mailCall[x] EXCEPT !.overlapped = TRUE]]
  BY DEF StoreMail
<1>9. \A x \in MailCalls : mailCall'[x] # NoMailCall =>
        /\ mailCall[x] \in MailRequest /\ RequestIsJudged(mailCall[x])
        /\ mailCall'[x] = [mailCall[x] EXCEPT !.overlapped = TRUE]
  BY <1>8 DEF MailInv, MailTypeOK, RequestsAreJudged
<1>10. mailCall' \in [MailCalls -> MailRequest \cup {NoMailCall}]
  <2>1. \A x \in MailCalls : mailCall'[x] \in MailRequest \cup {NoMailCall}
    BY <1>9 DEF MailRequest
  <2> QED
    BY <1>8, <2>1
<1>11. MailTypeOK'
  <2>1. mailCrossed' \in BOOLEAN
    BY <1>7
  <2>2. mailCount' \in 0 .. MaxMailCalls
    BY DEF StoreMail, MailInv, MailTypeOK
  <2> QED
    BY <1>6, <1>10, <2>1, <2>2 DEF MailTypeOK
<1>12. mail["secret"] # Unset => mail'["secret"] # Unset
  BY <1>4, <1>6, MailKeys DEF FormIsAsked, Unset
<1>13. StoredMailWorks'
  <2>1. ASSUME mail'["provider"] = "graph"
        PROVE  mail'["tenant"] # Unset /\ mail'["secret"] # Unset
    <3>1. CASE "provider" \in DOMAIN asked
      <4>1. GraphFits(asked) /\ asked["provider"] = "graph" /\ "tenant" \in DOMAIN asked
        BY <1>1, <1>2, <1>4, <1>6, <2>1, <3>1, MailKeys DEF RequestIsJudged, FormIsAsked
      <4>2. asked["tenant"] # Unset /\ ("secret" \in DOMAIN asked \/ mail["secret"] # Unset)
        BY <3>1, <4>1 DEF GraphFits
      <4>3. "secret" \in DOMAIN asked => mail'["secret"] = "x"
        BY <1>4, <1>6, MailKeys DEF FormIsAsked
      <4> QED
        BY <1>6, <1>12, <4>1, <4>2, <4>3, MailKeys DEF Unset
    <3>2. CASE "provider" \notin DOMAIN asked
      <4>1. {"tenant", "secret"} \cap DOMAIN asked = {}
        BY <1>4, <3>2 DEF FormIsAsked
      <4>2. /\ mail'["provider"] = mail["provider"] /\ mail'["tenant"] = mail["tenant"]
            /\ mail'["secret"] = mail["secret"]
        BY <1>6, <3>2, <4>1, MailKeys
      <4> QED
        BY <2>1, <4>2 DEF MailInv, StoredMailWorks, GraphMailConfig
    <3> QED
      BY <3>1, <3>2
  <2>2. ASSUME ~mailCrossed'
        PROVE  /\ ValidSmtp(mail'["port"], mail'["secure"], mail'["requireTLS"])
               /\ mail'["cert"] = mail'["key"]
    <3>1. ~mailCrossed /\ ~call.overlapped
      BY <1>7, <2>2
    <3>2. /\ ValidSmtp(mail["port"], mail["secure"], mail["requireTLS"])
          /\ mail["cert"] = mail["key"]
      BY <3>1 DEF MailInv, StoredMailWorks
    <3>3. CASE "provider" \in DOMAIN asked
      <4>1. DOMAIN asked \cap {"port", "secure", "requireTLS", "cert", "key"} = {}
        BY <1>4, <3>3 DEF FormIsAsked
      <4>2. /\ mail'["port"] = mail["port"] /\ mail'["secure"] = mail["secure"]
            /\ mail'["requireTLS"] = mail["requireTLS"]
        BY <1>6, <4>1, MailKeys
      <4>3. mail'["cert"] = mail["cert"] /\ mail'["key"] = mail["key"]
        BY <1>5, <4>1, MailKeys DEF Merged, Submitted
      <4> QED
        BY <3>2, <4>2, <4>3
    <3>4. CASE "provider" \notin DOMAIN asked
      <4>1. PairFits(asked) /\ TlsFits(asked)
        BY <1>1, <1>2, <3>1, <3>4 DEF RequestIsJudged, AboutSmtp
      <4>2. \A k \in {"port", "secure", "requireTLS"} : mail'[k] = Merged(asked, k)
        BY <1>4, <1>6, MailKeys DEF FormIsAsked, Merged, Submitted
      <4>3. ValidSmtp(mail'["port"], mail'["secure"], mail'["requireTLS"])
        <5>1. CASE DOMAIN asked \cap {"port", "secure", "requireTLS"} # {}
          BY <4>1, <4>2, <5>1 DEF TlsFits, ValidCombination
        <5>2. CASE DOMAIN asked \cap {"port", "secure", "requireTLS"} = {}
          <6>1. /\ mail'["port"] = mail["port"] /\ mail'["secure"] = mail["secure"]
                /\ mail'["requireTLS"] = mail["requireTLS"]
            BY <1>6, <5>2, MailKeys
          <6> QED
            BY <3>2, <6>1
        <5> QED
          BY <5>1, <5>2
      <4>4. mail'["cert"] = mail'["key"]
        <5>1. \A k \in {"cert", "key"} :
                mail'[k] = IF k \in DOMAIN asked /\ asked[k] = "null" THEN Unset
                           ELSE Merged(asked, k)
          BY <1>5, MailKeys
        <5>2. CASE Submitted(asked, "cert") \/ Submitted(asked, "key")
          <6>1. Merged(asked, "cert") = Merged(asked, "key")
            BY <4>1, <5>2 DEF PairFits, KeyMatchesCertificate
          <6>2. \A k \in {"cert", "key"} : ~(k \in DOMAIN asked /\ asked[k] = "null")
            BY <1>4, <5>2 DEF FormIsAsked, Submitted
          <6> QED
            BY <5>1, <6>1, <6>2
        <5>3. CASE ~Submitted(asked, "cert") /\ ~Submitted(asked, "key")
          <6>1. Merged(asked, "cert") = mail["cert"] /\ Merged(asked, "key") = mail["key"]
            BY <5>3 DEF Merged
          <6>2. ("cert" \in DOMAIN asked /\ asked["cert"] = "null") <=>
                ("key" \in DOMAIN asked /\ asked["key"] = "null")
            BY <1>4 DEF FormIsAsked
          <6> QED
            BY <3>2, <5>1, <6>1, <6>2
        <5> QED
          BY <5>2, <5>3
      <4> QED
        BY <4>3, <4>4
    <3> QED
      BY <3>3, <3>4
  <2> QED
    BY <2>1, <2>2 DEF StoredMailWorks, GraphMailConfig
<1>14. RequestsAreJudged'
  <2> SUFFICES ASSUME NEW x \in MailCalls, mailCall'[x] # NoMailCall
               PROVE  (RequestIsJudged(mailCall[x]))'
    BY DEF RequestsAreJudged
  <2>1. /\ mailCall[x] \in MailRequest /\ RequestIsJudged(mailCall[x])
        /\ mailCall'[x] = [mailCall[x] EXCEPT !.overlapped = TRUE]
    BY <1>9
  <2>2. /\ mailCall'[x].at = mailCall[x].at /\ mailCall'[x].form = mailCall[x].form
        /\ mailCall'[x].overlapped
    BY <2>1 DEF MailRequest
  <2>3. mailCall'[x].at = "store" => (GraphFits(mailCall[x].form))'
    BY <1>12, <2>1, <2>2 DEF RequestIsJudged, GraphFits
  <2> QED
    BY <2>1, <2>2, <2>3 DEF RequestIsJudged, AboutSmtp
<1> QED
  BY <1>11, <1>13, <1>14 DEF MailInv

LEMMA MailInvStep == MailInv /\ [MailNext]_mailVars => MailInv'
<1> SUFFICES ASSUME MailInv, [MailNext]_mailVars PROVE MailInv'
  OBVIOUS
<1>1. CASE UNCHANGED mailVars
  BY <1>1 DEF MailInv, MailTypeOK, StoredMailWorks, ValidSmtp, GraphMailConfig,
              RequestsAreJudged, RequestIsJudged, AboutSmtp, PairFits, TlsFits, NoticeFits,
              GraphFits, Submitted, KeyMatchesCertificate, Merged, ValidCombination,
              CanDeliver, GetEmailDeliveryStatus, HasSmtpAuthentication
<1>2. CASE MailNext
  BY <1>2, AsksMail, JudgesPair, JudgesTls, JudgesDelivery, JudgesGraph, RefusesMail,
     StoresMail DEF MailNext
<1> QED
  BY <1>1, <1>2

LEMMA MailInvMeans == MailInv => MailTypeOK /\ StoredMailWorks
BY DEF MailInv

(* Switching notifications on.                                             *)
LEMMA MailNotifies == MailInv /\ [MailNext]_mailVars => NotificationsNeedMail
<1> SUFFICES ASSUME MailInv, [MailNext]_mailVars, mail["notify"] = "false",
                    mail'["notify"] = "true", ~mailCrossed'
             PROVE  GetEmailDeliveryStatus(mail, mail'["from"])
  BY DEF NotificationsNeedMail
<1>1. PICK c \in MailCalls : StoreMail(c)
  <2>1. mail' # mail
    OBVIOUS
  <2>2. \A c \in MailCalls :
          ~(AskMail(c) \/ JudgePair(c) \/ JudgeTls(c) \/ JudgeDelivery(c) \/ JudgeGraph(c)
             \/ RefuseMail(c))
    BY <2>1 DEF AskMail, JudgePair, JudgeTls, JudgeDelivery, JudgeGraph, RefuseMail, Moves
  <2> QED
    BY <2>1, <2>2 DEF MailNext
<1> DEFINE call == mailCall[c]
           asked == mailCall[c].form
<1>2. call \in MailRequest /\ call.at = "store"
  BY <1>1 DEF StoreMail, Stands, MailInv, MailTypeOK, NoMailCall
<1>3. RequestIsJudged(call) /\ ~call.overlapped
  <2>1. RequestIsJudged(call)
    BY <1>2 DEF MailInv, RequestsAreJudged, NoMailCall
  <2>2. mailCrossed' = (mailCrossed \/ call.overlapped)
    BY <1>1 DEF StoreMail
  <2> QED
    BY <2>1, <2>2
<1>4. asked \in MailBodies
  BY <1>2 DEF MailRequest
<1>5. FormIsAsked(asked)
  BY <1>4, FormsAreAsked
<1>6. \A k \in {"notify", "from"} : mail'[k] = IF k \in DOMAIN asked THEN asked[k] ELSE mail[k]
  <2>1. mail' = [k \in MailKey |->
                   IF k \in DOMAIN asked /\ asked[k] = "null" THEN Unset ELSE Merged(asked, k)]
    BY <1>1 DEF StoreMail
  <2> HIDE DEF asked
  <2> QED
    BY <1>5, <2>1, WritesByKey, MailKeys
<1>7. "notify" \in DOMAIN asked /\ asked["notify"] = "true"
  BY <1>6
<1>8. AboutSmtp(asked)
  BY <1>5, <1>7 DEF FormIsAsked, AboutSmtp
<1>9. CanDeliver(asked)
  BY <1>2, <1>3, <1>7, <1>8 DEF RequestIsJudged, NoticeFits
<1>10. mail'["from"] = Merged(asked, "from")
  BY <1>5, <1>6 DEF FormIsAsked, Merged, Submitted
<1> QED
  BY <1>9, <1>10 DEF CanDeliver

USE DEF deliveryVars

-----------------------------------------------------------------------------
(* Sending.  One send by itself: a recipient is in one place only, and the *)
(* answer waits for the end.                                               *)
Holds(r) == r.at \in {"token", "post"} \cup Sends
JobFits(r) ==
  /\ r.accepted \cap r.failed = {} /\ r.left \cap (r.accepted \cup r.failed) = {}
  /\ Holds(r) => r.posting \in Recipients \ (r.left \cup r.accepted \cup r.failed)
  /\ r.at = "next" => r.left \cup r.accepted \cup r.failed # {}
  /\ r.at \in Sends \cup {"token"} => r.via \in Apps
  /\ r.at \in {"post", "next"} => r.via # "none"
  /\ r.at = "post" /\ r.via \in Apps => r.token.app = r.via
  /\ r.at = "provider" => r.accepted = {} /\ r.failed = {}
  /\ r.answer # "none" => r.at = "done"
  /\ r.answer = "true" => r.failed = {} /\ r.left = {} /\ r.accepted # {}

(* A send waits for a request of its own application; who asked waits for  *)
(* the answer; and what was given out is numbered.                         *)
JobsFit == \A j \in Sends : JobFits(job[j])
WaitersAgree ==
  \A j \in Sends : job[j].at \in Sends => [app |-> job[j].via, asker |-> job[j].at] \in asks
AskersWait ==
  \A ask \in asks : job[ask.asker].at = ask.asker /\ job[ask.asker].via = ask.app
TokensAreCounted ==
  /\ cached # NoToken => cached.number <= givenOut
  /\ \A j \in Sends : job[j].token # NoToken => job[j].token.number <= givenOut
  /\ \A token \in rejected : token.number <= givenOut

DeliveryInv ==
  DeliveryTypeOK /\ JobsFit /\ WaitersAgree /\ AskersWait /\ TokensAreCounted /\ RejectedStaysOut

LEMMA DeliveryInvInit == DeliveryInit => DeliveryInv
<1> SUFFICES ASSUME DeliveryInit PROVE DeliveryInv
  OBVIOUS
<1>1. \A j \in Sends : job[j] = NewJob
  BY DEF DeliveryInit
<1>2. NewJob \in Job /\ JobFits(NewJob)
  BY DeliveryAssumption DEF NewJob, Job, JobStages, JobFits, Holds
<1>3. DeliveryTypeOK
  <2>1. job \in [Sends -> Job]
    BY <1>2 DEF DeliveryInit
  <2>2. switchedOn \in BOOLEAN
    BY DEF DeliveryInit
  <2>3. \A j \in Sends : JobFits(job[j])
    BY <1>1, <1>2
  <2>4. givenOut \in 0 .. MaxTokens /\ turns \in 0 .. MaxTurns
    BY DeliveryAssumption DEF DeliveryInit
  <2>5. /\ transport \in Apps \cup {"smtp", "none"} /\ cached \in Tokens \cup {NoToken}
        /\ asks \subseteq Asks /\ pending \in asks \cup {NoAsk} /\ rejected \subseteq Tokens
    BY DEF DeliveryInit
  <2> QED
    BY <2>1, <2>2, <2>3, <2>4, <2>5 DEF DeliveryTypeOK, JobFits
<1>4. JobsFit
  BY <1>1, <1>2 DEF JobsFit
<1>5. WaitersAgree /\ AskersWait
  BY <1>1, DeliveryAssumption DEF WaitersAgree, AskersWait, DeliveryInit, NewJob, JobStages
<1>6. TokensAreCounted /\ RejectedStaysOut
  BY <1>1 DEF DeliveryInit, TokensAreCounted, RejectedStaysOut, NewJob
<1> QED
  BY <1>3, <1>4, <1>5, <1>6 DEF DeliveryInv

(* A send that was not waiting moves, and waits for none of the others.    *)
LEMMA JobMoves ==
  ASSUME DeliveryInv, NEW j \in Sends, job[j].at \notin Sends,
         NEW r \in Job, JobFits(r), r.at \notin Sends,
         r.token \in {job[j].token, cached},
         job' = [job EXCEPT ![j] = r],
         UNCHANGED <<transport, switchedOn, cached, pending, asks, givenOut, rejected, turns>>
  PROVE  DeliveryInv'
<1>1. JobsFit'
  BY DEF DeliveryInv, DeliveryTypeOK, JobsFit, JobFits, Holds
<1>2. DeliveryTypeOK'
  BY <1>1 DEF DeliveryInv, DeliveryTypeOK, JobsFit, JobFits
<1>3. WaitersAgree'
  BY DEF DeliveryInv, DeliveryTypeOK, WaitersAgree
<1>4. AskersWait'
  BY DEF DeliveryInv, DeliveryTypeOK, AskersWait, Asks
<1>5. TokensAreCounted'
  BY DEF DeliveryInv, DeliveryTypeOK, TokensAreCounted
<1>6. RejectedStaysOut'
  BY DEF DeliveryInv, RejectedStaysOut
<1> QED
  BY <1>1, <1>2, <1>3, <1>4, <1>5, <1>6 DEF DeliveryInv

LEMMA StartsSend == ASSUME DeliveryInv, NEW j \in Sends, StartSend(j) PROVE DeliveryInv'
<1>1. PICK to \in SUBSET Recipients :
        job' = [job EXCEPT ![j] =
          IF IsEmailEventEnabled
            THEN [NewJob EXCEPT !.at = "provider", !.left = to]
            ELSE [NewJob EXCEPT !.at = "done", !.answer = "false"]]
  BY DEF StartSend, Set
<1> DEFINE r == IF IsEmailEventEnabled
                  THEN [NewJob EXCEPT !.at = "provider", !.left = to]
                  ELSE [NewJob EXCEPT !.at = "done", !.answer = "false"]
<1>2. r \in Job /\ JobFits(r) /\ r.at \notin Sends /\ r.token = NoToken
  <2>1. CASE IsEmailEventEnabled
    <3>1. r = [NewJob EXCEPT !.at = "provider", !.left = to]
      BY <2>1
    <3> HIDE DEF r
    <3> QED
      BY <3>1, DeliveryAssumption DEF NewJob, Job, JobStages, JobFits, Holds
  <2>2. CASE ~IsEmailEventEnabled
    <3>1. r = [NewJob EXCEPT !.at = "done", !.answer = "false"]
      BY <2>2
    <3> HIDE DEF r
    <3> QED
      BY <3>1, DeliveryAssumption DEF NewJob, Job, JobStages, JobFits, Holds
  <2> QED
    BY <2>1, <2>2
<1>3. job[j] = NewJob /\ job[j].at \notin Sends /\ job[j].token = NoToken
  BY DeliveryAssumption DEF StartSend, NewJob, JobStages
<1>4. UNCHANGED <<transport, switchedOn, cached, pending, asks, givenOut, rejected, turns>>
  BY DEF StartSend, Keeps
<1>5. job' = [job EXCEPT ![j] = r]
  BY <1>1
<1> HIDE DEF r
<1> QED
  BY <1>2, <1>3, <1>4, <1>5, JobMoves

LEMMA PicksProvider == ASSUME DeliveryInv, NEW j \in Sends, PickProvider(j) PROVE DeliveryInv'
<1> DEFINE r == IF transport = "none" \/ job[j].left = {}
                  THEN [job[j] EXCEPT !.at = "done", !.answer = "false"]
                  ELSE [job[j] EXCEPT !.at = "next", !.via = transport]
<1>1. job' = [job EXCEPT ![j] = r]
  BY DEF PickProvider, Set
<1>2. job[j] \in Job /\ JobFits(job[j]) /\ job[j].at = "provider" /\ job[j].at \notin Sends
  BY DeliveryAssumption DEF DeliveryInv, DeliveryTypeOK, JobsFit, PickProvider, JobStages
<1>3. transport \in Apps \cup {"smtp", "none"}
  BY DEF DeliveryInv, DeliveryTypeOK
<1>4. r \in Job /\ JobFits(r) /\ r.at \notin Sends /\ r.token = job[j].token
  <2>1. CASE transport = "none" \/ job[j].left = {}
    <3>1. r = [job[j] EXCEPT !.at = "done", !.answer = "false"]
      BY <2>1
    <3> HIDE DEF r
    <3> QED
      BY <1>2, <3>1, DeliveryAssumption DEF Job, JobStages, JobFits, Holds
  <2>2. CASE ~(transport = "none" \/ job[j].left = {})
    <3>1. r = [job[j] EXCEPT !.at = "next", !.via = transport]
      BY <2>2
    <3> HIDE DEF r
    <3> QED
      BY <1>2, <1>3, <2>2, <3>1, DeliveryAssumption DEF Job, JobStages, JobFits, Holds
  <2> QED
    BY <2>1, <2>2
<1>5. UNCHANGED <<transport, switchedOn, cached, pending, asks, givenOut, rejected, turns>>
  BY DEF PickProvider, Keeps
<1> HIDE DEF r
<1> QED
  BY <1>1, <1>2, <1>4, <1>5, JobMoves

LEMMA TakesRecipient == ASSUME DeliveryInv, NEW j \in Sends, NextRecipient(j) PROVE DeliveryInv'
<1>1. job[j] \in Job /\ JobFits(job[j]) /\ job[j].at = "next" /\ job[j].at \notin Sends
  BY DeliveryAssumption DEF DeliveryInv, DeliveryTypeOK, JobsFit, NextRecipient, JobStages
<1>2. PICK to \in job[j].left :
        job' = [job EXCEPT ![j] =
          [job[j] EXCEPT !.posting = to, !.left = job[j].left \ {to},
                         !.at = IF job[j].via = "smtp" THEN "post" ELSE "token"]]
  BY DEF NextRecipient, Set
<1>3. PICK at \in {"post", "token"} : at = IF job[j].via = "smtp" THEN "post" ELSE "token"
  OBVIOUS
<1> DEFINE r == [job[j] EXCEPT !.posting = to, !.left = job[j].left \ {to}, !.at = at]
<1>4. job' = [job EXCEPT ![j] = r]
  BY <1>2, <1>3
<1>5. at = "token" => job[j].via \in Apps
  BY <1>1, <1>3 DEF Job, JobFits
<1>6. at = "post" => job[j].via = "smtp" /\ job[j].via \notin Apps
  BY <1>3, DeliveryAssumption
<1>7. r \in Job
  BY <1>1 DEF Job, JobStages
<1>8. r.at = at /\ r.posting = to /\ r.left = job[j].left \ {to} /\ r.via = job[j].via
      /\ r.accepted = job[j].accepted /\ r.failed = job[j].failed /\ r.answer = job[j].answer
      /\ r.token = job[j].token
  BY <1>1 DEF Job
<1>9. r.at \notin Sends
  BY <1>8, DeliveryAssumption DEF JobStages
<1> HIDE DEF r
<1>10. JobFits(r)
  BY <1>1, <1>5, <1>6, <1>7, <1>8, <1>9, DeliveryAssumption DEF JobFits, Holds, Job, JobStages
<1>11. UNCHANGED <<transport, switchedOn, cached, pending, asks, givenOut, rejected, turns>>
  BY DEF NextRecipient, Keeps
<1> QED
  BY <1>1, <1>4, <1>7, <1>8, <1>9, <1>10, <1>11, JobMoves

LEMMA UsesCached == ASSUME DeliveryInv, NEW j \in Sends, UseCached(j) PROVE DeliveryInv'
<1>1. job[j] \in Job /\ JobFits(job[j]) /\ job[j].at = "token" /\ job[j].at \notin Sends
  BY DeliveryAssumption DEF DeliveryInv, DeliveryTypeOK, JobsFit, UseCached, JobStages
<1>2. cached \in Tokens /\ cached.app = job[j].via
  BY DEF UseCached, HasToken, DeliveryInv, DeliveryTypeOK
<1> DEFINE r == [job[j] EXCEPT !.at = "post", !.token = cached]
<1>3. job' = [job EXCEPT ![j] = r]
  BY DEF UseCached, Set
<1>4. r \in Job /\ r.at \notin Sends /\ r.token = cached
  BY <1>1, <1>2, DeliveryAssumption DEF Job, JobStages
<1>5. JobFits(r)
  BY <1>1, <1>2, DeliveryAssumption DEF Job, JobStages, JobFits, Holds
<1>6. UNCHANGED <<transport, switchedOn, cached, pending, asks, givenOut, rejected, turns>>
  BY DEF UseCached, Keeps
<1> HIDE DEF r
<1> QED
  BY <1>1, <1>3, <1>4, <1>5, <1>6, JobMoves

(* Waiting for a request that is on its way.                               *)
LEMMA JobWaits ==
  ASSUME DeliveryInv, NEW j \in Sends, job[j].at = "token",
         NEW ask \in Asks, ask.app = job[j].via, ask \in asks' , asks \subseteq asks',
         asks' \subseteq asks \cup {[app |-> job[j].via, asker |-> j]},
         ask.asker = j \/ asks' = asks, pending' \in asks' \cup {NoAsk},
         job' = [job EXCEPT ![j] = [job[j] EXCEPT !.at = ask.asker]],
         UNCHANGED <<transport, switchedOn, cached, givenOut, rejected, turns>>
  PROVE  DeliveryInv'
<1>1. job[j] \in Job /\ JobFits(job[j]) /\ job[j].at \notin Sends
  BY DeliveryAssumption DEF DeliveryInv, DeliveryTypeOK, JobsFit, JobStages
<1> DEFINE r == [job[j] EXCEPT !.at = ask.asker]
<1>2. ask.asker \in Sends /\ ask = [app |-> job[j].via, asker |-> ask.asker]
  BY DEF Asks
<1>3. r \in Job
  BY <1>1, <1>2 DEF Job
<1>4. /\ r.at = ask.asker /\ r.posting = job[j].posting /\ r.left = job[j].left
      /\ r.via = job[j].via /\ r.accepted = job[j].accepted /\ r.failed = job[j].failed
      /\ r.answer = job[j].answer /\ r.token = job[j].token
  BY <1>1 DEF Job
<1>5. JobFits(r)
  BY <1>1, <1>2, <1>4, DeliveryAssumption DEF JobFits, Holds, JobStages
<1>6. job' = [job EXCEPT ![j] = r]
  OBVIOUS
<1> HIDE DEF r
<1>7. JobsFit'
  <2>1. \A d \in Sends : job'[d] = IF d = j THEN r ELSE job[d]
    BY <1>6 DEF DeliveryInv, DeliveryTypeOK
  <2>2. \A d \in Sends : JobFits(job'[d])
    BY <1>5, <2>1 DEF DeliveryInv, JobsFit
  <2> QED
    BY <2>2 DEF JobsFit, JobFits, Holds
<1>8. asks' \subseteq Asks
  BY <1>1 DEF DeliveryInv, DeliveryTypeOK, Asks, JobFits
<1>9. DeliveryTypeOK'
  BY <1>3, <1>6, <1>7, <1>8 DEF DeliveryInv, DeliveryTypeOK, JobsFit, JobFits
<1>10. WaitersAgree'
  BY <1>2, <1>4, <1>6 DEF DeliveryInv, DeliveryTypeOK, WaitersAgree
<1>11. AskersWait'
  <2> SUFFICES ASSUME NEW a \in asks'
               PROVE  job'[a.asker].at = a.asker /\ job'[a.asker].via = a.app
    BY DEF AskersWait
  <2>1. a.asker \in Sends
    BY <1>8 DEF Asks
  <2>2. CASE a.asker # j
    BY <1>6, <2>1, <2>2 DEF DeliveryInv, DeliveryTypeOK, AskersWait
  <2>3. CASE a.asker = j
    <3>1. a \notin asks
      BY <1>1, <2>3 DEF DeliveryInv, AskersWait
    <3>2. a.app = job[j].via /\ ask.asker = j
      BY <3>1
    <3> QED
      BY <1>4, <1>6, <2>3, <3>2 DEF DeliveryInv, DeliveryTypeOK
  <2> QED
    BY <2>2, <2>3
<1>12. TokensAreCounted'
  BY <1>4, <1>6 DEF DeliveryInv, DeliveryTypeOK, TokensAreCounted
<1>13. RejectedStaysOut'
  BY DEF DeliveryInv, RejectedStaysOut
<1> QED
  BY <1>7, <1>9, <1>10, <1>11, <1>12, <1>13 DEF DeliveryInv

LEMMA JoinsPending == ASSUME DeliveryInv, NEW j \in Sends, JoinPending(j) PROVE DeliveryInv'
<1>1. job[j].at = "token" /\ job[j].via \in Apps /\ pending.app = job[j].via
  BY DEF JoinPending, DeliveryInv, JobsFit, JobFits
<1>2. pending \in asks /\ pending \in Asks
  BY <1>1, DeliveryAssumption DEF DeliveryInv, DeliveryTypeOK, NoAsk
<1>3. job' = [job EXCEPT ![j] = [job[j] EXCEPT !.at = pending.asker]]
  BY DEF JoinPending, Set
<1>4. UNCHANGED <<transport, switchedOn, cached, pending, asks, givenOut, rejected, turns>>
  BY DEF JoinPending, Keeps
<1> QED
  BY <1>1, <1>2, <1>3, <1>4, JobWaits

LEMMA AsksToken == ASSUME DeliveryInv, NEW j \in Sends, AskToken(j) PROVE DeliveryInv'
<1> DEFINE ask == [app |-> job[j].via, asker |-> j]
<1>1. job[j].at = "token" /\ job[j].via \in Apps
  BY DEF AskToken, DeliveryInv, JobsFit, JobFits
<1>2. ask \in Asks /\ ask.app = job[j].via /\ ask.asker = j
  BY <1>1 DEF Asks
<1>3. /\ asks' = asks \cup {ask} /\ pending' = ask
      /\ job' = [job EXCEPT ![j] = [job[j] EXCEPT !.at = j]]
  BY DEF AskToken, Set
<1>4. UNCHANGED <<transport, switchedOn, cached, givenOut, rejected, turns>>
  BY DEF AskToken, Keeps
<1>5. asks' = asks \cup {[app |-> job[j].via, asker |-> j]}
  BY <1>3
<1> HIDE DEF ask
<1>6. job' = [job EXCEPT ![j] = [job[j] EXCEPT !.at = ask.asker]]
  BY <1>2, <1>3
<1> QED
  BY <1>1, <1>2, <1>3, <1>4, <1>5, <1>6, JobWaits

(* A request that is answered: all that wait for it go on together.        *)
LEMMA TokenLands == ASSUME DeliveryInv, NEW ask \in asks, TokenArrives(ask) PROVE DeliveryInv'
<1> DEFINE new == [app |-> ask.app, number |-> givenOut + 1]
<1>1. ask \in Asks /\ givenOut \in 0 .. MaxTokens /\ givenOut < MaxTokens
  BY DEF DeliveryInv, DeliveryTypeOK, TokenArrives
<1>2. new \in Tokens /\ new # NoToken /\ new.app = ask.app /\ new.number = givenOut + 1
  BY <1>1, DeliveryAssumption DEF Tokens, Asks, NoToken
<1>3. /\ cached' = new /\ givenOut' = givenOut + 1
      /\ job' = [j \in Sends |-> IF job[j].at # ask.asker THEN job[j]
                                 ELSE [job[j] EXCEPT !.at = "post", !.token = new]]
      /\ asks' = asks \ {ask}
      /\ pending' = IF pending = ask THEN NoAsk ELSE pending
  BY DEF TokenArrives
<1>4. UNCHANGED <<transport, switchedOn, turns, rejected>>
  BY DEF TokenArrives, Keeps
<1> HIDE DEF new
<1>15. givenOut \in Nat /\ givenOut' = givenOut + 1 /\ MaxTokens \in Nat
  <2>1. MaxTokens \in Nat
    BY DeliveryAssumption
  <2>2. givenOut' = givenOut + 1
    BY <1>3
  <2> QED
    BY <1>1, <2>1, <2>2
<1>16. \A n \in Nat : n <= givenOut => n <= givenOut'
  BY <1>15
<1>17. cached'.number = givenOut' /\ new.number = givenOut' /\ givenOut' <= givenOut'
  <2>1. cached' = new /\ new.number = givenOut + 1
    BY <1>2, <1>3
  <2>2. new.number = givenOut'
    BY <2>1, <1>15
  <2> QED
    BY <2>1, <2>2, <1>15
<1>5. \A j \in Sends : job[j].at # ask.asker => job'[j] = job[j]
  BY <1>3
<1>6. ASSUME NEW j \in Sends, job[j].at = ask.asker
      PROVE  /\ job'[j] \in Job /\ job'[j].at = "post" /\ job'[j].token = new
             /\ JobFits(job'[j])
  <2>1. job[j] \in Job /\ JobFits(job[j]) /\ job[j].at \in Sends
    BY <1>1, <1>6 DEF DeliveryInv, DeliveryTypeOK, JobsFit, Asks
  <2>2. job'[j] = [job[j] EXCEPT !.at = "post", !.token = new]
    BY <1>3, <1>6
  <2>3. job[j].via = ask.app
    <3>1. [app |-> job[j].via, asker |-> job[j].at] \in asks
      BY <2>1 DEF DeliveryInv, WaitersAgree
    <3>2. job[ask.asker].via = job[j].via /\ job[ask.asker].via = ask.app
      BY <1>6, <3>1 DEF DeliveryInv, AskersWait
    <3> QED
      BY <3>2
  <2>4. job'[j] \in Job /\ job'[j].at = "post" /\ job'[j].token = new
    BY <1>2, <2>1, <2>2 DEF Job, JobStages
  <2>5. /\ job'[j].posting = job[j].posting /\ job'[j].left = job[j].left
        /\ job'[j].via = job[j].via /\ job'[j].accepted = job[j].accepted
        /\ job'[j].failed = job[j].failed /\ job'[j].answer = job[j].answer
    BY <2>1, <2>2 DEF Job
  <2>6. JobFits(job'[j])
    BY <1>2, <2>1, <2>3, <2>4, <2>5, DeliveryAssumption DEF JobFits, Holds, JobStages
  <2> QED
    BY <2>4, <2>6
<1>7. \A j \in Sends : job'[j] \in Job /\ JobFits(job'[j])
  BY <1>5, <1>6 DEF DeliveryInv, DeliveryTypeOK, JobsFit
<1>8. JobsFit'
  BY <1>7 DEF JobsFit, JobFits, Holds
<1>9. job' \in [Sends -> Job]
  BY <1>3, <1>7
<1>10. DeliveryTypeOK'
  <2>1. pending' \in asks' \cup {NoAsk}
    BY <1>3 DEF DeliveryInv, DeliveryTypeOK
  <2>2. givenOut' \in 0 .. MaxTokens
    BY <1>1, <1>15
  <2>3. \A j \in Sends : /\ job'[j].accepted \cap job'[j].failed = {}
                         /\ job'[j].left \cap (job'[j].accepted \cup job'[j].failed) = {}
    BY <1>7 DEF JobFits
  <2> QED
    BY <1>2, <1>3, <1>4, <1>9, <2>1, <2>2, <2>3 DEF DeliveryInv, DeliveryTypeOK
<1>11. WaitersAgree'
  <2> SUFFICES ASSUME NEW j \in Sends, job'[j].at \in Sends
               PROVE  [app |-> job'[j].via, asker |-> job'[j].at] \in asks'
    BY DEF WaitersAgree
  <2>1. job[j].at # ask.asker /\ job'[j] = job[j]
    BY <1>5, <1>6, DeliveryAssumption DEF JobStages
  <2>2. [app |-> job[j].via, asker |-> job[j].at] \in asks
    BY <2>1 DEF DeliveryInv, WaitersAgree
  <2>3. [app |-> job[j].via, asker |-> job[j].at].asker # ask.asker
    BY <2>1
  <2> QED
    BY <1>3, <2>1, <2>2, <2>3
<1>12. AskersWait'
  <2> SUFFICES ASSUME NEW a \in asks, a # ask
               PROVE  job'[a.asker].at = a.asker /\ job'[a.asker].via = a.app
    BY <1>3 DEF AskersWait
  <2>1. a \in Asks /\ a.asker # ask.asker
    <3>1. a \in Asks
      BY DEF DeliveryInv, DeliveryTypeOK
    <3>2. a.asker = ask.asker => a.app = ask.app
      BY DEF DeliveryInv, AskersWait
    <3> QED
      BY <1>1, <3>1, <3>2 DEF Asks
  <2>2. job[a.asker].at = a.asker /\ job[a.asker].via = a.app
    BY DEF DeliveryInv, AskersWait
  <2> QED
    BY <1>5, <2>1, <2>2 DEF Asks
<1>13. TokensAreCounted'
  <2>1. cached'.number <= givenOut'
    BY <1>17
  <2>2. ASSUME NEW j \in Sends, job'[j].token # NoToken PROVE job'[j].token.number <= givenOut'
    <3>1. CASE job[j].at = ask.asker
      BY <1>6, <1>17, <3>1
    <3>2. CASE job[j].at # ask.asker
      <4>1. job[j].token \in Tokens /\ job[j].token.number <= givenOut
        BY <1>5, <2>2, <3>2 DEF DeliveryInv, DeliveryTypeOK, Job, TokensAreCounted
      <4>2. job[j].token.number \in Nat
        BY <4>1 DEF Tokens
      <4> QED
        BY <1>5, <1>16, <3>2, <4>1, <4>2
    <3> QED
      BY <3>1, <3>2
  <2>3. ASSUME NEW token \in rejected' PROVE token.number <= givenOut'
    <3>1. token \in Tokens /\ token.number <= givenOut
      BY <1>4 DEF DeliveryInv, DeliveryTypeOK, TokensAreCounted
    <3>2. token.number \in Nat
      BY <3>1 DEF Tokens
    <3> QED
      BY <1>16, <3>1, <3>2
  <2> QED
    BY <2>1, <2>2, <2>3 DEF TokensAreCounted
<1>14. RejectedStaysOut'
  <2>1. \A token \in rejected : token \in Tokens /\ token.number <= givenOut
    BY DEF DeliveryInv, DeliveryTypeOK, TokensAreCounted
  <2>2. new \notin rejected
    BY <1>1, <1>2, <2>1
  <2> QED
    BY <1>3, <1>4, <2>2 DEF RejectedStaysOut
<1> QED
  BY <1>8, <1>10, <1>11, <1>12, <1>13, <1>14 DEF DeliveryInv

LEMMA TokenDoesNotLand == ASSUME DeliveryInv, NEW ask \in asks, TokenFails(ask) PROVE DeliveryInv'
<1>1. ask \in Asks
  BY DEF DeliveryInv, DeliveryTypeOK
<1>2. /\ job' = [j \in Sends |-> IF job[j].at # ask.asker THEN job[j] ELSE Failed(job[j])]
      /\ asks' = asks \ {ask}
      /\ pending' = IF pending = ask THEN NoAsk ELSE pending
  BY DEF TokenFails
<1>3. UNCHANGED <<transport, switchedOn, turns, rejected, cached, givenOut>>
  BY DEF TokenFails, Keeps
<1>4. \A j \in Sends : job[j].at # ask.asker => job'[j] = job[j]
  BY <1>2
<1>5. ASSUME NEW j \in Sends, job[j].at = ask.asker
      PROVE  /\ job'[j] \in Job /\ job'[j].at = "next" /\ job'[j].token = job[j].token
             /\ JobFits(job'[j])
  <2>1. job[j] \in Job /\ JobFits(job[j]) /\ job[j].at \in Sends
    BY <1>1, <1>5 DEF DeliveryInv, DeliveryTypeOK, JobsFit, Asks
  <2>2. job'[j] = [job[j] EXCEPT !.at = "next", !.failed = job[j].failed \cup {job[j].posting}]
    BY <1>2, <1>5 DEF Failed
  <2>3. job[j].posting \in Recipients \ (job[j].left \cup job[j].accepted \cup job[j].failed)
    BY <2>1 DEF JobFits, Holds
  <2>4. job'[j] \in Job /\ job'[j].at = "next" /\ job'[j].token = job[j].token
    <3> DEFINE failed == job[j].failed \cup {job[j].posting}
    <3>1. failed \in SUBSET Recipients
      BY <2>1, <2>3 DEF Job
    <3>2. job'[j] = [job[j] EXCEPT !.at = "next", !.failed = failed]
      BY <2>2
    <3> HIDE DEF failed
    <3> QED
      BY <2>1, <3>1, <3>2 DEF Job, JobStages
  <2>5. /\ job'[j].posting = job[j].posting /\ job'[j].left = job[j].left
        /\ job'[j].via = job[j].via /\ job'[j].accepted = job[j].accepted
        /\ job'[j].failed = job[j].failed \cup {job[j].posting}
        /\ job'[j].answer = job[j].answer
    BY <2>1, <2>2 DEF Job
  <2>6. job[j].via \in Apps /\ job[j].answer = "none"
    BY <2>1, DeliveryAssumption DEF JobFits, JobStages
  <2>7. JobFits(job'[j])
    BY <2>1, <2>3, <2>4, <2>5, <2>6, DeliveryAssumption DEF JobFits, Holds, JobStages
  <2> QED
    BY <2>4, <2>7
<1>6. \A j \in Sends : job'[j] \in Job /\ JobFits(job'[j])
  BY <1>4, <1>5 DEF DeliveryInv, DeliveryTypeOK, JobsFit
<1>7. JobsFit'
  BY <1>6 DEF JobsFit, JobFits, Holds
<1>8. job' \in [Sends -> Job]
  BY <1>2, <1>6
<1>9. DeliveryTypeOK'
  <2>1. pending' \in asks' \cup {NoAsk}
    BY <1>2 DEF DeliveryInv, DeliveryTypeOK
  <2>2. \A j \in Sends : /\ job'[j].accepted \cap job'[j].failed = {}
                         /\ job'[j].left \cap (job'[j].accepted \cup job'[j].failed) = {}
    BY <1>6 DEF JobFits
  <2> QED
    BY <1>2, <1>3, <1>8, <2>1, <2>2 DEF DeliveryInv, DeliveryTypeOK
<1>10. WaitersAgree'
  <2> SUFFICES ASSUME NEW j \in Sends, job'[j].at \in Sends
               PROVE  [app |-> job'[j].via, asker |-> job'[j].at] \in asks'
    BY DEF WaitersAgree
  <2>1. job[j].at # ask.asker /\ job'[j] = job[j]
    BY <1>4, <1>5, DeliveryAssumption DEF JobStages
  <2>2. [app |-> job[j].via, asker |-> job[j].at] \in asks
    BY <2>1 DEF DeliveryInv, WaitersAgree
  <2>3. [app |-> job[j].via, asker |-> job[j].at].asker # ask.asker
    BY <2>1
  <2> QED
    BY <1>2, <2>1, <2>2, <2>3
<1>11. AskersWait'
  <2> SUFFICES ASSUME NEW a \in asks, a # ask
               PROVE  job'[a.asker].at = a.asker /\ job'[a.asker].via = a.app
    BY <1>2 DEF AskersWait
  <2>1. a \in Asks /\ a.asker # ask.asker
    <3>1. a \in Asks
      BY DEF DeliveryInv, DeliveryTypeOK
    <3>2. a.asker = ask.asker => a.app = ask.app
      BY DEF DeliveryInv, AskersWait
    <3> QED
      BY <1>1, <3>1, <3>2 DEF Asks
  <2>2. job[a.asker].at = a.asker /\ job[a.asker].via = a.app
    BY DEF DeliveryInv, AskersWait
  <2> QED
    BY <1>4, <2>1, <2>2 DEF Asks
<1>12. TokensAreCounted'
  BY <1>3, <1>4, <1>5 DEF DeliveryInv, DeliveryTypeOK, TokensAreCounted
<1>13. RejectedStaysOut'
  BY <1>3 DEF DeliveryInv, RejectedStaysOut
<1> QED
  BY <1>7, <1>9, <1>10, <1>11, <1>12, <1>13 DEF DeliveryInv

LEMMA FailingFits ==
  ASSUME NEW r \in Job, JobFits(r), r.at = "post"
  PROVE  /\ Failed(r) \in Job /\ Failed(r).at = "next" /\ Failed(r).token = r.token
         /\ JobFits(Failed(r))
<1> DEFINE failed == r.failed \cup {r.posting}
           new == Failed(r)
<1>1. r.posting \in Recipients \ (r.left \cup r.accepted \cup r.failed)
  BY DEF JobFits, Holds
<1>2. failed \in SUBSET Recipients
  BY <1>1 DEF Job
<1>3. new = [r EXCEPT !.at = "next", !.failed = failed]
  BY DEF Failed
<1> HIDE DEF failed, new
<1>4. new \in Job /\ new.at = "next" /\ new.token = r.token
  BY <1>2, <1>3 DEF Job, JobStages
<1>5. /\ new.posting = r.posting /\ new.left = r.left /\ new.via = r.via
      /\ new.accepted = r.accepted /\ new.failed = r.failed \cup {r.posting}
      /\ new.answer = r.answer
  BY <1>3 DEF Job, failed
<1>6. r.via # "none" /\ r.answer = "none"
  BY DEF JobFits
<1>7. JobFits(new)
  BY <1>1, <1>4, <1>5, <1>6, DeliveryAssumption DEF JobFits, Holds, JobStages
<1> QED
  BY <1>4, <1>7 DEF new

LEMMA Posts == ASSUME DeliveryInv, NEW j \in Sends, Post(j) PROVE DeliveryInv'
<1>1. job[j] \in Job /\ JobFits(job[j]) /\ job[j].at = "post" /\ job[j].at \notin Sends
  BY DeliveryAssumption DEF DeliveryInv, DeliveryTypeOK, JobsFit, Post, JobStages
<1>2. UNCHANGED <<transport, switchedOn, cached, pending, asks, givenOut, rejected, turns>>
  BY DEF Post, Keeps
<1> DEFINE accepted == job[j].accepted \cup {job[j].posting}
           r == [job[j] EXCEPT !.at = "next", !.accepted = accepted]
<1>3. CASE job' = [job EXCEPT ![j] = r]
  <2>1. job[j].posting \in Recipients \ (job[j].left \cup job[j].accepted \cup job[j].failed)
    BY <1>1 DEF JobFits, Holds
  <2>2. accepted \in SUBSET Recipients
    BY <1>1, <2>1 DEF Job
  <2> HIDE DEF accepted
  <2>3. r \in Job /\ r.at = "next" /\ r.token = job[j].token
    BY <1>1, <2>2 DEF Job, JobStages
  <2>4. /\ r.posting = job[j].posting /\ r.left = job[j].left /\ r.via = job[j].via
        /\ r.accepted = job[j].accepted \cup {job[j].posting} /\ r.failed = job[j].failed
        /\ r.answer = job[j].answer
    BY <1>1 DEF Job, accepted
  <2>5. job[j].via # "none" /\ job[j].answer = "none"
    BY <1>1 DEF JobFits
  <2> HIDE DEF r
  <2>6. JobFits(r) /\ r.at \notin Sends
    BY <1>1, <2>1, <2>3, <2>4, <2>5, DeliveryAssumption DEF JobFits, Holds, JobStages
  <2> QED
    BY <1>1, <1>2, <1>3, <2>3, <2>6, JobMoves
<1>4. CASE job' = [job EXCEPT ![j] = Failed(job[j])]
  <2>1. /\ Failed(job[j]) \in Job /\ Failed(job[j]).at = "next"
        /\ Failed(job[j]).token = job[j].token /\ JobFits(Failed(job[j]))
    BY <1>1, FailingFits
  <2>2. Failed(job[j]).at \notin Sends
    BY <2>1, DeliveryAssumption DEF JobStages
  <2> QED
    BY <1>1, <1>2, <1>4, <2>1, <2>2, JobMoves
<1>5. job' = [job EXCEPT ![j] = r] \/ job' = [job EXCEPT ![j] = Failed(job[j])]
  BY DEF Post, Set
<1> QED
  BY <1>3, <1>4, <1>5

LEMMA AnswersSend == ASSUME DeliveryInv, NEW j \in Sends, AnswerSend(j) PROVE DeliveryInv'
<1>1. job[j] \in Job /\ JobFits(job[j]) /\ job[j].at = "next" /\ job[j].at \notin Sends
  BY DeliveryAssumption DEF DeliveryInv, DeliveryTypeOK, JobsFit, AnswerSend, JobStages
<1>2. PICK answer \in {"true", "false"} :
        answer = IF AllAccepted(job[j]) THEN "true" ELSE "false"
  OBVIOUS
<1> DEFINE r == [job[j] EXCEPT !.at = "done", !.answer = answer]
<1>3. job' = [job EXCEPT ![j] = r] /\ job[j].left = {}
  BY <1>2 DEF AnswerSend, Set
<1>4. r \in Job /\ r.token = job[j].token /\ r.at = "done" /\ r.answer = answer
  BY <1>1 DEF Job, JobStages
<1>5. r.left = job[j].left /\ r.accepted = job[j].accepted /\ r.failed = job[j].failed
  BY <1>1 DEF Job
<1>6. r.at \notin Sends
  BY <1>4, DeliveryAssumption DEF JobStages
<1>7. answer = "true" => job[j].failed = {} /\ job[j].accepted # {}
  BY <1>1, <1>2, <1>3 DEF AllAccepted, JobFits
<1> HIDE DEF r
<1>8. JobFits(r)
  BY <1>1, <1>3, <1>4, <1>5, <1>6, <1>7 DEF JobFits, Holds
<1>9. UNCHANGED <<transport, switchedOn, cached, pending, asks, givenOut, rejected, turns>>
  BY DEF AnswerSend, Keeps
<1> QED
  BY <1>1, <1>3, <1>4, <1>6, <1>8, <1>9, JobMoves

(* Forgetting the token and the request for one disturbs nobody.           *)
LEMMA TokenForgotten ==
  ASSUME DeliveryInv, cached' = NoToken, pending' \in {pending, NoAsk},
         UNCHANGED <<transport, switchedOn, job, asks, givenOut, rejected, turns>>
  PROVE  DeliveryInv'
<1>1. DeliveryTypeOK'
  BY DEF DeliveryInv, DeliveryTypeOK
<1>2. JobsFit' /\ WaitersAgree' /\ AskersWait'
  BY DEF DeliveryInv, JobsFit, JobFits, Holds, WaitersAgree, AskersWait
<1>3. TokensAreCounted'
  BY DEF DeliveryInv, TokensAreCounted
<1>4. RejectedStaysOut'
  <2>1. NoToken \notin Tokens
    BY DeliveryAssumption DEF NoToken, Tokens
  <2> QED
    BY <2>1 DEF DeliveryInv, DeliveryTypeOK, RejectedStaysOut
<1> QED
  BY <1>1, <1>2, <1>3, <1>4 DEF DeliveryInv

LEMMA IsUnauthorized == ASSUME DeliveryInv, NEW j \in Sends, PostIsUnauthorized(j) PROVE DeliveryInv'
<1>1. job[j] \in Job /\ JobFits(job[j]) /\ job[j].at = "post" /\ job[j].at \notin Sends
  BY DeliveryAssumption
  DEF DeliveryInv, DeliveryTypeOK, JobsFit, PostIsUnauthorized, JobStages
<1>2. job[j].token \in Tokens /\ job[j].token.number <= givenOut
  <2>1. job[j].token.app = job[j].via /\ job[j].via \in Apps
    BY <1>1 DEF PostIsUnauthorized, JobFits
  <2>2. job[j].token # NoToken
    BY <2>1, DeliveryAssumption DEF NoToken
  <2> QED
    BY <1>1, <2>2 DEF Job, DeliveryInv, TokensAreCounted
<1> DEFINE r == Failed(job[j])
<1>3. r \in Job /\ r.at = "next" /\ r.token = job[j].token /\ JobFits(r)
  BY <1>1, FailingFits
<1>4. r.at \notin Sends
  BY <1>3, DeliveryAssumption DEF JobStages
<1>5. /\ rejected' = rejected \cup {job[j].token} /\ cached' = NoToken /\ pending' = NoAsk
      /\ job' = [job EXCEPT ![j] = r]
      /\ UNCHANGED <<transport, switchedOn, turns, asks, givenOut>>
  BY DEF PostIsUnauthorized, ResetTokenCache, Set, Keeps
<1> HIDE DEF r
<1>6. JobsFit'
  BY <1>3, <1>5 DEF DeliveryInv, DeliveryTypeOK, JobsFit, JobFits, Holds
<1>7. DeliveryTypeOK'
  <2>1. rejected' \subseteq Tokens
    BY <1>2, <1>5 DEF DeliveryInv, DeliveryTypeOK
  <2>2. job' \in [Sends -> Job]
    BY <1>3, <1>5 DEF DeliveryInv, DeliveryTypeOK
  <2>3. \A x \in Sends : /\ job'[x].accepted \cap job'[x].failed = {}
                         /\ job'[x].left \cap (job'[x].accepted \cup job'[x].failed) = {}
    BY <1>6 DEF JobsFit, JobFits
  <2> QED
    BY <1>5, <2>1, <2>2, <2>3 DEF DeliveryInv, DeliveryTypeOK
<1>8. WaitersAgree'
  BY <1>4, <1>5 DEF DeliveryInv, DeliveryTypeOK, WaitersAgree
<1>9. AskersWait'
  BY <1>1, <1>5 DEF DeliveryInv, DeliveryTypeOK, AskersWait, Asks
<1>10. TokensAreCounted'
  BY <1>2, <1>3, <1>5 DEF DeliveryInv, DeliveryTypeOK, TokensAreCounted
<1>11. RejectedStaysOut'
  <2>1. NoToken \notin Tokens
    BY DeliveryAssumption DEF NoToken, Tokens
  <2> QED
    BY <1>5, <1>7, <2>1 DEF DeliveryTypeOK, RejectedStaysOut
<1> QED
  BY <1>6, <1>7, <1>8, <1>9, <1>10, <1>11 DEF DeliveryInv

LEMMA TransportTurns == ASSUME DeliveryInv, TurnTransport PROVE DeliveryInv'
<1>1. UNCHANGED <<job, cached, pending, asks, givenOut, rejected>>
  BY DEF TurnTransport
<1>2. transport' \in Apps \cup {"smtp", "none"} /\ switchedOn' \in BOOLEAN
  BY DEF TurnTransport, DeliveryInv, DeliveryTypeOK
<1>3. turns' \in 0 .. MaxTurns
  <2>1. MaxTurns \in Nat
    BY DeliveryAssumption
  <2>2. turns \in 0 .. MaxTurns /\ turns < MaxTurns /\ turns' = turns + 1
    BY DEF TurnTransport, DeliveryInv, DeliveryTypeOK
  <2> QED
    BY <2>1, <2>2
<1>4. DeliveryTypeOK'
  BY <1>1, <1>2, <1>3 DEF DeliveryInv, DeliveryTypeOK
<1> QED
  BY <1>1, <1>4 DEF DeliveryInv, JobsFit, JobFits, Holds, WaitersAgree, AskersWait,
                    TokensAreCounted, RejectedStaysOut

LEMMA DeliveryInvStep == DeliveryInv /\ [DeliveryNext]_deliveryVars => DeliveryInv'
<1> SUFFICES ASSUME DeliveryInv, [DeliveryNext]_deliveryVars PROVE DeliveryInv'
  OBVIOUS
<1>1. CASE UNCHANGED deliveryVars
  BY <1>1 DEF DeliveryInv, DeliveryTypeOK, JobsFit, JobFits, Holds, WaitersAgree, AskersWait,
              TokensAreCounted, RejectedStaysOut
<1>2. CASE TurnTransport
  BY <1>2, TransportTurns
<1>3. CASE TokenExpires
  BY <1>3, TokenForgotten DEF TokenExpires, Keeps
<1>4. ASSUME NEW j \in Sends,
             StartSend(j) \/ PickProvider(j) \/ NextRecipient(j) \/ UseCached(j)
               \/ JoinPending(j) \/ AskToken(j) \/ Post(j) \/ PostIsUnauthorized(j)
               \/ AnswerSend(j)
      PROVE  DeliveryInv'
  BY <1>4, StartsSend, PicksProvider, TakesRecipient, UsesCached, JoinsPending, AsksToken,
     Posts, IsUnauthorized, AnswersSend
<1>5. ASSUME NEW ask \in asks, TokenArrives(ask) \/ TokenFails(ask) PROVE DeliveryInv'
  BY <1>5, TokenLands, TokenDoesNotLand
<1> QED
  BY <1>1, <1>2, <1>3, <1>4, <1>5 DEF DeliveryNext

LEMMA DeliveryInvMeans ==
  DeliveryInv => DeliveryTypeOK /\ SendsAnswerTruthfully /\ RejectedStaysOut
BY DEF DeliveryInv, JobsFit, JobFits, SendsAnswerTruthfully

USE DEF linkVars

-----------------------------------------------------------------------------
(* The links of the dashboard.  An icon that a current list holds: the stored one, one that a page took *)
(* from it and may have changed, one on its way to be stored, or one that  *)
(* was just uploaded.                                                      *)
IsKept(icon) ==
  \/ icon \in IconsOf(stored)
  \/ \E p \in LinkPages : seen[p] = linksStored /\ icon \in IconsOf(list[p])
  \/ \E p \in LinkPages :
       /\ linkSave[p].at \in {"sent", "judged"} /\ linkSave[p].from = linksStored
       /\ icon \in IconsOf(linkSave[p].rows)
  \/ \E p \in LinkPages : upload[p] # NoUpload /\ icon = upload[p].icon

(* What is kept has its file, and no save under way removes it.            *)
KeptHaveTheirFile ==
  ~bySurprise =>
    \A icon \in Icons : IsKept(icon) =>
      /\ icon \in iconFiles
      /\ \A q \in LinkPages :
           linkSave[q].at = "stored" => icon \notin ReplacedIcons(linkSave[q])

(* An icon just uploaded is in no list yet.                                *)
UploadsAreNew ==
  \A p \in LinkPages : upload[p] # NoUpload =>
    /\ upload[p].icon \notin IconsOf(stored)
    /\ \A q \in LinkPages :
         /\ upload[p].icon \notin IconsOf(list[q])
         /\ linkSave[q] # NoLinkSave =>
              /\ upload[p].icon \notin IconsOf(linkSave[q].rows)
              /\ upload[p].icon \notin IconsOf(linkSave[q].previous)
         /\ q # p /\ upload[q] # NoUpload => upload[q].icon # upload[p].icon

ListsAreOlder ==
  \A p \in LinkPages :
    /\ seen[p] <= linksStored
    /\ linkSave[p] # NoLinkSave => linkSave[p].from <= linksStored

UploadsKnowTheirRow ==
  \A p \in LinkPages :
    upload[p] # NoUpload /\ ~upload[p].moved =>
      /\ upload[p].index \in DOMAIN list[p]
      /\ list[p][upload[p].index].title = upload[p].title

LinksInv ==
  /\ LinksTypeOK /\ KeptHaveTheirFile /\ UploadsAreNew /\ ListsAreOlder
  /\ UploadsKnowTheirRow

LEMMA EmptyList == <<>> \in Lists /\ IconsOf(<<>>) = {}
<1>1. <<>> \in Seq(Row) /\ Len(<<>>) <= MaxLinks /\ DOMAIN <<>> = {}
  BY LinksAssumption
<1>2. IconsOf(<<>>) = {} BY <1>1, Zenon DEF IconsOf
<1> QED BY <1>1, <1>2 DEF Lists

LEMMA RowOfList ==
  ASSUME NEW s \in Lists, NEW n \in DOMAIN s
  PROVE  s[n] \in Row /\ s[n].icon \in Icons \cup {NoIcon} /\ s[n].title \in Titles
<1>1. s \in Seq(Row) /\ n \in 1..Len(s) BY DEF Lists
<1>2. s[n] \in Row BY <1>1
<1> QED BY <1>2 DEF Row

LEMMA IconInList ==
  ASSUME NEW s, NEW icon
  PROVE  icon \in IconsOf(s) <=>
           (icon # NoIcon /\ \E n \in DOMAIN s : s[n].icon = icon)
BY Zenon DEF IconsOf

LEMMA IconsOfLists ==
  ASSUME NEW s \in Lists PROVE IconsOf(s) \subseteq Icons
<1> SUFFICES ASSUME NEW icon \in IconsOf(s) PROVE icon \in Icons OBVIOUS
<1>1. PICK n \in DOMAIN s : s[n].icon = icon BY IconInList, Zenon
<1>2. icon # NoIcon BY IconInList, Zenon
<1> QED BY <1>1, <1>2, RowOfList

LEMMA AppendedList ==
  ASSUME NEW s \in Lists, Len(s) < MaxLinks, NEW t \in Titles,
         \A n \in DOMAIN s : s[n].title # t
  PROVE  LET new == Append(s, [title |-> t, icon |-> NoIcon])
         IN  /\ new \in Lists /\ IconsOf(new) \subseteq IconsOf(s)
             /\ \A n \in DOMAIN s : n \in DOMAIN new /\ new[n] = s[n]
<1> DEFINE row == [title |-> t, icon |-> NoIcon]
           new == Append(s, row)
<1>1. row \in Row /\ row.icon = NoIcon /\ row.title = t BY DEF Row
<1> HIDE DEF row
<1>2. s \in Seq(Row) /\ Len(s) \in Nat /\ DOMAIN s = 1..Len(s) BY DEF Lists
<1>3. /\ new \in Seq(Row) /\ Len(new) = Len(s) + 1 /\ DOMAIN new = 1..(Len(s) + 1)
      /\ \A n \in 1..Len(s) : new[n] = s[n]
      /\ new[Len(s) + 1] = row
  BY <1>1, <1>2
<1>4. Len(new) <= MaxLinks BY <1>2, <1>3, LinksAssumption
<1>5. ASSUME NEW n \in DOMAIN new PROVE n \in DOMAIN s \/ n = Len(s) + 1
  BY <1>2, <1>3
<1>6. ASSUME NEW n \in DOMAIN s PROVE n \in DOMAIN new /\ new[n] = s[n]
  BY <1>2, <1>3
<1> HIDE DEF new
<1>7. ASSUME NEW m \in DOMAIN new, NEW n \in DOMAIN new, new[m].title = new[n].title
      PROVE  m = n
  <2>1. CASE m \in DOMAIN s /\ n \in DOMAIN s
    <3>1. s[m].title = s[n].title BY <2>1, <1>6, <1>7
    <3> QED BY <3>1, <2>1 DEF Lists
  <2>2. CASE m \in DOMAIN s /\ n = Len(s) + 1
    BY <2>2, <1>6, <1>3, <1>1, <1>7
  <2>3. CASE m = Len(s) + 1 /\ n \in DOMAIN s
    BY <2>3, <1>6, <1>3, <1>1, <1>7
  <2> QED BY <1>5, <2>1, <2>2, <2>3
<1>8. new \in Lists BY <1>3, <1>4, <1>7 DEF Lists
<1>9. ASSUME NEW icon \in IconsOf(new) PROVE icon \in IconsOf(s)
  <2>1. icon # NoIcon BY IconInList, Zenon
  <2>2. PICK n \in DOMAIN new : new[n].icon = icon BY IconInList, Zenon
  <2>3. n \in DOMAIN s BY <2>1, <2>2, <1>5, <1>3, <1>1
  <2> QED BY <2>1, <2>2, <2>3, <1>6, IconInList
<1> QED BY <1>6, <1>8, <1>9 DEF new, row

LEMMA ShortenedList ==
  ASSUME NEW s \in Lists, NEW k \in DOMAIN s
  PROVE  RemoveAt(s, k) \in Lists /\ IconsOf(RemoveAt(s, k)) \subseteq IconsOf(s)
<1> DEFINE new == RemoveAt(s, k)
           was(n) == IF n < k THEN n ELSE n + 1
<1>1. s \in Seq(Row) /\ Len(s) \in Nat /\ DOMAIN s = 1..Len(s) /\ k \in 1..Len(s)
  BY DEF Lists
<1>2. DEFINE front == SubSeq(s, 1, k - 1)
             back == SubSeq(s, k + 1, Len(s))
<1>3. /\ front \in Seq(Row) /\ Len(front) = k - 1
      /\ \A n \in 1..(k - 1) : front[n] = s[n]
  BY <1>1
<1>4. /\ back \in Seq(Row) /\ Len(back) = Len(s) - k
      /\ \A n \in 1..(Len(s) - k) : back[n] = s[n + k]
  BY <1>1
<1>5. new = front \o back BY DEF RemoveAt
<1> HIDE DEF front, back, new
<1>6. /\ new \in Seq(Row) /\ Len(new) = Len(s) - 1 /\ DOMAIN new = 1..(Len(s) - 1)
  <2>0. front \in Seq(Row) /\ back \in Seq(Row) BY <1>3, <1>4
  <2>1. new \in Seq(Row) /\ Len(new) = Len(front) + Len(back)
    BY <2>0, <1>5, ConcatProperties, Zenon
  <2>2. (k - 1) + (Len(s) - k) = Len(s) - 1 BY <1>1
  <2>3. Len(new) = Len(s) - 1 BY <2>1, <2>2, <1>3, <1>4
  <2>4. DOMAIN new = 1..Len(new) BY <2>1
  <2> QED BY <2>1, <2>3, <2>4
<1>7. ASSUME NEW n \in 1..(Len(s) - 1) PROVE new[n] = s[was(n)]
  <2>1. CASE n < k
    <3>1. n \in 1..Len(front) BY <2>1, <1>1, <1>3
    <3>2. new[n] = front[n] BY <3>1, <1>3, <1>4, <1>5
    <3> QED BY <3>2, <2>1, <1>3, <1>1
  <2>2. CASE n >= k
    <3>0. k \in Int /\ n \in Int /\ Len(s) \in Int /\ Len(front) = k - 1 /\ Len(back) = Len(s) - k
          /\ n <= Len(s) - 1 /\ n >= k
      BY <2>2, <1>1, <1>3, <1>4
    <3>1. /\ n \in (Len(front) + 1)..(Len(front) + Len(back))
          /\ n - Len(front) = n - k + 1
      BY <3>0
    <3>2. new[n] = back[n - Len(front)]
      <4>1. front \in Seq(Row) /\ back \in Seq(Row) BY <1>3, <1>4
      <4>2. n \in 1..(Len(front) + Len(back)) /\ n > Len(front) BY <3>0, <1>1
      <4> QED BY <4>1, <4>2, <1>5
    <3>3. n - k + 1 \in 1..(Len(s) - k) /\ n - k + 1 + k = n + 1
      BY <3>0
    <3>4. back[n - k + 1] = s[n - k + 1 + k] BY <3>3, <1>4
    <3>5. was(n) = n + 1 BY <3>0
    <3> QED BY <3>1, <3>2, <3>3, <3>4, <3>5
  <2> QED BY <2>1, <2>2, <1>1
<1>8. ASSUME NEW n \in DOMAIN new
      PROVE  was(n) \in DOMAIN s /\ new[n] = s[was(n)]
  BY <1>1, <1>6, <1>7
<1>9. ASSUME NEW m \in DOMAIN new, NEW n \in DOMAIN new, was(m) = was(n) PROVE m = n
  BY <1>1, <1>6, <1>9
<1>10. Len(new) <= MaxLinks BY <1>1, <1>6, LinksAssumption DEF Lists
<1> HIDE DEF was
<1>11. ASSUME NEW m \in DOMAIN new, NEW n \in DOMAIN new, new[m].title = new[n].title
       PROVE  m = n
  <2>1. s[was(m)].title = s[was(n)].title BY <1>8, <1>11
  <2>2. was(m) = was(n) BY <2>1, <1>8 DEF Lists
  <2> QED BY <2>2, <1>9
<1>12. new \in Lists BY <1>6, <1>10, <1>11 DEF Lists
<1>13. ASSUME NEW icon \in IconsOf(new) PROVE icon \in IconsOf(s)
  <2>1. icon # NoIcon BY IconInList, Zenon
  <2>2. PICK n \in DOMAIN new : new[n].icon = icon BY IconInList, Zenon
  <2>3. was(n) \in DOMAIN s /\ s[was(n)].icon = icon BY <2>2, <1>8
  <2> QED BY <2>1, <2>3, IconInList, Zenon
<1> QED BY <1>12, <1>13 DEF new

(* A list whose rows keep their titles.                                    *)
LEMMA SameTitles ==
  ASSUME NEW s \in Lists, NEW new, DOMAIN new = DOMAIN s,
         new = [n \in DOMAIN s |-> new[n]],
         \A n \in DOMAIN s : new[n] \in Row /\ new[n].title = s[n].title
  PROVE  new \in Lists
<1>1. PICK length \in Nat : s \in Seq(Row) /\ length = Len(s) /\ DOMAIN s = 1..length
  BY LenProperties, Zenon DEF Lists
<1>2. new \in [1..length -> Row] BY <1>1, Zenon
<1>3. new \in Seq(Row)
  <2>1. Seq(Row) = UNION {[1..n -> Row] : n \in Nat} BY SeqDef, Zenon
  <2>2. [1..length -> Row] \in {[1..n -> Row] : n \in Nat} BY <1>1, Zenon
  <2> QED BY <1>2, <2>1, <2>2, Zenon
<1>4. new \in Seq(Row) /\ Len(new) = Len(s)
  <2>1. Len(new) \in Nat /\ 1..Len(new) = 1..length
    BY <1>1, <1>3, LenProperties, Zenon
  <2>2. ASSUME NEW m \in Nat, NEW n \in Nat, 1..m = 1..n PROVE m = n
    BY <2>2
  <2> QED BY <1>1, <1>3, <2>1, <2>2, Zenon
<1>5. Len(new) <= MaxLinks BY <1>4 DEF Lists
<1>6. \A m, n \in DOMAIN new : new[m].title = new[n].title => m = n
  BY Zenon DEF Lists
<1> QED BY <1>4, <1>5, <1>6 DEF Lists

LEMMA ClearedList ==
  ASSUME NEW s \in Lists, NEW k \in DOMAIN s
  PROVE  LET new == [s EXCEPT ![k].icon = NoIcon]
         IN  /\ new \in Lists /\ IconsOf(new) \subseteq IconsOf(s)
             /\ DOMAIN new = DOMAIN s
             /\ \A n \in DOMAIN s : new[n].title = s[n].title
<1> DEFINE new == [s EXCEPT ![k].icon = NoIcon]
<1>1. /\ DOMAIN new = DOMAIN s /\ new = [n \in DOMAIN s |-> new[n]]
      /\ \A n \in DOMAIN s : new[n] = IF n = k THEN [s[n] EXCEPT !.icon = NoIcon] ELSE s[n]
  <2>1. s = [n \in DOMAIN s |-> s[n]] BY DEF Lists
  <2> QED BY <2>1
<1>2. ASSUME NEW n \in DOMAIN s
      PROVE  /\ new[n] \in Row /\ new[n].title = s[n].title
             /\ new[n].icon = IF n = k THEN NoIcon ELSE s[n].icon
  BY <1>1, RowOfList DEF Row
<1> HIDE DEF new
<1>3. new \in Lists BY <1>1, <1>2, SameTitles, Zenon
<1>4. ASSUME NEW icon \in IconsOf(new) PROVE icon \in IconsOf(s)
  <2>1. icon # NoIcon BY IconInList, Zenon
  <2>2. PICK n \in DOMAIN s : new[n].icon = icon BY <1>1, IconInList, Zenon
  <2>3. s[n].icon = icon BY <2>1, <2>2, <1>2
  <2> QED BY <2>1, <2>3, IconInList, Zenon
<1> QED BY <1>1, <1>2, <1>3, <1>4 DEF new

LEMMA PlacedList ==
  ASSUME NEW s \in Lists, NEW k, NEW icon \in Icons, NEW new,
         DOMAIN new = DOMAIN s, new = [n \in DOMAIN s |-> new[n]],
         \A n \in DOMAIN s :
           /\ n # k => new[n] = s[n]
           /\ n = k => /\ new[n] \in Row /\ new[n].icon = icon
                      /\ new[n].title = s[n].title
  PROVE  /\ new \in Lists /\ IconsOf(new) \subseteq IconsOf(s) \cup {icon}
         /\ DOMAIN new = DOMAIN s
         /\ \A n \in DOMAIN s :
              /\ new[n].title = s[n].title
              /\ new[n].icon = IF n = k THEN icon ELSE s[n].icon
<1>1. DOMAIN new = DOMAIN s /\ new = [n \in DOMAIN s |-> new[n]] OBVIOUS
<1>2. ASSUME NEW n \in DOMAIN s
      PROVE  /\ new[n] \in Row /\ new[n].title = s[n].title
             /\ new[n].icon = IF n = k THEN icon ELSE s[n].icon
  BY RowOfList DEF Row
<1>3. new \in Lists BY <1>1, <1>2, SameTitles, Zenon
<1>4. ASSUME NEW i \in IconsOf(new) PROVE i \in IconsOf(s) \cup {icon}
  <2>1. i # NoIcon BY IconInList, Zenon
  <2>2. PICK n \in DOMAIN s : new[n].icon = i BY <1>1, IconInList, Zenon
  <2>3. i = icon \/ s[n].icon = i BY <2>2, <1>2
  <2> QED BY <2>1, <2>3, IconInList, Zenon
<1> QED BY <1>1, <1>2, <1>3, <1>4


LEMMA LinkPage ==
  ASSUME LinksTypeOK, NEW p \in LinkPages
  PROVE  /\ list[p] \in Lists /\ seen[p] \in Nat
         /\ \/ upload[p] = NoUpload
            \/ /\ upload[p] # NoUpload /\ upload[p] \in Upload
               /\ upload[p].icon \in Icons /\ upload[p].title \in Titles
               /\ upload[p].index \in Nat /\ upload[p].moved \in BOOLEAN
         /\ \/ linkSave[p] = NoLinkSave /\ linkSave[p].at = "none"
            \/ /\ linkSave[p] # NoLinkSave /\ linkSave[p] \in LinkSave
               /\ linkSave[p].at \in {"sent", "judged", "stored"}
               /\ linkSave[p].rows \in Lists /\ linkSave[p].from \in Nat
               /\ linkSave[p].previous \in Lists
<1>1. NoUpload \notin Upload /\ NoLinkSave \notin LinkSave
  BY DEF NoUpload, NoLinkSave, Upload, LinkSave
<1>2. list[p] \in Lists /\ seen[p] \in Nat BY Zenon DEF LinksTypeOK
<1>3. upload[p] = NoUpload \/ upload[p] \in Upload BY Zenon DEF LinksTypeOK
<1>4. linkSave[p] = NoLinkSave \/ linkSave[p] \in LinkSave BY Zenon DEF LinksTypeOK
<1>5. upload[p] \in Upload =>
        /\ upload[p].icon \in Icons /\ upload[p].title \in Titles
        /\ upload[p].index \in Nat /\ upload[p].moved \in BOOLEAN
  BY DEF Upload
<1>6. linkSave[p] \in LinkSave =>
        /\ linkSave[p].at \in {"sent", "judged", "stored"}
        /\ linkSave[p].rows \in Lists /\ linkSave[p].from \in Nat
        /\ linkSave[p].previous \in Lists
  BY DEF LinkSave
<1>7. NoLinkSave.at = "none" BY DEF NoLinkSave
<1> QED BY <1>1, <1>2, <1>3, <1>4, <1>5, <1>6, <1>7, Zenon

(* A step that keeps no more icons than before, no other file's and leaves *)
(* the stored saves alone.                                                 *)
LEMMA KeptStay ==
  ASSUME KeptHaveTheirFile, bySurprise' = bySurprise,
         \A icon \in Icons : IsKept(icon)' => IsKept(icon),
         iconFiles' = iconFiles,
         \A q \in LinkPages :
           linkSave'[q].at = "stored" => linkSave'[q] = linkSave[q]
  PROVE  KeptHaveTheirFile'
BY Zenon DEF KeptHaveTheirFile, ReplacedIcons

(* Pages whose rows are shown anew.                                        *)
LEMMA RowsShown ==
  ASSUME LinksInv, NEW p \in LinkPages, NEW rows \in Lists, NEW moves \in BOOLEAN,
         Show(p, rows, moves),
         \A icon \in IconsOf(rows) :
           icon \in IconsOf(list[p]) \/ icon \in IconsOf(stored),
         \/ seen' = seen /\ IconsOf(rows) \subseteq IconsOf(list[p])
         \/ /\ seen' = [seen EXCEPT ![p] = linksStored]
            /\ IconsOf(rows) = IconsOf(stored),
         ~moves => \A n \in DOMAIN list[p] :
                     n \in DOMAIN rows /\ rows[n].title = list[p][n].title,
         linkChanges' \in Nat,
         UNCHANGED <<stored, iconFiles, linksStored, linkSave, bySurprise,
                     linkSaves>>
  PROVE  LinksInv'
<1> USE DEF LinksInv
<1>1. list' = [list EXCEPT ![p] = rows] /\ list'[p] = rows
      /\ \A q \in LinkPages : q # p => list'[q] = list[q]
  BY Zenon DEF Show, LinksTypeOK
<1>2. list' \in [LinkPages -> Lists] BY <1>1, Zenon DEF LinksTypeOK
<1>3. seen' \in [LinkPages -> Nat] BY Zenon DEF LinksTypeOK
<1>4. ASSUME NEW q \in LinkPages
      PROVE  /\ upload'[q] \in {NoUpload} \cup Upload
             /\ upload'[q] = NoUpload <=> upload[q] = NoUpload
             /\ upload[q] # NoUpload =>
                  /\ upload'[q].icon = upload[q].icon
                  /\ upload'[q].index = upload[q].index
                  /\ upload'[q].title = upload[q].title
                  /\ ~upload'[q].moved => ~upload[q].moved /\ (q = p => ~moves)
  <2>1. CASE upload[p] = NoUpload \/ ~moves
    <3>1. upload' = upload BY <2>1, Zenon DEF Show
    <3> QED BY <3>1, <2>1, LinkPage, Zenon
  <2>2. CASE upload[p] # NoUpload /\ moves
    <3>1. upload' = [upload EXCEPT ![p] = [upload[p] EXCEPT !.moved = TRUE]]
      BY <2>2, Zenon DEF Show
    <3>2. CASE q # p
      BY <3>1, <3>2, LinkPage, Zenon DEF LinksTypeOK
    <3>3. CASE q = p
      <4>1. upload'[p] = [upload[p] EXCEPT !.moved = TRUE]
        BY <3>1, Zenon DEF LinksTypeOK
      <4>2. upload[p] \in Upload BY <2>2, LinkPage, Zenon
      <4>3. upload'[p] \in Upload /\ upload'[p] # NoUpload
        BY <4>1, <4>2 DEF Upload, NoUpload
      <4>4. /\ upload'[p].icon = upload[p].icon
            /\ upload'[p].index = upload[p].index
            /\ upload'[p].title = upload[p].title
            /\ upload'[p].moved
        BY <4>1, <4>2 DEF Upload
      <4> QED BY <3>3, <4>3, <4>4, <2>2, Zenon
    <3> QED BY <3>2, <3>3
  <2> QED BY <2>1, <2>2, Zenon
<1>5. upload' \in [LinkPages -> {NoUpload} \cup Upload]
  <2>1. upload' = [q \in LinkPages |-> upload'[q]]
    BY Zenon DEF Show, LinksTypeOK
  <2> QED BY <2>1, <1>4, Zenon
<1>6. LinksTypeOK'
  BY <1>2, <1>3, <1>5, Zenon DEF LinksTypeOK
<1>7. ASSUME NEW icon \in Icons, IsKept(icon)' PROVE IsKept(icon)
  <2>1. CASE icon \in IconsOf(stored') BY <2>1, Zenon DEF IsKept
  <2>2. CASE \E q \in LinkPages :
               seen'[q] = linksStored' /\ icon \in IconsOf(list'[q])
    <3>1. PICK q \in LinkPages :
            seen'[q] = linksStored /\ icon \in IconsOf(list'[q])
      BY <2>2, Zenon
    <3>2. CASE q # p
      <4>1. seen[q] = linksStored BY <3>1, <3>2, Zenon DEF LinksTypeOK
      <4> QED BY <4>1, <3>1, <3>2, <1>1, Zenon DEF IsKept
    <3>3. CASE q = p
      <4>1. icon \in IconsOf(rows) BY <3>1, <3>3, <1>1, Zenon
      <4> QED BY <4>1, <3>1, <3>3, Zenon DEF IsKept
    <3> QED BY <3>2, <3>3
  <2>3. CASE \E q \in LinkPages :
               /\ linkSave'[q].at \in {"sent", "judged"}
               /\ linkSave'[q].from = linksStored'
               /\ icon \in IconsOf(linkSave'[q].rows)
    BY <2>3, Zenon DEF IsKept
  <2>4. CASE \E q \in LinkPages : upload'[q] # NoUpload /\ icon = upload'[q].icon
    BY <2>4, <1>4, Zenon DEF IsKept
  <2> QED BY <1>7, <2>1, <2>2, <2>3, <2>4, Zenon DEF IsKept
<1>8. KeptHaveTheirFile' BY <1>7, KeptStay, Zenon
<1>9. UploadsAreNew'
  <2> SUFFICES ASSUME NEW q \in LinkPages, upload'[q] # NoUpload
               PROVE  /\ upload'[q].icon \notin IconsOf(stored)
                      /\ \A r \in LinkPages :
                           /\ upload'[q].icon \notin IconsOf(list'[r])
                           /\ linkSave[r] # NoLinkSave =>
                                /\ upload'[q].icon \notin IconsOf(linkSave[r].rows)
                                /\ upload'[q].icon \notin IconsOf(linkSave[r].previous)
                           /\ r # q /\ upload'[r] # NoUpload =>
                                upload'[r].icon # upload'[q].icon
    BY Zenon DEF UploadsAreNew
  <2>1. upload[q] # NoUpload /\ upload'[q].icon = upload[q].icon BY <1>4, Zenon
  <2>2. ASSUME NEW r \in LinkPages PROVE upload[q].icon \notin IconsOf(list'[r])
    BY <2>1, <1>1, Zenon DEF UploadsAreNew
  <2>3. ASSUME NEW r \in LinkPages, r # q, upload'[r] # NoUpload
        PROVE  upload'[r].icon # upload[q].icon
    <3>1. upload[r] # NoUpload /\ upload'[r].icon = upload[r].icon
      BY <2>3, <1>4, Zenon
    <3>2. upload[r].icon # upload[q].icon
      BY <2>1, <2>3, <3>1, Zenon DEF UploadsAreNew
    <3> QED BY <3>1, <3>2, Zenon
  <2> QED BY <2>1, <2>2, <2>3, Zenon DEF UploadsAreNew
<1>10. ListsAreOlder'
  <2>1. linksStored \in Nat /\ linksStored' = linksStored BY Zenon DEF LinksTypeOK
  <2>2. ASSUME NEW q \in LinkPages PROVE seen'[q] <= linksStored
    <3>1. seen'[q] = seen[q] \/ seen'[q] = linksStored BY Zenon DEF LinksTypeOK
    <3>2. seen[q] <= linksStored BY Zenon DEF ListsAreOlder
    <3> QED BY <3>1, <3>2, <2>1
  <2> QED BY <2>1, <2>2, Zenon DEF ListsAreOlder
<1>11. UploadsKnowTheirRow'
  <2> SUFFICES ASSUME NEW q \in LinkPages, upload'[q] # NoUpload, ~upload'[q].moved
               PROVE  /\ upload'[q].index \in DOMAIN list'[q]
                      /\ list'[q][upload'[q].index].title = upload'[q].title
    BY Zenon DEF UploadsKnowTheirRow
  <2>1. /\ upload[q] # NoUpload /\ ~upload[q].moved /\ (q = p => ~moves)
        /\ upload'[q].index = upload[q].index /\ upload'[q].title = upload[q].title
    BY <1>4, Zenon
  <2>2. /\ upload[q].index \in DOMAIN list[q]
        /\ list[q][upload[q].index].title = upload[q].title
    BY <2>1, Zenon DEF UploadsKnowTheirRow
  <2>3. CASE q # p BY <2>1, <2>2, <2>3, <1>1, Zenon
  <2>4. CASE q = p
    <3>1. upload[p].index \in DOMAIN list[p] /\ ~moves BY <2>1, <2>2, <2>4, Zenon
    <3>2. /\ upload[p].index \in DOMAIN rows
          /\ rows[upload[p].index].title = list[p][upload[p].index].title
      BY <3>1, Zenon
    <3> QED BY <3>2, <2>1, <2>2, <2>4, <1>1, Zenon
  <2> QED BY <2>3, <2>4
<1> QED BY <1>6, <1>8, <1>9, <1>10, <1>11

LEMMA EditedRows ==
  ASSUME LinksInv, NEW p \in LinkPages, EditRows(p)
  PROVE  LinksInv'
<1>1. linkChanges' \in Nat BY DEF EditRows, LinksInv, LinksTypeOK
<1>2. list[p] \in Lists BY Zenon DEF LinksInv, LinksTypeOK
<1>3. CASE /\ Len(list[p]) < MaxLinks
           /\ \E t \in Titles :
                /\ \A n \in DOMAIN list[p] : list[p][n].title # t
                /\ Show(p, Append(list[p], [title |-> t, icon |-> NoIcon]), FALSE)
  <2>1. PICK t \in Titles :
          /\ \A n \in DOMAIN list[p] : list[p][n].title # t
          /\ Show(p, Append(list[p], [title |-> t, icon |-> NoIcon]), FALSE)
    BY <1>3, Zenon
  <2> DEFINE rows == Append(list[p], [title |-> t, icon |-> NoIcon])
  <2>2. /\ rows \in Lists /\ IconsOf(rows) \subseteq IconsOf(list[p])
        /\ \A n \in DOMAIN list[p] :
             n \in DOMAIN rows /\ rows[n] = list[p][n]
    BY <1>2, <1>3, <2>1, AppendedList, Zenon
  <2>3. Show(p, rows, FALSE) BY <2>1, Zenon
  <2> HIDE DEF rows
  <2>4. \A n \in DOMAIN list[p] :
          n \in DOMAIN rows /\ rows[n].title = list[p][n].title
    BY <2>2, Zenon
  <2> QED BY <1>1, <2>2, <2>3, <2>4, RowsShown, Zenon DEF EditRows
<1>4. CASE \E n \in DOMAIN list[p] : Show(p, RemoveAt(list[p], n), TRUE)
  <2>1. PICK n \in DOMAIN list[p] : Show(p, RemoveAt(list[p], n), TRUE)
    BY <1>4, Zenon
  <2>2. /\ RemoveAt(list[p], n) \in Lists
        /\ IconsOf(RemoveAt(list[p], n)) \subseteq IconsOf(list[p])
    BY <1>2, ShortenedList, Zenon
  <2> QED BY <1>1, <2>1, <2>2, RowsShown, Zenon DEF EditRows
<1>5. CASE \E n \in DOMAIN list[p] :
             /\ list[p][n].icon # NoIcon
             /\ Show(p, [list[p] EXCEPT ![n].icon = NoIcon], FALSE)
  <2>1. PICK n \in DOMAIN list[p] :
          Show(p, [list[p] EXCEPT ![n].icon = NoIcon], FALSE)
    BY <1>5, Zenon
  <2> DEFINE rows == [list[p] EXCEPT ![n].icon = NoIcon]
  <2>2. /\ rows \in Lists /\ IconsOf(rows) \subseteq IconsOf(list[p])
        /\ DOMAIN rows = DOMAIN list[p]
        /\ \A m \in DOMAIN list[p] : rows[m].title = list[p][m].title
    BY <1>2, ClearedList, Zenon
  <2>3. Show(p, rows, FALSE) BY <2>1, Zenon
  <2> HIDE DEF rows
  <2> QED BY <1>1, <2>2, <2>3, RowsShown, Zenon DEF EditRows
<1> QED BY <1>3, <1>4, <1>5, Zenon DEF EditRows

LEMMA RefreshedRows ==
  ASSUME LinksInv, NEW p \in LinkPages, RefreshRows(p)
  PROVE  LinksInv'
<1>1. stored \in Lists /\ linkChanges' \in Nat
  BY DEF LinksInv, LinksTypeOK, RefreshRows
<1>2. TRUE \in BOOLEAN /\ IconsOf(stored) = IconsOf(stored) OBVIOUS
<1> QED BY <1>1, <1>2, RowsShown, Zenon DEF RefreshRows

LEMMA IconUploaded ==
  ASSUME LinksInv, NEW p \in LinkPages, UploadIcon(p)
  PROVE  LinksInv'
<1> USE DEF LinksInv
<1>1. PICK n \in DOMAIN list[p], icon \in Icons \ NamesInUse :
        /\ upload' = [upload EXCEPT ![p] =
             [at |-> "sent", index |-> n, icon |-> icon,
              title |-> list[p][n].title, moved |-> FALSE]]
        /\ iconFiles' = iconFiles \cup {icon}
  BY Zenon DEF UploadIcon
<1> DEFINE new == [at |-> "sent", index |-> n, icon |-> icon,
                   title |-> list[p][n].title, moved |-> FALSE]
<1>2. list[p] \in Lists BY Zenon DEF LinksTypeOK
<1>3. n \in Nat /\ list[p][n].title \in Titles
  <2>1. list[p] \in Seq(Row) BY <1>2 DEF Lists
  <2>2. n \in Nat BY <2>1
  <2> QED BY <2>2, <1>2, RowOfList
<1>4. /\ new \in Upload /\ new # NoUpload /\ new.icon = icon /\ new.index = n
      /\ new.title = list[p][n].title
  BY <1>3 DEF Upload, NoUpload
<1>5. upload' = [upload EXCEPT ![p] = new] BY <1>1, Zenon
<1> HIDE DEF new
<1>6. /\ upload'[p] = new /\ upload[p] = NoUpload
      /\ \A q \in LinkPages : q # p => upload'[q] = upload[q]
      /\ upload' \in [LinkPages -> {NoUpload} \cup Upload]
  BY <1>4, <1>5, Zenon DEF LinksTypeOK, UploadIcon
<1>7. /\ icon \notin iconFiles /\ icon \notin IconsOf(stored)
      /\ \A q \in LinkPages :
           /\ icon \notin IconsOf(list[q])
           /\ upload[q] # NoUpload => icon # upload[q].icon
           /\ linkSave[q] # NoLinkSave =>
                /\ icon \notin IconsOf(linkSave[q].rows)
                /\ icon \notin IconsOf(linkSave[q].previous)
  <2>1. icon \notin iconFiles /\ icon \notin IconsOf(stored)
    BY <1>1, Zenon DEF NamesInUse
  <2>2. ASSUME NEW q \in LinkPages PROVE icon \notin IconsOf(list[q])
    BY <1>1, Zenon DEF NamesInUse
  <2>3. ASSUME NEW q \in LinkPages, upload[q] # NoUpload
        PROVE  icon # upload[q].icon
    BY <1>1, <2>3, Zenon DEF NamesInUse
  <2>4. ASSUME NEW q \in LinkPages, linkSave[q] # NoLinkSave
        PROVE  /\ icon \notin IconsOf(linkSave[q].rows)
               /\ icon \notin IconsOf(linkSave[q].previous)
    BY <1>1, <2>4, Zenon DEF NamesInUse
  <2> QED BY <2>1, <2>2, <2>3, <2>4
<1>8. LinksTypeOK'
  <2>1. linkChanges' \in Nat BY DEF UploadIcon, LinksTypeOK
  <2>2. iconFiles' \subseteq Icons BY <1>1, Zenon DEF LinksTypeOK
  <2> QED BY <1>6, <2>1, <2>2, Zenon DEF LinksTypeOK, UploadIcon
<1>9. UNCHANGED <<stored, list, linksStored, seen, linkSave, bySurprise>>
  BY Zenon DEF UploadIcon
<1>10. KeptHaveTheirFile'
  <2> SUFFICES ASSUME ~bySurprise, NEW i \in Icons, IsKept(i)'
               PROVE  /\ i \in iconFiles'
                      /\ \A q \in LinkPages :
                           linkSave[q].at = "stored" =>
                             i \notin ReplacedIcons(linkSave[q])
    BY <1>9, Zenon DEF KeptHaveTheirFile, ReplacedIcons
  <2>1. IsKept(i) \/ i = icon BY <1>4, <1>6, <1>9, Zenon DEF IsKept
  <2>2. CASE IsKept(i) BY <2>2, <1>1, Zenon DEF KeptHaveTheirFile
  <2>3. CASE i = icon
    <3>1. ASSUME NEW q \in LinkPages, linkSave[q].at = "stored"
          PROVE  i \notin IconsOf(linkSave[q].previous)
      BY <2>3, <1>7, <3>1, LinkPage
    <3> QED BY <2>3, <3>1, <1>1, Zenon DEF ReplacedIcons
  <2> QED BY <2>1, <2>2, <2>3
<1>11. UploadsAreNew'
  <2> SUFFICES ASSUME NEW q \in LinkPages, upload'[q] # NoUpload
               PROVE  /\ upload'[q].icon \notin IconsOf(stored)
                      /\ \A r \in LinkPages :
                           /\ upload'[q].icon \notin IconsOf(list[r])
                           /\ linkSave[r] # NoLinkSave =>
                                /\ upload'[q].icon \notin IconsOf(linkSave[r].rows)
                                /\ upload'[q].icon \notin IconsOf(linkSave[r].previous)
                           /\ r # q /\ upload'[r] # NoUpload =>
                                upload'[r].icon # upload'[q].icon
    BY <1>9, Zenon DEF UploadsAreNew
  <2>1. CASE q = p
    <3>1. ASSUME NEW r \in LinkPages, r # q, upload'[r] # NoUpload
          PROVE  upload'[r].icon # upload'[q].icon
      BY <2>1, <3>1, <1>6, <1>7, <1>4, Zenon
    <3> QED BY <2>1, <3>1, <1>6, <1>7, <1>4, Zenon
  <2>2. CASE q # p
    <3>1. upload[q] # NoUpload /\ upload'[q] = upload[q] BY <2>2, <1>6, Zenon
    <3>2. ASSUME NEW r \in LinkPages, r # q, upload'[r] # NoUpload
          PROVE  upload'[r].icon # upload'[q].icon
      <4>1. CASE r = p BY <4>1, <3>1, <1>4, <1>6, <1>7, Zenon
      <4>2. CASE r # p
        BY <4>2, <3>1, <3>2, <1>6, Zenon DEF UploadsAreNew
      <4> QED BY <4>1, <4>2
    <3> QED BY <3>1, <3>2, Zenon DEF UploadsAreNew
  <2> QED BY <2>1, <2>2
<1>12. ListsAreOlder' BY <1>9, Zenon DEF ListsAreOlder
<1>13. UploadsKnowTheirRow'
  BY <1>4, <1>6, <1>9, Zenon DEF UploadsKnowTheirRow
<1> QED BY <1>8, <1>10, <1>11, <1>12, <1>13

LEMMA IconPlaced ==
  ASSUME LinksInv, NEW p \in LinkPages, PlaceIcon(p)
  PROVE  /\ LinksInv'
         /\ list' = [list EXCEPT ![p] = list'[p]] /\ DOMAIN list'[p] = DOMAIN list[p]
         /\ \A n \in DOMAIN list[p] :
              list'[p][n].icon = IF n = upload[p].index THEN upload[p].icon
                                 ELSE list[p][n].icon
<1> USE DEF LinksInv
<1>0. PICK rows : rows = [n \in DOMAIN list[p] |->
             IF n = upload[p].index THEN [list[p][n] EXCEPT !.icon = upload[p].icon]
             ELSE list[p][n]]
  OBVIOUS
<1>1. upload[p] # NoUpload /\ upload[p].icon \in Icons /\ list[p] \in Lists
  BY LinkPage, Zenon DEF PlaceIcon
<1>2. /\ rows \in Lists
      /\ IconsOf(rows) \subseteq IconsOf(list[p]) \cup {upload[p].icon}
      /\ DOMAIN rows = DOMAIN list[p]
      /\ \A n \in DOMAIN list[p] :
           /\ rows[n].title = list[p][n].title
           /\ rows[n].icon = IF n = upload[p].index THEN upload[p].icon
                             ELSE list[p][n].icon
  <2>1. PICK s, k, icon : s = list[p] /\ k = upload[p].index /\ icon = upload[p].icon
    OBVIOUS
  <2>2. s \in Lists /\ icon \in Icons /\ DOMAIN rows = DOMAIN s
        /\ rows = [n \in DOMAIN s |-> rows[n]]
    BY <2>1, <1>0, <1>1
  <2>4. ASSUME NEW n \in DOMAIN s
        PROVE  /\ n # k => rows[n] = s[n]
               /\ n = k => /\ rows[n] \in Row /\ rows[n].icon = icon
                          /\ rows[n].title = s[n].title
    <3>1. rows[n] = IF n = k THEN [s[n] EXCEPT !.icon = icon] ELSE s[n]
      BY <1>0, <2>1, Zenon
    <3>2. s[n] \in Row BY <2>2, RowOfList
    <3> QED BY <3>1, <3>2, <2>2 DEF Row
  <2>3. /\ rows \in Lists /\ IconsOf(rows) \subseteq IconsOf(s) \cup {icon}
        /\ DOMAIN rows = DOMAIN s
        /\ \A n \in DOMAIN s :
             /\ rows[n].title = s[n].title
             /\ rows[n].icon = IF n = k THEN icon ELSE s[n].icon
    <3>1. \A n \in DOMAIN s :
             /\ n # k => rows[n] = s[n]
             /\ n = k => /\ rows[n] \in Row /\ rows[n].icon = icon
                        /\ rows[n].title = s[n].title
      BY <2>4, Zenon
    <3>2. /\ DOMAIN rows = DOMAIN s
          /\ rows = [n \in DOMAIN s |-> rows[n]]
      BY <2>2, Zenon
    <3>3. s \in Lists /\ icon \in Icons BY <2>2, Zenon
    <3>4. \A n \in DOMAIN s : rows[n] \in Row /\ rows[n].title = s[n].title
      BY <3>1, <3>3, RowOfList
    <3>5. rows \in Lists BY <3>2, <3>3, <3>4, SameTitles, Zenon
    <3>6. IconsOf(rows) \subseteq IconsOf(s) \cup {icon} BY <3>1, <3>2, <3>3, PlacedList, Zenon
    <3>7. \A n \in DOMAIN s :
             /\ rows[n].title = s[n].title
             /\ rows[n].icon = IF n = k THEN icon ELSE s[n].icon
         BY <3>1, <2>2
    <3> QED BY <3>2, <3>5, <3>6, <3>7
  <2> QED BY <2>1, <2>3, Zenon
<1>3. list' = [list EXCEPT ![p] = rows] BY <1>0, Zenon DEF PlaceIcon, RowOfUpload
<1>4. /\ list'[p] = rows /\ \A q \in LinkPages : q # p => list'[q] = list[q]
      /\ list' \in [LinkPages -> Lists]
  BY <1>2, <1>3, Zenon DEF LinksTypeOK
<1>5. /\ upload'[p] = NoUpload
      /\ \A q \in LinkPages : q # p => upload'[q] = upload[q]
      /\ upload' \in [LinkPages -> {NoUpload} \cup Upload]
  BY Zenon DEF PlaceIcon, LinksTypeOK
<1>6. UNCHANGED <<stored, iconFiles, linksStored, seen, linkSave, bySurprise,
                  linkChanges, linkSaves>>
  BY Zenon DEF PlaceIcon
<1>7. LinksTypeOK' BY <1>4, <1>5, <1>6, Zenon DEF LinksTypeOK
<1>8. ASSUME NEW icon \in Icons, IsKept(icon)' PROVE IsKept(icon)
  <2>1. CASE \E q \in LinkPages :
               seen'[q] = linksStored' /\ icon \in IconsOf(list'[q])
    <3>1. PICK q \in LinkPages :
            seen[q] = linksStored /\ icon \in IconsOf(list'[q])
      BY <2>1, <1>6, Zenon
    <3>2. CASE q # p BY <3>1, <3>2, <1>4, Zenon DEF IsKept
    <3>3. CASE q = p
      <4>1. icon \in IconsOf(list[p]) \/ icon = upload[p].icon
        BY <3>1, <3>3, <1>2, <1>4, Zenon
      <4> QED BY <4>1, <3>1, <3>3, <1>1, Zenon DEF IsKept
    <3> QED BY <3>2, <3>3
  <2>2. CASE \E q \in LinkPages : upload'[q] # NoUpload /\ icon = upload'[q].icon
    BY <2>2, <1>5, Zenon DEF IsKept
  <2> QED BY <1>8, <1>6, <2>1, <2>2, Zenon DEF IsKept
<1>9. KeptHaveTheirFile' BY <1>6, <1>8, KeptStay, Zenon
<1>10. UploadsAreNew'
  <2> SUFFICES ASSUME NEW q \in LinkPages, upload'[q] # NoUpload
               PROVE  /\ upload'[q].icon \notin IconsOf(stored)
                      /\ \A r \in LinkPages :
                           /\ upload'[q].icon \notin IconsOf(list'[r])
                           /\ linkSave[r] # NoLinkSave =>
                                /\ upload'[q].icon \notin IconsOf(linkSave[r].rows)
                                /\ upload'[q].icon \notin IconsOf(linkSave[r].previous)
                           /\ r # q /\ upload'[r] # NoUpload =>
                                upload'[r].icon # upload'[q].icon
    BY <1>6, Zenon DEF UploadsAreNew
  <2>1. q # p /\ upload'[q] = upload[q] /\ upload[q] # NoUpload BY <1>5, Zenon
  <2>2. upload[q].icon # upload[p].icon
    BY <2>1, <1>1, Zenon DEF UploadsAreNew
  <2>3. ASSUME NEW r \in LinkPages PROVE upload[q].icon \notin IconsOf(list'[r])
    <3>1. upload[q].icon \notin IconsOf(list[r]) BY <2>1, Zenon DEF UploadsAreNew
    <3>2. CASE r # p BY <3>1, <3>2, <1>4, Zenon
    <3>3. CASE r = p BY <3>1, <3>3, <2>2, <1>2, <1>4
    <3> QED BY <3>2, <3>3
  <2>4. ASSUME NEW r \in LinkPages, r # q, upload'[r] # NoUpload
        PROVE  upload'[r].icon # upload[q].icon
    <3>1. upload'[r] = upload[r] BY <2>4, <1>5, Zenon
    <3> QED BY <3>1, <2>1, <2>4, Zenon DEF UploadsAreNew
  <2> QED BY <2>1, <2>3, <2>4, Zenon DEF UploadsAreNew
<1>11. ListsAreOlder' BY <1>6, Zenon DEF ListsAreOlder
<1>12. UploadsKnowTheirRow'
  <2> SUFFICES ASSUME NEW q \in LinkPages, upload'[q] # NoUpload, ~upload'[q].moved
               PROVE  /\ upload'[q].index \in DOMAIN list'[q]
                      /\ list'[q][upload'[q].index].title = upload'[q].title
    BY Zenon DEF UploadsKnowTheirRow
  <2>1. q # p /\ upload'[q] = upload[q] /\ list'[q] = list[q]
    BY <1>4, <1>5, Zenon
  <2> QED BY <2>1, Zenon DEF UploadsKnowTheirRow
<1> QED BY <1>2, <1>3, <1>4, <1>7, <1>9, <1>10, <1>11, <1>12, Zenon

(* A save that moves on and keeps its rows, or is new or over.             *)
LEMMA LinkSaveMoves ==
  ASSUME LinksInv, NEW p \in LinkPages, NEW save,
         linkSave' = [linkSave EXCEPT ![p] = save],
         \/ save = NoLinkSave
         \/ /\ save \in LinkSave /\ save.at \in {"sent", "judged"}
            /\ save.from <= linksStored /\ save.previous \in {<<>>, stored}
            /\ \/ /\ linkSave[p].at \in {"sent", "judged"}
                  /\ save.rows = linkSave[p].rows /\ save.from = linkSave[p].from
               \/ /\ upload[p] = NoUpload
                  /\ save.rows = list[p] /\ save.from = seen[p],
         linkSaves' \in Nat,
         UNCHANGED <<stored, iconFiles, list, linksStored, seen, upload,
                     bySurprise, linkChanges>>
  PROVE  LinksInv'
<1> USE DEF LinksInv
<1>1. /\ linkSave'[p] = save
      /\ \A q \in LinkPages : q # p => linkSave'[q] = linkSave[q]
      /\ linkSave' \in [LinkPages -> {NoLinkSave} \cup LinkSave]
  BY Zenon DEF LinksTypeOK
<1>2. LinksTypeOK' BY <1>1, Zenon DEF LinksTypeOK
<1>3. save = NoLinkSave => save.at = "none" BY DEF NoLinkSave
<1>4. ASSUME NEW icon \in Icons, IsKept(icon)' PROVE IsKept(icon)
  <2>1. CASE \E q \in LinkPages :
               /\ linkSave'[q].at \in {"sent", "judged"}
               /\ linkSave'[q].from = linksStored'
               /\ icon \in IconsOf(linkSave'[q].rows)
    <3>1. PICK q \in LinkPages :
            /\ linkSave'[q].at \in {"sent", "judged"}
            /\ linkSave'[q].from = linksStored
            /\ icon \in IconsOf(linkSave'[q].rows)
      BY <2>1, Zenon
    <3>2. CASE q # p BY <3>1, <3>2, <1>1, Zenon DEF IsKept
    <3>3. CASE q = p
      <4>1. save # NoLinkSave /\ save.from = linksStored /\ icon \in IconsOf(save.rows)
        <5>1. save.at \in {"sent", "judged"} BY <3>1, <3>3, <1>1, Zenon
        <5>2. save # NoLinkSave BY <5>1, <1>3
        <5> QED BY <5>2, <3>1, <3>3, <1>1, Zenon
      <4> QED BY <4>1, Zenon DEF IsKept
    <3> QED BY <3>2, <3>3
  <2> QED BY <1>4, <2>1, Zenon DEF IsKept
<1>5. KeptHaveTheirFile'
  <2>1. ASSUME NEW q \in LinkPages, linkSave'[q].at = "stored"
        PROVE  linkSave'[q] = linkSave[q]
    <3>1. q # p BY <2>1, <1>1, <1>3
    <3> QED BY <3>1, <1>1, Zenon
  <2> QED BY <2>1, <1>4, KeptStay, Zenon
<1>6. UploadsAreNew'
  <2> SUFFICES ASSUME NEW q \in LinkPages, upload[q] # NoUpload,
                      NEW r \in LinkPages, linkSave'[r] # NoLinkSave
               PROVE  /\ upload[q].icon \notin IconsOf(linkSave'[r].rows)
                      /\ upload[q].icon \notin IconsOf(linkSave'[r].previous)
    BY Zenon DEF UploadsAreNew
  <2>1. CASE r # p BY <2>1, <1>1, Zenon DEF UploadsAreNew
  <2>2. CASE r = p
    <3>1. save # NoLinkSave /\ linkSave'[r] = save BY <2>2, <1>1, Zenon
    <3>2. upload[q].icon \notin IconsOf(save.previous)
      <4>1. save.previous = <<>> \/ save.previous = stored BY <3>1
      <4> QED BY <4>1, EmptyList, Zenon DEF UploadsAreNew
    <3>3. upload[q].icon \notin IconsOf(save.rows)
      <4>1. CASE save.rows = list[p] BY <4>1, Zenon DEF UploadsAreNew
      <4>2. CASE /\ linkSave[p].at \in {"sent", "judged"}
                 /\ save.rows = linkSave[p].rows
        <5>1. linkSave[p] # NoLinkSave BY <4>2 DEF NoLinkSave
        <5> QED BY <5>1, <4>2, Zenon DEF UploadsAreNew
      <4> QED BY <3>1, <4>1, <4>2, Zenon
    <3> QED BY <3>1, <3>2, <3>3, Zenon
  <2> QED BY <2>1, <2>2
<1>7. ListsAreOlder'
  <2>1. ASSUME NEW q \in LinkPages, linkSave'[q] # NoLinkSave
        PROVE  linkSave'[q].from <= linksStored
    BY <2>1, <1>1, Zenon DEF ListsAreOlder
  <2> QED BY <2>1, Zenon DEF ListsAreOlder
<1>8. UploadsKnowTheirRow' BY Zenon DEF UploadsKnowTheirRow
<1> QED BY <1>2, <1>5, <1>6, <1>7, <1>8

LEMMA RowsSent ==
  ASSUME LinksInv, NEW p \in LinkPages, SaveRows(p)
  PROVE  LinksInv'
<1> DEFINE save == [at |-> "sent", rows |-> list[p], from |-> seen[p],
                    previous |-> <<>>]
<1>1. linkSave' = [linkSave EXCEPT ![p] = save] BY Zenon DEF SaveRows
<1>2. list[p] \in Lists /\ seen[p] \in Nat BY LinkPage, Zenon DEF LinksInv
<1>3. /\ save \in LinkSave /\ save.at = "sent" /\ save.rows = list[p]
      /\ save.from = seen[p] /\ save.previous = <<>>
  BY <1>2, EmptyList DEF LinkSave
<1> HIDE DEF save
<1>4. save.from <= linksStored BY <1>3, Zenon DEF LinksInv, ListsAreOlder
<1>5. linkSaves' \in Nat BY DEF SaveRows, LinksInv, LinksTypeOK
<1>6. save.at \in {"sent", "judged"} /\ save.previous \in {<<>>, stored} BY <1>3
<1> QED BY <1>1, <1>3, <1>4, <1>5, <1>6, LinkSaveMoves, Zenon DEF SaveRows

LEMMA RowsJudged ==
  ASSUME LinksInv, NEW p \in LinkPages, JudgeRows(p)
  PROVE  LinksInv'
<1> DEFINE save == [linkSave[p] EXCEPT !.at = "judged", !.previous = stored]
<1>1. linkSave' = [linkSave EXCEPT ![p] = save] BY Zenon DEF JudgeRows
<1>2. linkSave[p] # NoLinkSave /\ linkSave[p] \in LinkSave /\ stored \in Lists
  <2>1. linkSave[p].at # "none" BY DEF JudgeRows
  <2> QED BY <2>1, LinkPage, Zenon DEF LinksInv, LinksTypeOK
<1>3. /\ save \in LinkSave /\ save.at = "judged" /\ save.rows = linkSave[p].rows
      /\ save.from = linkSave[p].from /\ save.previous = stored
  BY <1>2 DEF LinkSave
<1> HIDE DEF save
<1>4. save.from <= linksStored BY <1>2, <1>3, Zenon DEF LinksInv, ListsAreOlder
<1>5. linkSaves' \in Nat BY Zenon DEF JudgeRows, LinksInv, LinksTypeOK
<1>6. /\ save.at \in {"sent", "judged"} /\ save.previous \in {<<>>, stored}
      /\ linkSave[p].at \in {"sent", "judged"}
  BY <1>3 DEF JudgeRows
<1> QED BY <1>1, <1>3, <1>4, <1>5, <1>6, LinkSaveMoves, Zenon DEF JudgeRows

LEMMA RowsRefused ==
  ASSUME LinksInv, NEW p \in LinkPages, RefuseRows(p)
  PROVE  LinksInv'
<1>1. linkSaves' \in Nat BY Zenon DEF RefuseRows, LinksInv, LinksTypeOK
<1> QED BY <1>1, LinkSaveMoves, Zenon DEF RefuseRows

LEMMA RowsStored ==
  ASSUME LinksInv, NEW p \in LinkPages, StoreRows(p)
  PROVE  LinksInv'
<1> USE DEF LinksInv
<1> DEFINE save == [linkSave[p] EXCEPT !.at = "stored"]
<1>1. linkSave' = [linkSave EXCEPT ![p] = save] BY Zenon DEF StoreRows
<1>2. linkSave[p] # NoLinkSave /\ linkSave[p] \in LinkSave /\ linkSave[p].rows \in Lists
  <2>1. linkSave[p].at # "none" BY DEF StoreRows
  <2> QED BY <2>1, LinkPage, Zenon
<1>3. /\ save \in LinkSave /\ save.at = "stored" /\ save.rows = linkSave[p].rows
      /\ save.from = linkSave[p].from /\ save.previous = linkSave[p].previous
  BY <1>2 DEF LinkSave
<1> HIDE DEF save
<1>4. /\ linkSave'[p] = save
      /\ \A q \in LinkPages : q # p => linkSave'[q] = linkSave[q]
      /\ linkSave' \in [LinkPages -> {NoLinkSave} \cup LinkSave]
  BY <1>1, <1>3, Zenon DEF LinksTypeOK
<1>5. /\ linksStored \in Nat /\ linksStored' = linksStored + 1
      /\ linksStored' \in Nat /\ linksStored < linksStored'
      /\ bySurprise' \in BOOLEAN
  BY DEF LinksTypeOK, StoreRows
<1>6. stored' = linkSave[p].rows
      /\ UNCHANGED <<iconFiles, list, seen, upload, linkChanges, linkSaves>>
  BY Zenon DEF StoreRows
<1>7. LinksTypeOK' BY <1>2, <1>4, <1>5, <1>6, Zenon DEF LinksTypeOK
<1>8. ASSUME NEW q \in LinkPages
      PROVE  /\ seen'[q] < linksStored'
             /\ linkSave'[q] # NoLinkSave => linkSave'[q].from < linksStored'
  <2>1. seen[q] <= linksStored /\ seen[q] \in Nat
    BY LinkPage, Zenon DEF ListsAreOlder
  <2>2. seen'[q] < linksStored' BY <2>1, <1>5, <1>6
  <2>3. ASSUME linkSave'[q] # NoLinkSave PROVE linkSave'[q].from < linksStored'
    <3>1. linkSave[q] # NoLinkSave /\ linkSave'[q].from = linkSave[q].from
      BY <2>3, <1>2, <1>3, <1>4, Zenon
    <3>2. linkSave[q].from <= linksStored /\ linkSave[q].from \in Nat
      BY <3>1, LinkPage, Zenon DEF ListsAreOlder
    <3> QED BY <3>1, <3>2, <1>5
  <2> QED BY <2>2, <2>3
<1>9. ListsAreOlder'
  <2>1. ASSUME NEW q \in LinkPages PROVE seen'[q] <= linksStored'
    BY <1>8, <1>5, <1>6, LinkPage
  <2>2. ASSUME NEW q \in LinkPages, linkSave'[q] # NoLinkSave
        PROVE  linkSave'[q].from <= linksStored'
    <3>1. linkSave[q] # NoLinkSave /\ linkSave'[q].from = linkSave[q].from
      BY <2>2, <1>2, <1>3, <1>4, Zenon
    <3>2. linkSave[q].from \in Nat BY <3>1, LinkPage, Zenon
    <3> QED BY <3>1, <3>2, <2>2, <1>8, <1>5
  <2> QED BY <2>1, <2>2, Zenon DEF ListsAreOlder
<1>10. KeptHaveTheirFile'
  <2> SUFFICES ASSUME ~bySurprise', NEW i \in Icons, IsKept(i)'
               PROVE  /\ i \in iconFiles
                      /\ \A q \in LinkPages :
                           linkSave'[q].at = "stored" =>
                             i \notin ReplacedIcons(linkSave'[q])
    BY <1>6, Zenon DEF KeptHaveTheirFile, ReplacedIcons
  <2>1. ~bySurprise /\ linksStored = linkSave[p].from
    BY DEF StoreRows, LinksTypeOK
  <2>2. \/ i \in IconsOf(linkSave[p].rows)
        \/ \E q \in LinkPages : upload[q] # NoUpload /\ i = upload[q].icon
    <3>1. ~ \E q \in LinkPages : seen'[q] = linksStored'
      BY <1>8, <1>5, <1>6, LinkPage
    <3>2. ~ \E q \in LinkPages :
              linkSave'[q].at \in {"sent", "judged"} /\ linkSave'[q].from = linksStored'
      <4> SUFFICES ASSUME NEW q \in LinkPages, linkSave'[q].at \in {"sent", "judged"}
                   PROVE  linkSave'[q].from # linksStored'
        BY Zenon
      <4>1. linkSave'[q] # NoLinkSave BY DEF NoLinkSave
      <4>2. linkSave[q] # NoLinkSave /\ linkSave'[q].from = linkSave[q].from
        BY <4>1, <1>2, <1>3, <1>4, Zenon
      <4>3. linkSave[q].from \in Nat BY <4>2, LinkPage, Zenon
      <4> QED BY <4>1, <4>2, <4>3, <1>8, <1>5
    <3> QED BY <3>1, <3>2, <1>6, Zenon DEF IsKept
  <2>3. IsKept(i)
    <3>1. CASE i \in IconsOf(linkSave[p].rows)
      <4>1. linkSave[p].at \in {"sent", "judged"} BY DEF StoreRows
      <4> QED BY <3>1, <4>1, <2>1, Zenon DEF IsKept
    <3> QED BY <2>2, <3>1, Zenon DEF IsKept
  <2>4. ASSUME NEW q \in LinkPages, linkSave'[q].at = "stored"
        PROVE  i \notin ReplacedIcons(linkSave'[q])
    <3>1. CASE q # p
      BY <3>1, <2>4, <2>1, <2>3, <1>4, Zenon DEF KeptHaveTheirFile
    <3>2. CASE q = p
      <4>1. CASE i \in IconsOf(linkSave[p].rows)
        BY <3>2, <4>1, <1>3, <1>4, Zenon DEF ReplacedIcons
      <4>2. CASE \E r \in LinkPages : upload[r] # NoUpload /\ i = upload[r].icon
        <5>1. i \notin IconsOf(linkSave[p].previous)
          BY <4>2, <1>2, Zenon DEF UploadsAreNew
        <5> QED BY <3>2, <5>1, <1>3, <1>4, Zenon DEF ReplacedIcons
      <4> QED BY <2>2, <4>1, <4>2
    <3> QED BY <3>1, <3>2
  <2> QED BY <2>1, <2>3, <2>4, Zenon DEF KeptHaveTheirFile
<1>11. UploadsAreNew'
  <2> SUFFICES ASSUME NEW q \in LinkPages, upload[q] # NoUpload
               PROVE  /\ upload[q].icon \notin IconsOf(linkSave[p].rows)
                      /\ \A r \in LinkPages :
                           linkSave'[r] # NoLinkSave =>
                             /\ upload[q].icon \notin IconsOf(linkSave'[r].rows)
                             /\ upload[q].icon \notin IconsOf(linkSave'[r].previous)
    BY <1>6, Zenon DEF UploadsAreNew
  <2>1. ASSUME NEW r \in LinkPages, linkSave'[r] # NoLinkSave
        PROVE  /\ linkSave[r] # NoLinkSave /\ linkSave'[r].rows = linkSave[r].rows
               /\ linkSave'[r].previous = linkSave[r].previous
    BY <2>1, <1>2, <1>3, <1>4, Zenon
  <2> QED BY <2>1, <1>2, Zenon DEF UploadsAreNew
<1>12. UploadsKnowTheirRow' BY <1>6, Zenon DEF UploadsKnowTheirRow
<1> QED BY <1>7, <1>9, <1>10, <1>11, <1>12

LEMMA IconsRemoved ==
  ASSUME LinksInv, NEW p \in LinkPages, RemoveIcons(p)
  PROVE  LinksInv'
<1> USE DEF LinksInv
<1>1. /\ linkSave'[p] = NoLinkSave
      /\ \A q \in LinkPages : q # p => linkSave'[q] = linkSave[q]
      /\ linkSave' \in [LinkPages -> {NoLinkSave} \cup LinkSave]
      /\ iconFiles' = iconFiles \ ReplacedIcons(linkSave[p])
  BY Zenon DEF LinksTypeOK, RemoveIcons
<1>2. UNCHANGED <<stored, list, linksStored, seen, upload, bySurprise,
                  linkChanges, linkSaves>>
  BY Zenon DEF RemoveIcons
<1>3. NoLinkSave.at = "none" BY DEF NoLinkSave
<1>4. iconFiles' \subseteq Icons BY <1>1 DEF LinksTypeOK
<1>5. LinksTypeOK' BY <1>1, <1>2, <1>4, Zenon DEF LinksTypeOK
<1>6. ASSUME NEW icon \in Icons, IsKept(icon)' PROVE IsKept(icon)
  <2>1. CASE \E q \in LinkPages :
               /\ linkSave'[q].at \in {"sent", "judged"}
               /\ linkSave'[q].from = linksStored'
               /\ icon \in IconsOf(linkSave'[q].rows)
    <3>1. PICK q \in LinkPages :
            /\ linkSave'[q].at \in {"sent", "judged"}
            /\ linkSave'[q].from = linksStored
            /\ icon \in IconsOf(linkSave'[q].rows)
      BY <2>1, <1>2, Zenon
    <3>2. q # p BY <3>1, <1>1, <1>3
    <3> QED BY <3>1, <3>2, <1>1, Zenon DEF IsKept
  <2> QED BY <1>6, <1>2, <2>1, Zenon DEF IsKept
<1>7. KeptHaveTheirFile'
  <2> SUFFICES ASSUME ~bySurprise, NEW i \in Icons, IsKept(i)'
               PROVE  /\ i \in iconFiles'
                      /\ \A q \in LinkPages :
                           linkSave'[q].at = "stored" =>
                             i \notin ReplacedIcons(linkSave'[q])
    BY <1>2, Zenon DEF KeptHaveTheirFile, ReplacedIcons
  <2>1. IsKept(i) BY <1>6
  <2>2. linkSave[p].at = "stored" BY Zenon DEF RemoveIcons
  <2>3. i \in iconFiles' BY <2>1, <2>2, <1>1 DEF KeptHaveTheirFile
  <2>4. ASSUME NEW q \in LinkPages, linkSave'[q].at = "stored"
        PROVE  i \notin ReplacedIcons(linkSave'[q])
    <3>1. q # p BY <2>4, <1>1, <1>3
    <3> QED BY <3>1, <2>1, <2>4, <1>1, Zenon DEF KeptHaveTheirFile
  <2> QED BY <2>3, <2>4
<1>8. UploadsAreNew'
  <2> SUFFICES ASSUME NEW q \in LinkPages, upload[q] # NoUpload,
                      NEW r \in LinkPages, linkSave'[r] # NoLinkSave
               PROVE  /\ upload[q].icon \notin IconsOf(linkSave'[r].rows)
                      /\ upload[q].icon \notin IconsOf(linkSave'[r].previous)
    BY <1>2, Zenon DEF UploadsAreNew
  <2> QED BY <1>1, Zenon DEF UploadsAreNew
<1>9. ListsAreOlder' BY <1>1, <1>2, Zenon DEF ListsAreOlder
<1>10. UploadsKnowTheirRow' BY <1>2, Zenon DEF UploadsKnowTheirRow
<1> QED BY <1>5, <1>7, <1>8, <1>9, <1>10

LEMMA IconDropped ==
  ASSUME LinksInv, NEW icon \in Icons, DropIcon(icon)
  PROVE  LinksInv'
<1> USE DEF LinksInv
<1>1. bySurprise' /\ bySurprise' \in BOOLEAN /\ iconFiles' \subseteq Icons
  BY DEF DropIcon, LinksTypeOK
<1>2. UNCHANGED <<stored, list, linksStored, seen, upload, linkSave, linkChanges,
                  linkSaves>>
  BY Zenon DEF DropIcon
<1>3. LinksTypeOK' BY <1>1, <1>2, Zenon DEF LinksTypeOK
<1>4. KeptHaveTheirFile' BY <1>1, Zenon DEF KeptHaveTheirFile
<1>5. UploadsAreNew' BY <1>2, Zenon DEF UploadsAreNew
<1>6. ListsAreOlder' BY <1>2, Zenon DEF ListsAreOlder
<1>7. UploadsKnowTheirRow' BY <1>2, Zenon DEF UploadsKnowTheirRow
<1> QED BY <1>3, <1>4, <1>5, <1>6, <1>7

LEMMA LinksInvInit == LinksInit => LinksInv
<1> SUFFICES ASSUME LinksInit PROVE LinksInv OBVIOUS
<1>1. stored = <<>> /\ stored \in Lists /\ IconsOf(<<>>) = {} /\ <<>> \in Lists
  BY EmptyList, Zenon DEF LinksInit
<1>2. ASSUME NEW p \in LinkPages
      PROVE  /\ list[p] = <<>> /\ seen[p] = 0 /\ upload[p] = NoUpload
             /\ linkSave[p] = NoLinkSave /\ linkSave[p].at = "none"
  <2>1. NoLinkSave.at = "none" BY DEF NoLinkSave
  <2> QED BY <2>1, Zenon DEF LinksInit
<1>3. 0 \in Nat /\ 0 <= 0 /\ FALSE \in BOOLEAN /\ "none" \notin {"sent", "judged"}
      /\ "none" # "stored"
  OBVIOUS
<1>4. LinksTypeOK
  <2>1. list \in [LinkPages -> Lists] BY <1>1, Zenon DEF LinksInit
  <2>2. seen \in [LinkPages -> Nat] BY <1>3, Zenon DEF LinksInit
  <2>3. upload \in [LinkPages -> {NoUpload} \cup Upload] BY Zenon DEF LinksInit
  <2>4. linkSave \in [LinkPages -> {NoLinkSave} \cup LinkSave]
    BY Zenon DEF LinksInit
  <2>5. iconFiles \subseteq Icons BY DEF LinksInit
  <2> QED BY <1>1, <1>3, <2>1, <2>2, <2>3, <2>4, <2>5, Zenon
          DEF LinksTypeOK, LinksInit
<1>5. KeptHaveTheirFile
  <2>1. ASSUME NEW i \in Icons PROVE ~IsKept(i)
    BY <1>1, <1>2, <1>3, Zenon DEF IsKept
  <2> QED BY <2>1, Zenon DEF KeptHaveTheirFile
<1>6. UploadsAreNew BY <1>2, Zenon DEF UploadsAreNew
<1>7. ListsAreOlder BY <1>2, <1>3, Zenon DEF ListsAreOlder, LinksInit
<1>8. UploadsKnowTheirRow BY <1>2, Zenon DEF UploadsKnowTheirRow
<1> QED BY <1>4, <1>5, <1>6, <1>7, <1>8 DEF LinksInv

LEMMA LinksInvStep == LinksInv /\ [LinksNext]_linkVars => LinksInv'
<1> SUFFICES ASSUME LinksInv, [LinksNext]_linkVars PROVE LinksInv' OBVIOUS
<1>1. CASE UNCHANGED linkVars
  BY <1>1, Zenon DEF LinksInv, LinksTypeOK, KeptHaveTheirFile, IsKept, ReplacedIcons,
     UploadsAreNew, ListsAreOlder, UploadsKnowTheirRow
<1>2. CASE LinksNext
  BY <1>2, EditedRows, RefreshedRows, IconUploaded, IconPlaced, RowsSent,
     RowsJudged, RowsStored, IconsRemoved, RowsRefused, IconDropped, Zenon
     DEF LinksNext
<1> QED BY <1>1, <1>2

LEMMA LinksInvMeans == LinksInv => LinksTypeOK /\ IconsHaveTheirFile
<1> SUFFICES ASSUME LinksInv PROVE LinksTypeOK /\ IconsHaveTheirFile OBVIOUS
<1>1. ASSUME ~bySurprise, NEW icon \in IconsOf(stored) PROVE icon \in iconFiles
  <2>1. icon \in Icons BY IconsOfLists, Zenon DEF LinksInv, LinksTypeOK
  <2> QED BY <1>1, <2>1, Zenon DEF LinksInv, KeptHaveTheirFile, IsKept
<1> QED BY <1>1, Zenon DEF LinksInv, IconsHaveTheirFile

(* Only placing an icon ends an upload.                                    *)
LEMMA IconsLand == LinksInv /\ [LinksNext]_linkVars => IconLandsOnItsRow
<1> SUFFICES ASSUME LinksInv, [LinksNext]_linkVars, NEW p \in LinkPages,
                    upload[p] # NoUpload, upload'[p] = NoUpload, ~upload[p].moved,
                    NEW n \in DOMAIN list[p]
             PROVE  list'[p][n].icon =
                      IF list[p][n].title = upload[p].title
                        THEN upload[p].icon ELSE list[p][n].icon
  BY Zenon DEF IconLandsOnItsRow
<1>1. ASSUME NEW q \in LinkPages, NEW rows, NEW moves, Show(q, rows, moves)
      PROVE  FALSE
  <2>1. upload' = upload \/ upload' = [upload EXCEPT ![q] = [upload[q] EXCEPT !.moved = TRUE]]
    BY <1>1, Zenon DEF Show
  <2>2. upload'[p] = upload[p] \/ (q = p /\ upload'[p] = [upload[p] EXCEPT !.moved = TRUE])
    BY <2>1, Zenon DEF LinksInv, LinksTypeOK
  <2>3. upload[p] \in Upload BY LinkPage, Zenon DEF LinksInv
  <2>4. [upload[p] EXCEPT !.moved = TRUE] # NoUpload BY <2>3 DEF Upload, NoUpload
  <2> QED BY <2>2, <2>4, Zenon
<1>2. \A q \in LinkPages : ~EditRows(q) /\ ~RefreshRows(q)
  BY <1>1, Zenon DEF EditRows, RefreshRows
<1>3. ASSUME NEW q \in LinkPages, UploadIcon(q) PROVE FALSE
  <2>1. q # p BY <1>3, Zenon DEF UploadIcon
  <2>2. upload'[p] = upload[p] BY <1>3, <2>1, Zenon DEF UploadIcon, LinksInv, LinksTypeOK
  <2> QED BY <2>2
<1>4. \A q \in LinkPages : /\ ~SaveRows(q) /\ ~JudgeRows(q) /\ ~StoreRows(q)
                           /\ ~RemoveIcons(q) /\ ~RefuseRows(q)
  BY Zenon DEF SaveRows, JudgeRows, StoreRows, RemoveIcons, RefuseRows
<1>5. \A icon \in Icons : ~DropIcon(icon) BY Zenon DEF DropIcon
<1>6. upload' # upload BY Zenon
<1>7. PICK q \in LinkPages : PlaceIcon(q)
  BY <1>2, <1>3, <1>4, <1>5, <1>6, Zenon DEF LinksNext
<1>8. q = p
  <2>1. upload' = [upload EXCEPT ![q] = NoUpload] BY <1>7, Zenon DEF PlaceIcon
  <2> QED BY <2>1, Zenon DEF LinksInv, LinksTypeOK
<1>9. list'[p][n].icon = IF n = upload[p].index THEN upload[p].icon
                         ELSE list[p][n].icon
  BY <1>7, <1>8, IconPlaced, Zenon
<1>10. n = upload[p].index <=> list[p][n].title = upload[p].title
  <2>1. /\ upload[p].index \in DOMAIN list[p]
        /\ list[p][upload[p].index].title = upload[p].title
    BY Zenon DEF LinksInv, UploadsKnowTheirRow
  <2>2. list[p] \in Lists BY Zenon DEF LinksInv, LinksTypeOK
  <2>3. list[p][n].title = list[p][upload[p].index].title => n = upload[p].index
    BY <2>1, <2>2, Zenon DEF Lists
  <2> QED BY <2>1, <2>3, Zenon
<1> QED BY <1>9, <1>10, Zenon

USE DEF extVars

-----------------------------------------------------------------------------
(* No more requests were let through than were counted, and none over the  *)
(* limit; requests carry a time that has been.                             *)
GrantsAreCounted ==
  /\ \A s \in Scopes :
       /\ granted[s] <= Limit
       /\ granted[s] <= IF meter[s] = NoExt THEN 0 ELSE meter[s].count
  /\ \A r \in ExtCalls : extCall[r] # NoExt => extCall[r].now <= clock

(* What the queries of a request c found out about the people whose rows   *)
(* stayed as they were: no super administrator among them, all who could   *)
(* sign still to be asked, and one who can sign chosen.                    *)
JudgedWell(c, still) ==
  /\ c.at = "listing" => \A w \in still : people[w].role # "super"
  /\ c.at = "asking" =>
       \A w \in still : /\ CanSign(w, c.queue) => w \in c.left
                        /\ w \in c.left => people[w].role = "admin"
  /\ c.at = "signing" =>
       /\ c.author \in Signers
       /\ c.author \in still =>
            /\ people[c.author].role = c.role /\ c.role # "gone"
            /\ c.op # "signed" => CanSign(c.author, c.queue)
  /\ c.at = "act" /\ c.op \in Note /\ c.author \in still => CanSign(c.author, c.queue)
AuthorsAreJudged ==
  \A r \in ExtCalls : extCall[r] # NoExt => JudgedWell(extCall[r], steady[r])

ExtInv == ExtTypeOK /\ GrantsAreCounted /\ AuthorsAreJudged

LEMMA ExtInvInit == ExtInit => ExtInv
BY ExtAssumption
DEF ExtInit, ExtInv, ExtTypeOK, GrantsAreCounted, AuthorsAreJudged, Access, Scopes, Person, Roles

(* The handlers that do not count: one request goes on or ends.            *)
LEMMA ExtCallStep ==
  ASSUME ExtInv, NEW r \in ExtCalls, NEW call \in ExtCall \cup {NoExt},
         NEW still \in SUBSET Signers,
         call # NoExt => call.now <= clock /\ JudgedWell(call, still),
         extCall' = [extCall EXCEPT ![r] = call], steady' = [steady EXCEPT ![r] = still],
         UNCHANGED <<clock, isOn, access, meter, granted, people, ticketAt, extChanges>>
  PROVE  ExtInv'
<1>1. ExtTypeOK' /\ GrantsAreCounted'
  BY DEF ExtInv, ExtTypeOK, GrantsAreCounted
<1>2. \A c, known : JudgedWell(c, known)' <=> JudgedWell(c, known)
  BY DEF JudgedWell, CanSign, Sees
<1>3. ASSUME NEW p \in ExtCalls, extCall'[p] # NoExt
      PROVE  JudgedWell(extCall'[p], steady'[p])
  BY <1>3 DEF ExtInv, ExtTypeOK, AuthorsAreJudged
<1>4. AuthorsAreJudged'
  BY <1>3 DEF AuthorsAreJudged, JudgedWell, CanSign, Sees
<1> QED
  BY <1>1, <1>4 DEF ExtInv

(* A step that ends no request that is finding out who signs a note.       *)
LEMMA NoneRefused ==
  ASSUME ExtInv, NEW r \in ExtCalls, NEW call, extCall' = [extCall EXCEPT ![r] = call],
         \/ call # NoExt
         \/ extCall[r] = NoExt
         \/ extCall[r].at \notin {"author", "listing", "asking", "signing"}
         \/ extCall[r].op # "note"
  PROVE  \A p \in ExtCalls : ~Refused(p)
BY DEF ExtInv, ExtTypeOK, Refused

LEMMA ConsumeStep ==
  ASSUME ExtInv, NEW r \in ExtCalls, Consume(r)
  PROVE  ExtInv' /\ ClientsAreServed
<1>1. extCall[r] \in ExtCall /\ extCall[r].at = "counting"
  BY DEF Consume, ExtIs, ExtInv, ExtTypeOK
<1>2. PICK s \in Scopes : s = extCall[r].scope
  BY <1>1 DEF ExtCall
<1>3. PICK now \in Nat : now = extCall[r].now /\ now <= clock
  BY <1>1, ExtAssumption DEF ExtCall, ExtInv, GrantsAreCounted
<1> DEFINE old == meter[s]
           row == IF old = NoExt THEN [count |-> 1, expires |-> now + Window]
                  ELSE CountedBy(old, now)
           allowed == row.count <= Limit
           more == (IF old # NoExt /\ row.expires = old.expires THEN granted[s] ELSE 0)
                     + (IF allowed THEN 1 ELSE 0)
           call == IF allowed /\ s # "failure"
                   THEN [extCall[r] EXCEPT !.at = "judging", !.now = 0] ELSE NoExt
<1>4. /\ meter' = [meter EXCEPT ![s] = row]
      /\ granted' = [granted EXCEPT ![s] = more]
      /\ extCall' = [extCall EXCEPT ![r] = call]
      /\ UNCHANGED <<clock, isOn, access, people, ticketAt, steady, extCalls, extChanges>>
  BY <1>2, <1>3 DEF Consume, AroundExt
<1>5. meter \in [Scopes -> Meter \cup {NoExt}] /\ granted \in [Scopes -> Nat] /\ clock \in Nat
  BY ExtAssumption DEF ExtInv, ExtTypeOK
<1>6. call \in ExtCall \cup {NoExt} /\ (call # NoExt => call.now = 0 /\ call.at = "judging")
  BY <1>1 DEF ExtCall
<1>7. /\ row \in Meter
      /\ old # NoExt => \/ row.expires = old.expires /\ row.count = old.count + 1
                        \/ old.expires <= now /\ row.count = 1 /\ row.expires # old.expires
      /\ old = NoExt => row.count = 1
  BY <1>5, ExtAssumption DEF Meter, CountedBy
<1>8. more \in Nat /\ more <= row.count /\ more <= Limit
  <2>1. granted[s] \in Nat /\ granted[s] <= Limit /\ (old # NoExt => granted[s] <= old.count /\ old.count \in Nat)
    BY <1>5 DEF ExtInv, GrantsAreCounted, Meter
  <2>2. Limit \in Nat /\ row.count \in Nat \ {0}
    BY <1>7, ExtAssumption DEF Meter
  <2> HIDE DEF row, old
  <2> QED
    BY <1>7, <2>1, <2>2
<1> HIDE DEF more, call, row
<1>9. ExtTypeOK'
  BY <1>4, <1>5, <1>6, <1>7, <1>8 DEF ExtInv, ExtTypeOK
<1>10. GrantsAreCounted'
  <2>1. row # NoExt
    BY <1>7, ExtAssumption
  <2> QED
    BY <1>4, <1>5, <1>6, <1>7, <1>8, <2>1 DEF ExtInv, ExtTypeOK, GrantsAreCounted
<1>11. \A q \in Scopes :
         meter[q] # NoExt => meter'[q].expires = meter[q].expires \/ meter[q].expires <= clock
  <2>1. old # NoExt => old.expires \in Nat
    BY <1>5 DEF Meter
  <2> QED
    BY <1>3, <1>4, <1>5, <1>7, <2>1
<1>12. \A p \in ExtCalls : ~Refused(p)
  BY <1>1, <1>4 DEF Refused, ExtInv, ExtTypeOK
<1>13. AuthorsAreJudged'
  <2>1. ASSUME NEW p \in ExtCalls, extCall'[p] # NoExt
        PROVE  JudgedWell(extCall'[p], steady'[p])
    <3>1. CASE p = r
      BY <1>1, <1>4, <1>6, <2>1, <3>1 DEF ExtInv, ExtTypeOK, JudgedWell
    <3>2. CASE p # r
      BY <1>4, <2>1, <3>2 DEF ExtInv, ExtTypeOK, AuthorsAreJudged
    <3> QED
      BY <3>1, <3>2
  <2> QED
    BY <1>4, <2>1 DEF AuthorsAreJudged, JudgedWell, CanSign, Sees
<1> QED
  BY <1>9, <1>10, <1>11, <1>12, <1>13 DEF ExtInv, ClientsAreServed

(* Everything that is not counted.                                         *)
LEMMA ExtQuietStep ==
  ASSUME ExtInv, ExtNext, \A r \in ExtCalls : ~Consume(r)
  PROVE  ExtInv' /\ ClientsAreServed
<1>1. /\ ExtTypeOK /\ clock \in Nat /\ extCall \in [ExtCalls -> ExtCall \cup {NoExt}]
      /\ people \in [Signers -> Person] /\ steady \in [ExtCalls -> SUBSET Signers]
  BY ExtAssumption DEF ExtInv, ExtTypeOK
<1> DEFINE Served(r) == Refused(r) => \/ extCall[r].author \in Signers \ steady[r]
                                      \/ \A w \in steady[r] : ~CanSign(w, extCall[r].queue)
<1>2. ASSUME NEW r \in ExtCalls, StartExt(r)
      PROVE  ExtInv' /\ meter' = meter /\ \A p \in ExtCalls : Served(p)
  <2>1. PICK op \in ExtOps :
          extCall' = [extCall EXCEPT ![r] = [at |-> "asked", op |-> op, queues |-> {},
                        scope |-> IF op = "read" THEN "read" ELSE "write",
                        now |-> 0, queue |-> NoExt,
                        left |-> {}, author |-> NoExt, role |-> "gone"]]
    BY <1>2 DEF StartExt
  <2>2. PICK scope \in Scopes : scope = IF op = "read" THEN "read" ELSE "write"
    BY DEF Scopes
  <2> DEFINE call == [at |-> "asked", op |-> op, queues |-> {}, scope |-> scope,
                      now |-> 0, queue |-> NoExt, left |-> {}, author |-> NoExt, role |-> "gone"]
  <2>3. call \in ExtCall /\ call.now = 0 /\ call.at = "asked"
    BY DEF ExtCall, Roles
  <2>4. extCall' = [extCall EXCEPT ![r] = call] /\ extCall[r] = NoExt
    BY <1>2, <2>1, <2>2 DEF StartExt
  <2>5. /\ steady' = [steady EXCEPT ![r] = steady[r]] /\ steady[r] \in SUBSET Signers
        /\ UNCHANGED <<clock, isOn, access, meter, granted, people, ticketAt, extChanges>>
    BY <1>1, <1>2 DEF StartExt, NotCounted
  <2>7. call.now <= clock
    BY <1>1, <2>3
  <2> HIDE DEF call
  <2>8. JudgedWell(call, steady[r])
    BY <2>3 DEF JudgedWell
  <2>6. ExtInv'
    BY <2>3, <2>4, <2>5, <2>7, <2>8, ExtCallStep
  <2> QED
    BY <2>4, <2>5, <2>6, NoneRefused
<1>3. ASSUME NEW r \in ExtCalls, Authenticate(r)
      PROVE  ExtInv' /\ meter' = meter /\ \A p \in ExtCalls : Served(p)
  <2>1. extCall[r] \in ExtCall /\ extCall[r].at = "asked"
    BY <1>1, <1>3 DEF Authenticate, ExtIs
  <2>2. PICK reach \in SUBSET ExtQueues, scope \in Scopes :
          extCall' = [extCall EXCEPT ![r] = [extCall[r] EXCEPT !.queues = reach, !.scope = scope,
                                                               !.now = clock, !.at = "counting"]]
    <3> DEFINE known == access.active /\ (extCall[r].scope = "write" => access.write)
    <3>1. PICK reach \in SUBSET ExtQueues : reach = IF known THEN access.queues ELSE {}
      BY <1>1 DEF ExtTypeOK, Access
    <3>2. PICK scope \in Scopes : scope = IF known THEN extCall[r].scope ELSE "failure"
      BY <2>1 DEF ExtCall, Scopes
    <3> QED
      BY <1>1, <1>3, <3>1, <3>2, ZenonT(60) DEF Authenticate
  <2> DEFINE call == [extCall[r] EXCEPT !.queues = reach, !.scope = scope,
                                        !.now = clock, !.at = "counting"]
  <2>3. call \in ExtCall /\ call.now = clock /\ call.at = "counting"
    BY <1>1, <2>1 DEF ExtCall
  <2>4. extCall' = [extCall EXCEPT ![r] = call]
    BY <2>2
  <2>5. /\ steady' = [steady EXCEPT ![r] = steady[r]] /\ steady[r] \in SUBSET Signers
        /\ UNCHANGED <<clock, isOn, access, meter, granted, people, ticketAt, extChanges>>
    BY <1>1, <1>3 DEF Authenticate, AroundExt, NotCounted
  <2>7. call.now <= clock
    BY <1>1, <2>3
  <2> HIDE DEF call
  <2>8. JudgedWell(call, steady[r])
    BY <2>3 DEF JudgedWell
  <2>6. ExtInv'
    BY <2>3, <2>4, <2>5, <2>7, <2>8, ExtCallStep
  <2> QED
    BY <2>1, <2>4, <2>5, <2>6, NoneRefused
<1>4. ASSUME NEW r \in ExtCalls, JudgeExt(r)
      PROVE  ExtInv' /\ meter' = meter /\ \A p \in ExtCalls : Served(p)
  <2>1. extCall[r] \in ExtCall /\ extCall[r].at = "judging"
    BY <1>1, <1>4 DEF JudgeExt, ExtIs
  <2>2. PICK q \in ExtQueues :
          extCall' = [extCall EXCEPT ![r] =
            IF q \notin extCall[r].queues THEN NoExt
            ELSE [extCall[r] EXCEPT !.queue = q, !.queues = {},
                     !.at = IF extCall[r].op \in Note THEN "author" ELSE "act"]]
    BY <1>1, <1>4 DEF JudgeExt, ExtTypeOK
  <2>3. PICK stage \in {"author", "act"} :
          stage = IF extCall[r].op \in Note THEN "author" ELSE "act"
    OBVIOUS
  <2> DEFINE call == IF q \notin extCall[r].queues THEN NoExt
                     ELSE [extCall[r] EXCEPT !.queue = q, !.queues = {}, !.at = stage]
  <2>4. /\ call \in ExtCall \cup {NoExt}
        /\ call # NoExt => /\ call.now = extCall[r].now /\ call.at \in {"author", "act"}
                           /\ call.at = "act" => call.op \notin Note
    BY <2>1, <2>3 DEF ExtCall
  <2>5. extCall' = [extCall EXCEPT ![r] = call]
    BY <2>2, <2>3
  <2>6. /\ steady' = [steady EXCEPT ![r] = Signers]
        /\ UNCHANGED <<clock, isOn, access, meter, granted, people, ticketAt, extChanges>>
    BY <1>4 DEF JudgeExt, AroundExt, NotCounted
  <2>7. call # NoExt => call.now <= clock
    BY <1>4, <2>1, <2>4, ExtAssumption DEF JudgeExt, ExtIs, ExtInv, GrantsAreCounted
  <2> HIDE DEF call
  <2>9. call # NoExt => JudgedWell(call, Signers)
    BY <2>4 DEF JudgedWell
  <2>8. ExtInv'
    BY <2>4, <2>5, <2>6, <2>7, <2>9, ExtCallStep
  <2> QED
    BY <2>1, <2>5, <2>6, <2>8, NoneRefused
<1>5. ASSUME NEW r \in ExtCalls, ReadAuthor(r)
      PROVE  ExtInv' /\ meter' = meter /\ \A p \in ExtCalls : Served(p)
  <2>1. extCall[r] \in ExtCall /\ extCall[r].at = "author" /\ extCall[r] # NoExt
    BY <1>1, <1>5 DEF ReadAuthor, ExtIs
  <2>2. /\ steady' = [steady EXCEPT ![r] = steady[r]] /\ steady[r] \in SUBSET Signers
        /\ UNCHANGED <<clock, isOn, access, meter, granted, people, ticketAt, extChanges>>
    BY <1>1, <1>5 DEF ReadAuthor, AroundExt, NotCounted
  <2>3. extCall[r].now <= clock
    BY <2>1 DEF ExtInv, GrantsAreCounted
  <2> DEFINE found == IF extCall[r].op = "signed" THEN Signers
                      ELSE {w \in Signers : people[w].role = "super"}
  <2>4. ASSUME NEW w \in found,
               extCall' = [extCall EXCEPT ![r] =
                 IF people[w].role = "gone" THEN NoExt
                 ELSE [extCall[r] EXCEPT !.author = w, !.role = people[w].role, !.at = "signing"]]
        PROVE  ExtInv' /\ meter' = meter /\ \A p \in ExtCalls : Served(p)
    <3>1. w \in Signers /\ people[w].role \in Roles
          /\ (extCall[r].op # "signed" => people[w].role = "super")
      BY <1>1 DEF Person
    <3> DEFINE call == IF people[w].role = "gone" THEN NoExt
                 ELSE [extCall[r] EXCEPT !.author = w, !.role = people[w].role, !.at = "signing"]
    <3>2. /\ call \in ExtCall \cup {NoExt}
          /\ call # NoExt => /\ call.now = extCall[r].now /\ call.at = "signing" /\ call.author = w
                             /\ call.role = people[w].role /\ call.role # "gone"
                             /\ call.op = extCall[r].op
          /\ call = NoExt => extCall[r].op # "note"
      <4>1. PICK role \in Roles : role = people[w].role
        BY <3>1
      <4>2. CASE role = "gone"
        BY <3>1, <4>1, <4>2
      <4>3. CASE role # "gone"
        <5> DEFINE named == [extCall[r] EXCEPT !.author = w, !.role = role, !.at = "signing"]
        <5>1. /\ named \in ExtCall /\ named.now = extCall[r].now /\ named.at = "signing"
              /\ named.author = w /\ named.role = role /\ named.op = extCall[r].op
          BY <2>1, <3>1 DEF ExtCall
        <5>2. call = named
          BY <4>1, <4>3
        <5> HIDE DEF named, call
        <5> QED
          BY <4>1, <4>3, <5>1, <5>2, ExtAssumption
      <4> QED
        BY <4>2, <4>3
    <3>3. extCall' = [extCall EXCEPT ![r] = call]
      BY <2>4
    <3> HIDE DEF call
    <3>4. call # NoExt => JudgedWell(call, steady[r])
      BY <3>1, <3>2 DEF JudgedWell, CanSign, Sees
    <3>5. ExtInv'
      BY <2>2, <2>3, <3>2, <3>3, <3>4, ExtCallStep
    <3> QED
      BY <2>2, <3>2, <3>3, <3>5, NoneRefused
  <2>5. ASSUME found = {}, extCall' = [extCall EXCEPT ![r].at = "listing"]
        PROVE  ExtInv' /\ meter' = meter /\ \A p \in ExtCalls : Served(p)
    <3> DEFINE call == [extCall[r] EXCEPT !.at = "listing"]
    <3>1. /\ call \in ExtCall /\ call.now = extCall[r].now /\ call.at = "listing"
          /\ extCall' = [extCall EXCEPT ![r] = call]
      BY <1>1, <2>1, <2>5 DEF ExtCall
    <3> HIDE DEF call
    <3>2. JudgedWell(call, steady[r])
      BY <2>2, <2>5, <3>1 DEF JudgedWell
    <3>3. call # NoExt
      BY <3>1, ExtAssumption
    <3>4. ExtInv'
      BY <2>2, <2>3, <3>1, <3>2, ExtCallStep
    <3> QED
      BY <2>2, <3>1, <3>3, <3>4, NoneRefused
  <2>6. \/ \E w \in found : extCall' = [extCall EXCEPT ![r] =
                 IF people[w].role = "gone" THEN NoExt
                 ELSE [extCall[r] EXCEPT !.author = w, !.role = people[w].role, !.at = "signing"]]
        \/ found = {} /\ extCall' = [extCall EXCEPT ![r].at = "listing"]
    BY <1>1, <1>5 DEF ReadAuthor
  <2> QED
    BY <2>4, <2>5, <2>6
<1>6. ASSUME NEW r \in ExtCalls, ListAdministrators(r)
      PROVE  ExtInv' /\ meter' = meter /\ \A p \in ExtCalls : Served(p)
  <2>1. extCall[r] \in ExtCall /\ extCall[r].at = "listing" /\ extCall[r] # NoExt
    BY <1>1, <1>6 DEF ListAdministrators, ExtIs
  <2>2. /\ steady' = [steady EXCEPT ![r] = steady[r]] /\ steady[r] \in SUBSET Signers
        /\ UNCHANGED <<clock, isOn, access, meter, granted, people, ticketAt, extChanges>>
    BY <1>1, <1>6 DEF ListAdministrators, AroundExt, NotCounted
  <2>3. extCall[r].now <= clock /\ JudgedWell(extCall[r], steady[r])
    BY <2>1 DEF ExtInv, GrantsAreCounted, AuthorsAreJudged
  <2> DEFINE admins == {w \in Signers : people[w].role = "admin"}
             call == [extCall[r] EXCEPT !.left = admins, !.at = "asking"]
  <2>4. /\ call \in ExtCall /\ call.now = extCall[r].now /\ call.at = "asking" /\ call.left = admins
        /\ extCall' = [extCall EXCEPT ![r] = call]
    BY <1>1, <1>6, <2>1 DEF ExtCall, ListAdministrators
  <2> HIDE DEF call
  <2>5. JudgedWell(call, steady[r])
    BY <1>1, <2>1, <2>2, <2>3, <2>4 DEF JudgedWell, CanSign, Sees, Person, Roles
  <2>6. call # NoExt
    BY <2>4, ExtAssumption
  <2>7. ExtInv'
    BY <2>2, <2>3, <2>4, <2>5, ExtCallStep
  <2> QED
    BY <2>2, <2>4, <2>6, <2>7, NoneRefused
<1>7. ASSUME NEW r \in ExtCalls, AskAdministrator(r)
      PROVE  ExtInv' /\ meter' = meter /\ \A p \in ExtCalls : Served(p)
  <2>1. extCall[r] \in ExtCall /\ extCall[r].at = "asking" /\ extCall[r] # NoExt
    BY <1>1, <1>7 DEF AskAdministrator, ExtIs
  <2>2. /\ steady' = [steady EXCEPT ![r] = steady[r]] /\ steady[r] \in SUBSET Signers
        /\ UNCHANGED <<clock, isOn, access, meter, granted, people, ticketAt, extChanges>>
    BY <1>1, <1>7 DEF AskAdministrator, AroundExt, NotCounted
  <2>3. extCall[r].now <= clock /\ JudgedWell(extCall[r], steady[r])
    BY <2>1 DEF ExtInv, GrantsAreCounted, AuthorsAreJudged
  <2>4. ASSUME NEW w \in extCall[r].left,
               extCall' = [extCall EXCEPT ![r] = Asked(extCall[r], w)]
        PROVE  ExtInv' /\ meter' = meter /\ \A p \in ExtCalls : Served(p)
    <3>1. w \in Signers
      BY <2>1 DEF ExtCall
    <3> DEFINE call == Asked(extCall[r], w)
    <3>2. /\ call \in ExtCall /\ call.now = extCall[r].now /\ call.queue = extCall[r].queue
          /\ IsCandidate(w, extCall[r].queue) =>
               call.at = "signing" /\ call.author = w /\ call.role = "admin"
          /\ ~IsCandidate(w, extCall[r].queue) =>
               call.at = "asking" /\ call.left = extCall[r].left \ {w}
      BY <2>1, <3>1 DEF Asked, ExtCall, Roles
    <3>3. extCall' = [extCall EXCEPT ![r] = call]
      BY <2>4
    <3> HIDE DEF call
    <3>4. JudgedWell(call, steady[r])
      <4>1. CASE IsCandidate(w, extCall[r].queue)
        BY <2>1, <2>3, <3>1, <3>2, <4>1 DEF JudgedWell, CanSign, Sees, IsCandidate
      <4>2. CASE ~IsCandidate(w, extCall[r].queue)
        BY <2>1, <2>3, <3>1, <3>2, <4>2 DEF JudgedWell, CanSign, Sees, IsCandidate
      <4> QED
        BY <4>1, <4>2
    <3>5. call # NoExt
      BY <3>2, ExtAssumption
    <3>6. ExtInv'
      BY <2>2, <2>3, <3>2, <3>3, <3>4, ExtCallStep
    <3> QED
      BY <2>2, <3>3, <3>5, <3>6, NoneRefused
  <2>5. ASSUME extCall[r].left = {}, extCall' = [extCall EXCEPT ![r] = NoExt]
        PROVE  ExtInv' /\ meter' = meter /\ \A p \in ExtCalls : Served(p)
    <3>1. ExtInv'
      BY <2>2, <2>5, ExtCallStep
    <3>2. \A w \in steady[r] : ~CanSign(w, extCall[r].queue)
      BY <2>1, <2>3, <2>5 DEF JudgedWell
    <3>3. \A p \in ExtCalls : p # r => ~Refused(p)
      BY <1>1, <2>5 DEF Refused
    <3> QED
      BY <2>2, <3>1, <3>2, <3>3
  <2>6. \/ \E w \in extCall[r].left : extCall' = [extCall EXCEPT ![r] = Asked(extCall[r], w)]
        \/ extCall[r].left = {} /\ extCall' = [extCall EXCEPT ![r] = NoExt]
    BY <1>1, <1>7 DEF AskAdministrator
  <2> QED
    BY <2>4, <2>5, <2>6
<1>8. ASSUME NEW r \in ExtCalls, SignNote(r)
      PROVE  ExtInv' /\ meter' = meter /\ \A p \in ExtCalls : Served(p)
  <2>1. extCall[r] \in ExtCall /\ extCall[r].at = "signing" /\ extCall[r] # NoExt
    BY <1>1, <1>8 DEF SignNote, ExtIs
  <2>2. /\ steady' = [steady EXCEPT ![r] = steady[r]] /\ steady[r] \in SUBSET Signers
        /\ UNCHANGED <<clock, isOn, access, meter, granted, people, ticketAt, extChanges>>
    BY <1>1, <1>8 DEF SignNote, AroundExt, NotCounted
  <2>3. extCall[r].now <= clock /\ JudgedWell(extCall[r], steady[r])
    BY <2>1 DEF ExtInv, GrantsAreCounted, AuthorsAreJudged
  <2> DEFINE ok == Sees(extCall[r].author, extCall[r].role, extCall[r].queue)
             call == IF ok THEN [extCall[r] EXCEPT !.at = "act"] ELSE NoExt
  <2>4. /\ call \in ExtCall \cup {NoExt}
        /\ ok => /\ call.now = extCall[r].now /\ call.at = "act" /\ call.author = extCall[r].author
                  /\ call.queue = extCall[r].queue /\ call # NoExt
        /\ ~ok => call = NoExt
    BY <2>1, ExtAssumption DEF ExtCall
  <2>5. extCall' = [extCall EXCEPT ![r] = call]
    BY <1>1, <1>8 DEF SignNote
  <2> HIDE DEF call
  <2>6. call # NoExt => JudgedWell(call, steady[r])
    BY <2>1, <2>3, <2>4 DEF JudgedWell, CanSign, Sees
  <2>7. ExtInv'
    BY <2>2, <2>3, <2>4, <2>5, <2>6, ExtCallStep
  <2>8. ASSUME ~ok, extCall[r].op = "note" PROVE extCall[r].author \in Signers \ steady[r]
    BY <2>1, <2>3, <2>8 DEF JudgedWell, CanSign, Sees
  <2>9. \A p \in ExtCalls : p # r => ~Refused(p)
    BY <1>1, <2>5 DEF Refused
  <2>10. Served(r)
    BY <1>1, <2>4, <2>5, <2>8 DEF Refused
  <2> QED
    BY <2>2, <2>7, <2>9, <2>10
<1>9. ASSUME NEW r \in ExtCalls, FinishExt(r)
      PROVE  ExtInv' /\ meter' = meter /\ \A p \in ExtCalls : Served(p)
  <2>1. /\ extCall[r].at = "act" /\ extCall' = [extCall EXCEPT ![r] = NoExt]
        /\ steady' = [steady EXCEPT ![r] = steady[r]] /\ steady[r] \in SUBSET Signers
        /\ UNCHANGED <<clock, isOn, access, meter, granted, people, ticketAt, extChanges>>
    BY <1>1, <1>9 DEF FinishExt, ExtIs, AroundExt, NotCounted
  <2>2. ExtInv'
    BY <2>1, ExtCallStep
  <2> QED
    BY <2>1, <2>2, NoneRefused
<1>10. CASE Tick
  <2>1. clock' = clock + 1 /\ clock < LastInstant
        /\ UNCHANGED <<isOn, access, meter, granted, people, ticketAt, extCall, steady>>
    BY <1>10 DEF Tick, NotCounted
  <2>2. \A r \in ExtCalls : extCall[r] # NoExt => extCall[r].now \in Nat
    BY <1>1 DEF ExtCall
  <2>3. ExtTypeOK' /\ GrantsAreCounted'
    BY <1>1, <2>1, <2>2, ExtAssumption DEF ExtInv, ExtTypeOK, GrantsAreCounted
  <2>4. AuthorsAreJudged'
    BY <2>1 DEF ExtInv, AuthorsAreJudged, JudgedWell, CanSign, Sees
  <2> QED
    BY <2>1, <2>3, <2>4 DEF ExtInv, ClientsAreServed, Refused
<1>11. CASE ElsewhereInExt
  <2>1. UNCHANGED <<clock, meter, granted, extCall>>
    BY <1>11 DEF ElsewhereInExt, NotCounted
  <2>2. access' \in Access /\ ticketAt' \in ExtQueues
    <3>1. access \in Access /\ ticketAt \in ExtQueues
      BY <1>1 DEF ExtTypeOK
    <3>2. /\ [access EXCEPT !.active = ~@] \in Access /\ [access EXCEPT !.write = ~@] \in Access
          /\ \A q \in ExtQueues : [access EXCEPT !.queues = @ \ {q}] \in Access
      BY <3>1 DEF Access
    <3>3. access' \in Access
      <4>1. CASE access' = access
        BY <3>1, <4>1
      <4>2. CASE \E a \in {[access EXCEPT !.active = ~@], [access EXCEPT !.write = ~@]}
                        \cup {[access EXCEPT !.queues = @ \ {q}] : q \in ExtQueues} : access' = a
        BY <3>2, <4>2
      <4> QED
        BY Zenon, <1>11, <4>1, <4>2 DEF ElsewhereInExt
    <3>4. ticketAt' \in ExtQueues
      BY Zenon, <1>11, <3>1 DEF ElsewhereInExt
    <3> QED
      BY <3>3, <3>4
  <2>3. /\ people' \in [Signers -> Person] /\ steady' \in [ExtCalls -> SUBSET Signers]
        /\ \A r \in ExtCalls : steady'[r] \subseteq steady[r]
        /\ \A r \in ExtCalls : \A w \in steady'[r] : people'[w] = people[w]
    <3>1. CASE UNCHANGED <<people, steady>>
      BY <1>1, <3>1
    <3>2. ASSUME NEW w \in Signers,
                 \/ \E role \in Roles : people' = [people EXCEPT ![w].role = role]
                 \/ \E q \in ExtQueues : people' = [people EXCEPT ![w].queues = @ \ {q}],
                 steady' = [r \in ExtCalls |-> steady[r] \ {w}]
          PROVE  <2>3!1
      <4>1. PICK person \in Person : people' = [people EXCEPT ![w] = person]
        <5>1. people[w] \in Person
          BY <1>1
        <5>2. ASSUME NEW role \in Roles, people' = [people EXCEPT ![w].role = role]
              PROVE  \E person \in Person : people' = [people EXCEPT ![w] = person]
          <6>1. [people[w] EXCEPT !.role = role] \in Person
            BY <5>1 DEF Person
          <6> QED
            BY <1>1, <5>2, <6>1
        <5>3. ASSUME NEW q \in ExtQueues, people' = [people EXCEPT ![w].queues = @ \ {q}]
              PROVE  \E person \in Person : people' = [people EXCEPT ![w] = person]
          <6>1. [people[w] EXCEPT !.queues = @ \ {q}] \in Person
            BY <5>1 DEF Person
          <6> QED
            BY <1>1, <5>3, <6>1
        <5> QED
          BY <3>2, <5>2, <5>3
      <4> QED
        BY <1>1, <3>2, <4>1
    <3> QED
      <4>1. \/ UNCHANGED <<people, steady>>
            \/ \E w \in Signers :
                 /\ \/ \E role \in Roles : people' = [people EXCEPT ![w].role = role]
                    \/ \E q \in ExtQueues : people' = [people EXCEPT ![w].queues = @ \ {q}]
                 /\ steady' = [r \in ExtCalls |-> steady[r] \ {w}]
        BY <1>11 DEF ElsewhereInExt
      <4> QED
        BY <3>1, <3>2, <4>1
  <2>4. ExtTypeOK' /\ GrantsAreCounted'
    BY <2>1, <2>2, <2>3 DEF ExtInv, ExtTypeOK, GrantsAreCounted
  <2>5. ASSUME NEW r \in ExtCalls, extCall'[r] # NoExt
        PROVE  JudgedWell(extCall[r], steady[r])' 
    <3>1. JudgedWell(extCall[r], steady[r]) /\ extCall'[r] = extCall[r]
      BY <2>1, <2>5 DEF ExtInv, AuthorsAreJudged
    <3>2. \A w \in steady'[r], q \in ExtQueues \cup {NoExt} : CanSign(w, q)' <=> CanSign(w, q)
      BY <2>3 DEF CanSign, Sees
    <3>3. extCall[r].queue \in ExtQueues \cup {NoExt} /\ steady'[r] \subseteq steady[r]
      BY <1>1, <2>1, <2>3, <2>5 DEF ExtCall
    <3> QED
      BY <2>3, <3>1, <3>2, <3>3 DEF JudgedWell
  <2>6. AuthorsAreJudged'
    BY <2>5 DEF AuthorsAreJudged
  <2> QED
    BY <2>1, <2>4, <2>6 DEF ExtInv, ClientsAreServed, Refused
<1> QED
  BY <1>2, <1>3, <1>4, <1>5, <1>6, <1>7, <1>8, <1>9, <1>10, <1>11 DEF ExtNext, ClientsAreServed

LEMMA ExtInvStep == ExtInv /\ [ExtNext]_extVars => ExtInv'
<1>1. ExtInv /\ UNCHANGED extVars => ExtInv'
  BY DEF ExtInv, ExtTypeOK, GrantsAreCounted, AuthorsAreJudged, JudgedWell, CanSign, Sees
<1> QED
  BY <1>1, ConsumeStep, ExtQuietStep

LEMMA ExtInvMeans == ExtInv => ExtTypeOK /\ LimitHolds /\ SignersSee
BY DEF ExtInv, GrantsAreCounted, LimitHolds, SignersSee, AuthorsAreJudged, JudgedWell, ExtIs

LEMMA ExtServes == ExtInv /\ [ExtNext]_extVars => ClientsAreServed
<1>1. UNCHANGED extVars => ClientsAreServed
  BY DEF ClientsAreServed, Refused
<1> QED
  BY <1>1, ConsumeStep, ExtQuietStep

USE DEF secretVars

-----------------------------------------------------------------------------
(* Secrets at rest.  What is stored was sealed at most once, with a key    *)
(* that was given by then; what a migration or a delivery is about to seal *)
(* is plain.                                                               *)
SealedOnce ==
  /\ \A r \in SecretRows : secretRow[r].layers <= 1 /\ secretRow[r].key <= sealKey
  /\ \A t \in Tasks : TaskIs(t, "read") /\ task[t].op # "rotate" => task[t].read.layers = 0

(* Rotates the signing secret.                                             *)
RotatesHook(t) == task[t] # NoTask /\ task[t].op = "rotate" /\ task[t].row = "hook"

(* Only such a request is answered; unless rotations overlapped there is   *)
(* one of them, and its answer is the secret that was given last.          *)
RotationsAreAlone ==
  /\ \A t \in Tasks : TaskIs(t, "answer") => RotatesHook(t) /\ task[t].new \in Nat
  /\ ~replacedAny["hook"] =>
       /\ \A t, u \in Tasks : RotatesHook(t) /\ RotatesHook(u) => t = u
       /\ \A t \in Tasks : TaskIs(t, "answer") => task[t].new = given["hook"]

(* What is stored is what was given, and what is shown likewise, until a   *)
(* new secret is on its way to the tab, or its answer was lost.            *)
GivenIsStored == \A r \in SecretRows : replacedAny[r] \/ secretRow[r].secret = given[r]
ShownIsGiven ==
  \/ shownSecret = NoTask \/ replacedAny["hook"]
  \/ \E t \in Tasks : TaskIs(t, "answer")
  \/ shownSecret = given["hook"] \/ given["hook"] = unheard

SecretsInv ==
  SecretsTypeOK /\ SealedOnce /\ RotationsAreAlone /\ GivenIsStored /\ ShownIsGiven

LEMMA SecretsInvInit == SecretsInit => SecretsInv
BY SecretsAssumption
DEF SecretsInit, SecretsInv, SecretsTypeOK, SealedOnce, RotationsAreAlone, GivenIsStored,
    ShownIsGiven, Envelope, Plain, TaskIs, RotatesHook

LEMMA SecretsInvMeans == SecretsInv => SecretsTypeOK /\ SecretsAreKept
<1> SUFFICES ASSUME SecretsInv PROVE SecretsAreKept
  BY DEF SecretsInv
<1>1. ASSUME NEW r \in SecretRows
      PROVE  Readable(secretRow[r]) \/ sealKey > secretRow[r].key + 1
  <2>1. secretRow[r].layers \in Nat /\ secretRow[r].key \in Nat /\ sealKey \in Nat
        /\ secretRow[r].layers <= 1 /\ secretRow[r].key <= sealKey
    BY DEF SecretsInv, SecretsTypeOK, SealedOnce, Envelope
  <2> QED
    BY <2>1 DEF Readable, KeysTried
<1>2. shownSecret # NoTask /\ ~replacedAny["hook"] /\ ~Rotating =>
        shownSecret = given["hook"] \/ given["hook"] = unheard
  BY DEF SecretsInv, ShownIsGiven, RotationsAreAlone, RotatesHook, Rotating
<1> QED
  BY <1>1, <1>2 DEF SecretsAreKept, SecretsInv, GivenIsStored

(* A task that ends or goes on, with the rows as they are.                 *)
LEMMA TaskMoves ==
  ASSUME SecretsInv, NEW t \in Tasks, NEW to \in Task \cup {NoTask},
         task[t] # NoTask, task[t].at \in {"sent", "read"},
         task' = [task EXCEPT ![t] = to],
         to # NoTask => /\ to.at = "read" /\ to.op = task[t].op /\ to.row = task[t].row
                        /\ to.op # "rotate" => to.read.layers = 0,
         UNCHANGED <<secretRow, given, sealKey, shownSecret, replacedAny, unheard, secrets>>
  PROVE  SecretsInv'
<1>1. task \in [Tasks -> Task \cup {NoTask}] /\ SecretsTypeOK'
  BY DEF SecretsInv, SecretsTypeOK
<1>2. \A u \in Tasks : TaskIs(u, "answer")' <=> TaskIs(u, "answer")
  BY <1>1 DEF TaskIs
<1>3. \A u \in Tasks : RotatesHook(u)' => RotatesHook(u)
  BY <1>1 DEF RotatesHook
<1>4. \A u \in Tasks : TaskIs(u, "answer") => task'[u] = task[u]
  BY <1>1 DEF TaskIs
<1>5. SealedOnce'
  BY <1>1 DEF SecretsInv, SealedOnce, TaskIs
<1>6. RotationsAreAlone'
  BY <1>2, <1>3, <1>4 DEF SecretsInv, RotationsAreAlone, RotatesHook
<1>7. ShownIsGiven' /\ GivenIsStored'
  BY <1>2 DEF SecretsInv, ShownIsGiven, GivenIsStored
<1> QED
  BY <1>1, <1>5, <1>6, <1>7 DEF SecretsInv

LEMMA SecretsStartStep ==
  ASSUME SecretsInv, NEW t \in Tasks, StartTask(t)
  PROVE  SecretsInv'
<1>1. PICK r \in SecretRows, op \in {"rotate", "migrate", "deliver"} :
        /\ task' = [task EXCEPT ![t] =
             [at |-> "sent", op |-> op, row |-> r, read |-> Plain(0), new |-> NoTask]]
        /\ replacedAny' = [replacedAny EXCEPT ![r] =
             @ \/ (op = "rotate" /\ r = "hook" /\ Rotating)]
  BY DEF StartTask
<1> DEFINE new == [at |-> "sent", op |-> op, row |-> r, read |-> Plain(0), new |-> NoTask]
<1>2. new \in Task /\ new # NoTask /\ new.at = "sent" /\ new.op = op /\ new.row = r
  BY SecretsAssumption DEF Task, Plain, Envelope
<1>3. /\ task[t] = NoTask /\ task' = [task EXCEPT ![t] = new]
      /\ UNCHANGED <<secretRow, given, sealKey, shownSecret, unheard, secrets>>
  BY <1>1 DEF StartTask
<1>4. task \in [Tasks -> Task \cup {NoTask}] /\ replacedAny \in [SecretRows -> BOOLEAN]
  BY DEF SecretsInv, SecretsTypeOK
<1> HIDE DEF new
<1>5. replacedAny' \in [SecretRows -> BOOLEAN]
  BY <1>1, <1>4 DEF Rotating
<1>6. \A q \in SecretRows : replacedAny[q] => replacedAny'[q]
  BY <1>1, <1>4
<1>7. r = "hook" /\ op = "rotate" /\ Rotating => replacedAny'["hook"]
  BY <1>1, <1>4 DEF SecretRows
<1>8. SecretsTypeOK'
  BY <1>2, <1>3, <1>4, <1>5 DEF SecretsInv, SecretsTypeOK
<1>9. \A u \in Tasks, stage \in {"read", "answer"} : TaskIs(u, stage)' => TaskIs(u, stage) /\ task'[u] = task[u]
  BY <1>2, <1>3, <1>4 DEF TaskIs
<1>10. \A u \in Tasks : TaskIs(u, "answer") => TaskIs(u, "answer")'
  BY <1>2, <1>3, <1>4 DEF TaskIs
<1>11. SealedOnce'
  BY <1>3, <1>9 DEF SecretsInv, SealedOnce
<1>12. RotationsAreAlone'
  <2>1. \A u \in Tasks : u # t => (RotatesHook(u)' <=> RotatesHook(u))
    BY <1>3, <1>4 DEF RotatesHook
  <2>2. RotatesHook(t)' => op = "rotate" /\ r = "hook"
    BY <1>2, <1>3, <1>4 DEF RotatesHook
  <2>3. \A u \in Tasks : RotatesHook(u) => Rotating
    BY DEF RotatesHook, Rotating
  <2>4. ~RotatesHook(t)
    BY <1>3 DEF RotatesHook
  <2>5. ~replacedAny'["hook"] => \A u, v \in Tasks : RotatesHook(u)' /\ RotatesHook(v)' => u = v
    BY <1>6, <1>7, <2>1, <2>2, <2>3, <2>4 DEF SecretsInv, RotationsAreAlone, SecretRows
  <2>6. \A u \in Tasks : TaskIs(u, "answer")' => RotatesHook(u)' /\ task'[u].new \in Nat
    BY <1>9 DEF SecretsInv, RotationsAreAlone, RotatesHook
  <2>7. ~replacedAny'["hook"] => \A u \in Tasks : TaskIs(u, "answer")' => task'[u].new = given'["hook"]
    BY <1>3, <1>6, <1>9 DEF SecretsInv, RotationsAreAlone, SecretRows
  <2> QED
    BY <2>5, <2>6, <2>7 DEF RotationsAreAlone
<1>13. GivenIsStored' /\ ShownIsGiven'
  BY <1>3, <1>6, <1>10 DEF SecretsInv, GivenIsStored, ShownIsGiven, SecretRows
<1> QED
  BY <1>8, <1>11, <1>12, <1>13 DEF SecretsInv

LEMMA SecretsReadStep ==
  ASSUME SecretsInv, NEW t \in Tasks, ReadSecret(t)
  PROVE  SecretsInv'
<1>1. task[t] \in Task /\ task[t] # NoTask /\ task[t].at = "sent"
  BY DEF SecretsInv, SecretsTypeOK, ReadSecret, TaskIs
<1>2. secretRow[task[t].row] \in Envelope
  BY <1>1 DEF SecretsInv, SecretsTypeOK, Task
<1>3. UNCHANGED <<secretRow, given, sealKey, shownSecret, replacedAny, unheard, secrets>>
  BY DEF ReadSecret
<1>4. CASE task[t].op = "rotate"
  <2> DEFINE to == [task[t] EXCEPT !.at = "read"]
  <2>1. task' = [task EXCEPT ![t] = to]
    BY <1>4 DEF ReadSecret
  <2>2. to \in Task /\ to.at = "read" /\ to.op = task[t].op /\ to.row = task[t].row
    BY <1>1 DEF Task
  <2> HIDE DEF to
  <2> QED
    BY <1>1, <1>3, <1>4, <2>1, <2>2, TaskMoves
<1>5. CASE task[t].op # "rotate" /\ NeedsSealing(secretRow[task[t].row])
  <2> DEFINE to == [task[t] EXCEPT !.at = "read", !.read = secretRow[task[t].row]]
  <2>1. task' = [task EXCEPT ![t] = to]
    BY <1>5 DEF ReadSecret
  <2>2. to \in Task /\ to.at = "read" /\ to.op = task[t].op /\ to.row = task[t].row /\ to.read.layers = 0
    BY <1>1, <1>2, <1>5 DEF Task, NeedsSealing
  <2> HIDE DEF to
  <2> QED
    BY <1>1, <1>3, <2>1, <2>2, TaskMoves
<1>6. CASE task[t].op # "rotate" /\ ~NeedsSealing(secretRow[task[t].row])
  <2>1. task' = [task EXCEPT ![t] = NoTask]
    BY <1>6 DEF ReadSecret
  <2> QED
    BY <1>1, <1>3, <2>1, TaskMoves
<1> QED
  BY <1>4, <1>5, <1>6

(* Sealing gives the secret that is sealed one more layer.                 *)
LEMMA Sealing ==
  ASSUME NEW row \in Envelope, sealKey \in Nat
  PROVE  /\ Seal(row) \in Envelope /\ Seal(row).layers = row.layers + 1
         /\ Seal(row).key = sealKey /\ Seal(row).secret = row.secret
<1> DEFINE n == row.layers + 1
<1>1. n \in Nat /\ Seal(row) = [row EXCEPT !.layers = n, !.key = sealKey]
  BY DEF Envelope, Seal
<1> HIDE DEF n
<1>2. Seal(row) \in Envelope /\ Seal(row).layers = n /\ Seal(row).key = sealKey
      /\ Seal(row).secret = row.secret
  BY <1>1 DEF Envelope
<1> QED
  BY <1>2 DEF n

LEMMA SecretsRotateStep ==
  ASSUME SecretsInv, NEW t \in Tasks, Rotate(t)
  PROVE  SecretsInv'
<1>1. task[t] \in Task /\ task[t] # NoTask /\ task[t].at = "read" /\ task[t].op = "rotate"
  BY DEF SecretsInv, SecretsTypeOK, Rotate, TaskIs
<1>2. PICK r \in SecretRows : r = task[t].row
  BY <1>1 DEF Task
<1>3. secrets \in Nat /\ secrets < MaxSecrets /\ MaxSecrets \in Nat /\ sealKey \in Nat
  BY SecretsAssumption DEF SecretsInv, SecretsTypeOK, Rotate
<1> DEFINE new == secrets + 1
           row == Seal(Plain(new))
           to == IF r = "hook" THEN [task[t] EXCEPT !.at = "answer", !.new = new] ELSE NoTask
<1>4. new \in 0..MaxSecrets /\ new \in Nat
  BY <1>3
<1>5. row \in Envelope /\ row.layers = 1 /\ row.key = sealKey /\ row.secret = new
  <2>1. Plain(new) \in Envelope /\ Plain(new).layers = 0 /\ Plain(new).secret = new
    BY <1>4 DEF Plain, Envelope
  <2> QED
    BY <1>3, <2>1, Sealing
<1>6. /\ to \in Task \cup {NoTask}
      /\ to # NoTask => r = "hook" /\ to.at = "answer" /\ to.new = new /\ to.op = "rotate" /\ to.row = r
      /\ r = "hook" => to # NoTask
  BY <1>1, <1>2, <1>4, SecretsAssumption DEF Task
<1>7. /\ secretRow' = [secretRow EXCEPT ![r] = row] /\ given' = [given EXCEPT ![r] = new]
      /\ task' = [task EXCEPT ![t] = to] /\ secrets' = new
      /\ UNCHANGED <<sealKey, shownSecret, replacedAny, unheard>>
  BY <1>2 DEF Rotate
<1>8. /\ secretRow \in [SecretRows -> Envelope] /\ given \in [SecretRows -> 0..MaxSecrets]
      /\ task \in [Tasks -> Task \cup {NoTask}]
  BY DEF SecretsInv, SecretsTypeOK
<1> HIDE DEF new, row, to
<1>9. SecretsTypeOK'
  BY <1>4, <1>5, <1>6, <1>7, <1>8 DEF SecretsInv, SecretsTypeOK
<1>10. SealedOnce'
  BY <1>3, <1>5, <1>6, <1>7, <1>8 DEF SecretsInv, SealedOnce, TaskIs
<1>11. RotationsAreAlone'
  <2>1. \A u \in Tasks : RotatesHook(u)' => RotatesHook(u)
    BY <1>1, <1>2, <1>6, <1>7, <1>8 DEF RotatesHook
  <2>2. \A u \in Tasks : u # t => task'[u] = task[u]
    BY <1>7, <1>8
  <2>3. task'[t] = to
    BY <1>7, <1>8
  <2>4. \A u \in Tasks : TaskIs(u, "answer")' => RotatesHook(u)' /\ task'[u].new \in Nat
    BY <1>4, <1>6, <2>2, <2>3 DEF SecretsInv, RotationsAreAlone, RotatesHook, TaskIs
  <2>5. r # "hook" => given'["hook"] = given["hook"]
    BY <1>7, <1>8 DEF SecretRows
  <2>6. r = "hook" => given'["hook"] = new /\ RotatesHook(t)
    BY <1>1, <1>2, <1>7, <1>8 DEF SecretRows, RotatesHook
  <2>7. ASSUME ~replacedAny'["hook"], NEW u \in Tasks, TaskIs(u, "answer")'
        PROVE  task'[u].new = given'["hook"]
    <3>1. CASE u = t
      BY <1>6, <2>3, <2>6, <2>7, <3>1 DEF TaskIs
    <3>2. CASE u # t
      <4>1. TaskIs(u, "answer") /\ RotatesHook(u) /\ task[u].new = given["hook"]
        BY <1>7, <2>2, <2>7, <3>2 DEF SecretsInv, RotationsAreAlone, TaskIs
      <4>2. r # "hook"
        BY <1>7, <2>6, <2>7, <3>2, <4>1 DEF SecretsInv, RotationsAreAlone
      <4> QED
        BY <2>2, <2>5, <3>2, <4>1, <4>2
    <3> QED
      BY <3>1, <3>2
  <2> QED
    BY <1>7, <2>1, <2>4, <2>7 DEF SecretsInv, RotationsAreAlone
<1>12. GivenIsStored'
  BY <1>5, <1>7, <1>8 DEF SecretsInv, GivenIsStored
<1>13. ShownIsGiven'
  <2>1. CASE r = "hook"
    BY <1>6, <1>7, <1>8, <2>1 DEF ShownIsGiven, TaskIs
  <2>2. CASE r # "hook"
    <3>1. given'["hook"] = given["hook"]
      BY <1>7, <1>8, <2>2 DEF SecretRows
    <3>2. \A u \in Tasks : TaskIs(u, "answer") => TaskIs(u, "answer")'
      BY <1>1, <1>7, <1>8 DEF TaskIs
    <3> QED
      BY <1>7, <3>1, <3>2 DEF SecretsInv, ShownIsGiven
  <2> QED
    BY <2>1, <2>2
<1> QED
  BY <1>9, <1>10, <1>11, <1>12, <1>13 DEF SecretsInv

(* A row is sealed as it was read, and the task ends.                      *)
LEMMA SealsRow ==
  ASSUME SecretsInv, NEW t \in Tasks, TaskIs(t, "read"), task[t].op # "rotate",
         NEW r \in SecretRows,
         secretRow' = [secretRow EXCEPT ![r] = Seal(task[t].read)],
         replacedAny' \in [SecretRows -> BOOLEAN],
         \A q \in SecretRows : replacedAny[q] => replacedAny'[q],
         ~replacedAny'[r] => secretRow[r] = task[t].read,
         task' = [task EXCEPT ![t] = NoTask],
         UNCHANGED <<given, sealKey, shownSecret, unheard, secrets>>
  PROVE  SecretsInv'
<1>1. task[t] \in Task /\ task[t] # NoTask /\ task[t].at = "read"
  BY DEF SecretsInv, SecretsTypeOK, TaskIs
<1> DEFINE row == Seal(task[t].read)
<1>2. sealKey \in Nat /\ task[t].read \in Envelope /\ task[t].read.layers = 0
  BY <1>1 DEF SecretsInv, SecretsTypeOK, SealedOnce, Task
<1>3. row \in Envelope /\ row.layers = 1 /\ row.key = sealKey /\ row.secret = task[t].read.secret
  BY <1>2, Sealing
<1>4. secretRow' = [secretRow EXCEPT ![r] = row]
  OBVIOUS
<1>5. secretRow \in [SecretRows -> Envelope] /\ task \in [Tasks -> Task \cup {NoTask}]
  BY DEF SecretsInv, SecretsTypeOK
<1> HIDE DEF row
<1>6. SecretsTypeOK'
  BY <1>3, <1>4, <1>5 DEF SecretsInv, SecretsTypeOK
<1>7. SealedOnce'
  BY <1>2, <1>3, <1>4, <1>5 DEF SecretsInv, SealedOnce, TaskIs
<1>8. \A u \in Tasks : /\ TaskIs(u, "answer")' <=> TaskIs(u, "answer")
                       /\ TaskIs(u, "answer") => task'[u] = task[u]
                       /\ RotatesHook(u)' => RotatesHook(u)
  BY <1>1, <1>5 DEF TaskIs, RotatesHook
<1>9. RotationsAreAlone'
  BY <1>8 DEF SecretsInv, RotationsAreAlone, RotatesHook, SecretRows
<1>10. GivenIsStored'
  BY <1>3, <1>4, <1>5 DEF SecretsInv, GivenIsStored
<1>11. ShownIsGiven'
  BY <1>8 DEF SecretsInv, ShownIsGiven, SecretRows
<1> QED
  BY <1>6, <1>7, <1>9, <1>10, <1>11 DEF SecretsInv

LEMMA SecretsInvStep == SecretsInv /\ [SecretsNext]_secretVars => SecretsInv'
<1> SUFFICES ASSUME SecretsInv, SecretsNext \/ UNCHANGED secretVars PROVE SecretsInv'
  OBVIOUS
<1>1. CASE UNCHANGED secretVars
  BY <1>1 DEF SecretsInv, SecretsTypeOK, SealedOnce, RotationsAreAlone, GivenIsStored,
    ShownIsGiven, TaskIs, RotatesHook
<1>2. ASSUME NEW t \in Tasks, Migrate(t) PROVE SecretsInv'
  <2>1. task[t] \in Task
    BY <1>2 DEF SecretsInv, SecretsTypeOK, Migrate, TaskIs
  <2>2. PICK r \in SecretRows : r = task[t].row
    BY <2>1 DEF Task
  <2>3. replacedAny \in [SecretRows -> BOOLEAN]
    BY DEF SecretsInv, SecretsTypeOK
  <2>4. replacedAny' = [replacedAny EXCEPT ![r] = @ \/ task[t].read # secretRow[r]]
    BY <1>2, <2>2 DEF Migrate
  <2>5. /\ replacedAny' \in [SecretRows -> BOOLEAN]
        /\ \A q \in SecretRows : replacedAny[q] => replacedAny'[q]
        /\ ~replacedAny'[r] => secretRow[r] = task[t].read
    BY <2>3, <2>4
  <2>6. /\ TaskIs(t, "read") /\ task[t].op # "rotate"
        /\ secretRow' = [secretRow EXCEPT ![r] = Seal(task[t].read)]
        /\ task' = [task EXCEPT ![t] = NoTask]
        /\ UNCHANGED <<given, sealKey, shownSecret, unheard, secrets>>
    BY <1>2, <2>2 DEF Migrate
  <2> QED
    BY <2>5, <2>6, SealsRow
<1>3. ASSUME NEW t \in Tasks, SealForDelivery(t) PROVE SecretsInv'
  <2>1. /\ task[t] \in Task /\ TaskIs(t, "read") /\ task[t].op # "rotate" /\ task[t].at = "read"
        /\ task[t] # NoTask
        /\ task' = [task EXCEPT ![t] = NoTask]
        /\ UNCHANGED <<given, sealKey, shownSecret, unheard, secrets, replacedAny>>
    BY <1>3 DEF SecretsInv, SecretsTypeOK, SealForDelivery, TaskIs
  <2>2. PICK r \in SecretRows : r = task[t].row
    BY <2>1 DEF Task
  <2>3. CASE IsAsRead(t)
    <3>1. secretRow' = [secretRow EXCEPT ![r] = Seal(task[t].read)] /\ secretRow[r] = task[t].read
      BY <1>3, <2>2, <2>3 DEF SealForDelivery, IsAsRead
    <3>2. replacedAny' \in [SecretRows -> BOOLEAN] /\ \A q \in SecretRows : replacedAny[q] => replacedAny'[q]
      BY <2>1 DEF SecretsInv, SecretsTypeOK
    <3> QED
      BY <2>1, <3>1, <3>2, SealsRow
  <2>4. CASE ~IsAsRead(t)
    <3>1. secretRow' = secretRow
      BY <1>3, <2>4 DEF SealForDelivery
    <3> QED
      BY <2>1, <3>1, TaskMoves
  <2> QED
    BY <2>3, <2>4
<1>4. ASSUME NEW t \in Tasks, AnswerRotation(t) PROVE SecretsInv'
  <2>1. /\ task[t] \in Task /\ task[t] # NoTask /\ task[t].at = "answer" /\ RotatesHook(t)
        /\ TaskIs(t, "answer") /\ task[t].new \in Nat
        /\ ~replacedAny["hook"] => task[t].new = given["hook"]
        /\ shownSecret' = task[t].new /\ task' = [task EXCEPT ![t] = NoTask]
        /\ UNCHANGED <<secretRow, given, sealKey, replacedAny, unheard, secrets>>
    BY <1>4 DEF SecretsInv, SecretsTypeOK, RotationsAreAlone, AnswerRotation, TaskIs
  <2>2. task \in [Tasks -> Task \cup {NoTask}]
    BY DEF SecretsInv, SecretsTypeOK
  <2>3. SecretsTypeOK'
    BY <2>1, <2>2 DEF SecretsInv, SecretsTypeOK
  <2>4. \A u \in Tasks : /\ TaskIs(u, "answer")' => TaskIs(u, "answer") /\ task'[u] = task[u]
                         /\ TaskIs(u, "read")' => TaskIs(u, "read") /\ task'[u] = task[u]
                         /\ RotatesHook(u)' => RotatesHook(u)
    BY <2>1, <2>2 DEF TaskIs, RotatesHook
  <2>5. SealedOnce'
    BY <2>1, <2>4 DEF SecretsInv, SealedOnce
  <2>6. RotationsAreAlone'
    BY <2>1, <2>4 DEF SecretsInv, RotationsAreAlone, RotatesHook
  <2>7. GivenIsStored' /\ ShownIsGiven'
    BY <2>1 DEF SecretsInv, GivenIsStored, ShownIsGiven
  <2> QED
    BY <2>3, <2>5, <2>6, <2>7 DEF SecretsInv
<1>5. ASSUME NEW t \in Tasks, TaskFails(t) PROVE SecretsInv'
  <2>1. /\ task[t] \in Task /\ task[t] # NoTask /\ task' = [task EXCEPT ![t] = NoTask]
        /\ UNCHANGED <<secretRow, given, sealKey, shownSecret, replacedAny, secrets>>
    BY <1>5 DEF TaskFails, SecretsInv, SecretsTypeOK
  <2>2. CASE task[t].at # "answer"
    <3>1. task[t].at \in {"sent", "read"} /\ UNCHANGED unheard
      BY <1>5, <2>1, <2>2 DEF TaskFails, Task
    <3> QED
      BY <2>1, <3>1, TaskMoves
  <2>3. CASE task[t].at = "answer"
    <3>1. /\ RotatesHook(t) /\ task[t].new \in Nat /\ unheard' = task[t].new
          /\ ~replacedAny["hook"] => task[t].new = given["hook"]
      BY <1>5, <2>1, <2>3 DEF TaskFails, SecretsInv, RotationsAreAlone, TaskIs
    <3>2. task \in [Tasks -> Task \cup {NoTask}]
      BY DEF SecretsInv, SecretsTypeOK
    <3>3. SecretsTypeOK'
      BY <2>1, <3>1, <3>2 DEF SecretsInv, SecretsTypeOK
    <3>4. \A u \in Tasks : /\ TaskIs(u, "answer")' => TaskIs(u, "answer") /\ task'[u] = task[u]
                           /\ TaskIs(u, "read")' => TaskIs(u, "read") /\ task'[u] = task[u]
                           /\ RotatesHook(u)' => RotatesHook(u)
      BY <2>1, <3>2 DEF TaskIs, RotatesHook
    <3>5. SealedOnce'
      BY <2>1, <3>4 DEF SecretsInv, SealedOnce
    <3>6. RotationsAreAlone'
      BY <2>1, <3>4 DEF SecretsInv, RotationsAreAlone, RotatesHook
    <3>7. GivenIsStored' /\ ShownIsGiven'
      BY <2>1, <3>1 DEF SecretsInv, GivenIsStored, ShownIsGiven
    <3> QED
      BY <3>3, <3>5, <3>6, <3>7 DEF SecretsInv
  <2> QED
    BY <2>2, <2>3
<1>6. CASE SwitchHook
  BY <1>6 DEF SwitchHook, SecretsInv, SecretsTypeOK, SealedOnce, RotationsAreAlone, GivenIsStored,
    ShownIsGiven, TaskIs, RotatesHook
<1>7. CASE ReplaceKey
  <2>1. /\ sealKey' = sealKey + 1 /\ sealKey \in Nat
        /\ UNCHANGED <<secretRow, given, task, shownSecret, replacedAny, unheard, secrets>>
    BY <1>7 DEF ReplaceKey, SecretsInv, SecretsTypeOK
  <2>2. SecretsTypeOK'
    BY <2>1 DEF SecretsInv, SecretsTypeOK
  <2>3. SealedOnce'
    <3>1. \A r \in SecretRows : secretRow[r].key \in Nat
      BY DEF SecretsInv, SecretsTypeOK, Envelope
    <3> QED
      BY <2>1, <3>1 DEF SecretsInv, SealedOnce, TaskIs
  <2> QED
    BY <2>1, <2>2, <2>3 DEF SecretsInv, RotationsAreAlone, GivenIsStored, ShownIsGiven, TaskIs, RotatesHook
<1> QED
  BY <1>1, <1>2, <1>3, <1>4, <1>5, <1>6, <1>7, SecretsStartStep, SecretsReadStep, SecretsRotateStep
  DEF SecretsNext

USE DEF updateVars, serverOfUpdates, browserOfUpdates

-----------------------------------------------------------------------------
(* Update checks.  A check is short against the gate's minute.  So whoever *)
(* asked the gate before another check stored its row finds it closed, and *)
(* who passes it holds the row that is stored.                             *)
AtSource(call) == call # NoCheck /\ call.at \in {"fetch", "store"}
IsKnown(row) == row # NoCheck /\ row.release # NoCheck
KeepsWhatIsKnown(row) ==
  IsKnown(lastCheck) => IsKnown(row) /\ row.release >= lastCheck.release
CheckFits(call, shut) ==
  /\ call.since <= ticks /\ ticks <= call.since + Longest
  /\ call.at \in {"fetch", "store"} => call.since + Minute <= shut
  /\ call.at = "gate" /\ call.row # lastCheck => call.since + Longest < shut
  /\ call.at = "fetch" => call.row = lastCheck
  /\ call.at = "store" => KeepsWhatIsKnown(call.row)
  /\ IsKnown(call.row) => call.row.release <= released

ChecksFit == \A c \in Checks : check[c] # NoCheck => CheckFits(check[c], gate)
OneAtSource == \A c, d \in Checks : AtSource(check[c]) /\ AtSource(check[d]) => c = d
ReleasesAreOut == IsKnown(lastCheck) => lastCheck.release <= released
TabsAreTold ==
  \A t \in Tabs : updateTab[t].dismissed = dismissal \/ \E event \in storageEvents : event.tab = t

UpdatesInv == UpdatesTypeOK /\ ChecksFit /\ OneAtSource /\ ReleasesAreOut /\ TabsAreTold

LEMMA UpdatesNumbers ==
  /\ Minute \in Nat /\ Day \in Nat /\ Longest \in Nat /\ MaxRelease \in Nat
  /\ MaxTicks \in Nat /\ MaxClicks \in Nat /\ Longest + Longest < Minute
BY UpdatesAssumption

LEMMA NoCheckIsNone ==
  NoCheck \notin Releases /\ NoCheck \notin CacheRow /\ NoCheck \notin Check
BY UpdatesAssumption

LEMMA UpdatesInvInit == UpdatesInit => UpdatesInv
<1> SUFFICES ASSUME UpdatesInit PROVE UpdatesInv
  OBVIOUS
<1>1. \A t \in Tabs : updateTab[t] = [state |-> NoManifest, dismissed |-> NoCheck]
  BY DEF UpdatesInit
<1>2. UpdatesTypeOK
  <2>1. 0 \in Releases
    BY UpdatesNumbers DEF Releases
  <2>2. 0 \in 0 .. (MaxTicks + Minute) /\ 0 \in 0 .. MaxTicks /\ 0 \in 0 .. MaxClicks
    BY UpdatesNumbers
  <2>3. automatic = TRUE
    BY DEF UpdatesInit
  <2>4. updateTab \in [Tabs -> [state : CacheRow \cup {NoManifest},
                                dismissed : Releases \cup {NoCheck}]]
    BY DEF UpdatesInit
  <2>5. check \in [Checks -> Check \cup {NoCheck}]
    BY DEF UpdatesInit
  <2>6. automatic \in BOOLEAN
    BY <2>3
  <2>7. /\ released = 0 /\ lastCheck = NoCheck /\ gate = 0 /\ dismissal = NoCheck
        /\ storageEvents = {} /\ ticks = 0 /\ clicks = 0
    BY DEF UpdatesInit
  <2> QED
    BY <2>1, <2>2, <2>4, <2>5, <2>6, <2>7 DEF UpdatesTypeOK
<1>3. ChecksFit /\ OneAtSource
  BY DEF UpdatesInit, ChecksFit, OneAtSource, AtSource
<1>4. ReleasesAreOut
  BY DEF UpdatesInit, ReleasesAreOut, IsKnown
<1>5. TabsAreTold
  BY <1>1 DEF UpdatesInit, TabsAreTold
<1> QED
  BY <1>2, <1>3, <1>4, <1>5 DEF UpdatesInv

(* A check that stores nothing moves.                                      *)
LEMMA CheckMoves ==
  ASSUME UpdatesInv, NEW c \in Checks, NEW call \in Check \cup {NoCheck},
         check' = [check EXCEPT ![c] = call],
         call # NoCheck => CheckFits(call, gate'),
         AtSource(call) => AtSource(check[c]) \/ (\A d \in Checks : ~AtSource(check[d])),
         gate <= gate', gate' \in 0 .. (MaxTicks + Minute),
         UNCHANGED <<released, lastCheck, automatic, ticks, browserOfUpdates>>
  PROVE  UpdatesInv'
<1>1. UpdatesTypeOK'
  BY DEF UpdatesInv, UpdatesTypeOK
<1>2. ChecksFit'
  <2> SUFFICES ASSUME NEW d \in Checks, check'[d] # NoCheck PROVE (CheckFits(check[d], gate))'
    BY DEF ChecksFit
  <2>1. CASE d = c
    <3>1. check'[d] = call
      BY <2>1 DEF UpdatesInv, UpdatesTypeOK
    <3>2. CheckFits(check'[d], gate')
      BY <3>1
    <3> QED
      BY <3>2 DEF CheckFits, KeepsWhatIsKnown, IsKnown
  <2>2. CASE d # c
    <3>1. check'[d] = check[d]
      BY <2>2 DEF UpdatesInv, UpdatesTypeOK
    <3>2. CheckFits(check[d], gate)
      BY <3>1 DEF UpdatesInv, ChecksFit
    <3>3. check[d] \in Check /\ check[d].since \in Nat
      BY <3>1, UpdatesNumbers DEF UpdatesInv, UpdatesTypeOK, Check
    <3>4. gate \in Nat /\ gate' \in Nat
      BY UpdatesNumbers DEF UpdatesInv, UpdatesTypeOK
    <3> QED
      BY <3>1, <3>2, <3>3, <3>4, UpdatesNumbers DEF CheckFits, KeepsWhatIsKnown, IsKnown
  <2> QED
    BY <2>1, <2>2
<1>3. OneAtSource'
  BY DEF UpdatesInv, UpdatesTypeOK, OneAtSource, AtSource
<1>4. ReleasesAreOut' /\ TabsAreTold'
  BY DEF UpdatesInv, ReleasesAreOut, IsKnown, TabsAreTold
<1> QED
  BY <1>1, <1>2, <1>3, <1>4 DEF UpdatesInv

LEMMA ReadsCache ==
  ASSUME UpdatesInv, NEW c \in Checks, NEW t \in Tabs, NEW force \in BOOLEAN,
         ReadCache(c, t, force)
  PROVE  UpdatesInv'
<1>1. PICK at \in {"gate", "answer"} :
        at = IF ~force /\ (~automatic \/ IsFresh(lastCheck)) THEN "answer" ELSE "gate"
  OBVIOUS
<1> DEFINE call == [at |-> at, tab |-> t, row |-> lastCheck, since |-> ticks]
<1>2. check' = [check EXCEPT ![c] = call]
  BY <1>1 DEF ReadCache
<1>3. UNCHANGED <<released, lastCheck, automatic, gate, ticks, browserOfUpdates>>
  BY DEF ReadCache
<1>4. call \in Check
  BY DEF UpdatesInv, UpdatesTypeOK, Check
<1>5. /\ call.at \in {"gate", "answer"} /\ call.row = lastCheck /\ call.since = ticks
  OBVIOUS
<1> HIDE DEF call
<1>6. gate \in Nat /\ ticks \in Nat /\ gate <= gate' /\ gate' \in 0 .. (MaxTicks + Minute)
  BY <1>3, UpdatesNumbers DEF UpdatesInv, UpdatesTypeOK
<1>7. CheckFits(call, gate')
  BY <1>3, <1>5, <1>6, UpdatesNumbers
  DEF CheckFits, KeepsWhatIsKnown, IsKnown, UpdatesInv, ReleasesAreOut
<1>8. ~AtSource(call)
  BY <1>5 DEF AtSource
<1> QED
  BY <1>2, <1>3, <1>4, <1>6, <1>7, <1>8, CheckMoves

LEMMA AsksGate == ASSUME UpdatesInv, NEW c \in Checks, AskGate(c) PROVE UpdatesInv'
<1>1. check[c] \in Check /\ check[c].at = "gate" /\ CheckFits(check[c], gate)
  BY DEF AskGate, UpdatesInv, UpdatesTypeOK, ChecksFit
<1>2. PICK at \in {"fetch", "answer"} : at = IF GateAllows(c) THEN "fetch" ELSE "answer"
  OBVIOUS
<1> DEFINE call == [check[c] EXCEPT !.at = at]
<1>3. check' = [check EXCEPT ![c] = call]
  BY <1>2 DEF AskGate
<1>4. UNCHANGED <<released, lastCheck, automatic, ticks, browserOfUpdates>>
  BY DEF AskGate
<1>5. call \in Check /\ call.at = at /\ call.row = check[c].row /\ call.since = check[c].since
  BY <1>1 DEF Check
<1>6. gate \in Nat /\ ticks \in Nat /\ check[c].since \in Nat /\ ticks <= MaxTicks
      /\ gate \in 0 .. (MaxTicks + Minute)
  BY <1>1, UpdatesNumbers DEF UpdatesInv, UpdatesTypeOK, Check
<1>7. at = "fetch" <=> gate <= ticks
  BY <1>2, <1>6 DEF GateAllows, IsOpen
<1>8. gate' = IF gate <= ticks THEN ticks + Minute ELSE gate
  BY <1>6 DEF AskGate, IsOpen
<1>9. gate <= gate' /\ gate' \in 0 .. (MaxTicks + Minute)
  BY <1>6, <1>8, UpdatesNumbers
<1> HIDE DEF call
<1>10. ASSUME gate <= ticks
       PROVE  /\ check[c].row = lastCheck /\ check[c].since + Minute <= gate'
              /\ \A d \in Checks : ~AtSource(check[d])
  <2>1. check[c].row = lastCheck
    <3>1. check[c].row # lastCheck => check[c].since + Longest < gate
      BY <1>1 DEF CheckFits
    <3>2. ticks <= check[c].since + Longest
      BY <1>1 DEF CheckFits
    <3> QED
      BY <1>6, <1>10, <3>1, <3>2, UpdatesNumbers
  <2>2. check[c].since <= ticks
    BY <1>1 DEF CheckFits
  <2>3. check[c].since + Minute <= gate'
    BY <1>6, <1>8, <1>10, <2>2, UpdatesNumbers
  <2>4. ASSUME NEW d \in Checks, AtSource(check[d]) PROVE FALSE
    <3>1. check[d].since + Minute <= gate /\ ticks <= check[d].since + Longest
      BY <2>4 DEF AtSource, UpdatesInv, ChecksFit, CheckFits
    <3>2. check[d].since \in Nat
      BY <2>4 DEF AtSource, UpdatesInv, UpdatesTypeOK, Check
    <3> QED
      BY <1>6, <1>10, <3>1, <3>2, UpdatesNumbers
  <2> QED
    BY <2>1, <2>3, <2>4
<1>11. CheckFits(call, gate')
  <2>1. call.since <= ticks /\ ticks <= call.since + Longest
    BY <1>1, <1>5 DEF CheckFits
  <2>2. call.at = "fetch" => call.since + Minute <= gate' /\ call.row = lastCheck
    BY <1>5, <1>7, <1>10
  <2>3. IsKnown(call.row) => call.row.release <= released
    BY <1>1, <1>5 DEF CheckFits
  <2> QED
    BY <1>4, <1>5, <2>1, <2>2, <2>3 DEF CheckFits, IsKnown
<1>12. AtSource(call) => \A d \in Checks : ~AtSource(check[d])
  BY <1>5, <1>7, <1>10 DEF AtSource
<1> QED
  BY <1>3, <1>4, <1>5, <1>9, <1>11, <1>12, CheckMoves

LEMMA FetchesManifest == ASSUME UpdatesInv, NEW c \in Checks, FetchManifest(c) PROVE UpdatesInv'
<1>1. check[c] \in Check /\ check[c].at = "fetch" /\ CheckFits(check[c], gate)
  BY DEF FetchManifest, UpdatesInv, UpdatesTypeOK, ChecksFit
<1>2. PICK ok \in BOOLEAN :
        check' = [check EXCEPT ![c].at = "store", ![c].row =
          [release |-> IF ok THEN released ELSE KeptRelease(check[c].row),
           status |-> IF ok THEN "ok" ELSE "unavailable", at |-> ticks]]
  BY DEF FetchManifest
<1>3. PICK status \in {"ok", "unavailable"} : status = IF ok THEN "ok" ELSE "unavailable"
  OBVIOUS
<1>4. check[c].row = lastCheck
  BY <1>1 DEF CheckFits
<1>5. lastCheck \in CacheRow \cup {NoCheck} /\ released \in Releases /\ ticks \in 0 .. MaxTicks
  BY DEF UpdatesInv, UpdatesTypeOK
<1> DEFINE kept == KeptRelease(check[c].row)
<1>6. kept \in Releases \cup {NoCheck} /\ (IsKnown(lastCheck) => kept = lastCheck.release)
      /\ (~IsKnown(lastCheck) => kept = NoCheck)
  BY <1>4, <1>5 DEF KeptRelease, stateFromCache, NoManifest, IsKnown, CacheRow
<1> HIDE DEF kept
<1>7. PICK release \in Releases \cup {NoCheck} : release = IF ok THEN released ELSE kept
  BY <1>5, <1>6
<1> DEFINE row == [release |-> release, status |-> status, at |-> ticks]
           call == [check[c] EXCEPT !.at = "store", !.row = row]
<1>8. row \in CacheRow /\ row.release = release /\ row # NoCheck
  BY <1>5, NoCheckIsNone DEF CacheRow
<1>9. check' = [check EXCEPT ![c] = call]
  <2>1. row = [release |-> IF ok THEN released ELSE KeptRelease(check[c].row),
               status |-> IF ok THEN "ok" ELSE "unavailable", at |-> ticks]
    BY <1>3, <1>7 DEF kept
  <2>2. check' = [check EXCEPT ![c].at = "store", ![c].row = row]
    BY <1>2, <2>1
  <2> HIDE DEF row
  <2>3. check \in [Checks -> Check \cup {NoCheck}]
    BY DEF UpdatesInv, UpdatesTypeOK
  <2>4. [check EXCEPT ![c].at = "store", ![c].row = row] = [check EXCEPT ![c] = call]
    BY <1>1, <2>3 DEF Check
  <2> QED
    BY <2>2, <2>4
<1> HIDE DEF row
<1>10. call \in Check /\ call.at = "store" /\ call.row = row /\ call.since = check[c].since
  BY <1>1, <1>8 DEF Check
<1>11. UNCHANGED <<released, lastCheck, automatic, gate, ticks, browserOfUpdates>>
  BY DEF FetchManifest
<1>12. KeepsWhatIsKnown(row)
  <2>1. IsKnown(lastCheck) => lastCheck.release \in Releases /\ lastCheck.release <= released
    BY <1>5 DEF IsKnown, CacheRow, UpdatesInv, ReleasesAreOut
  <2>2. released \in Nat /\ released # NoCheck /\ \A n \in Releases : n \in Nat /\ n <= n
    BY <1>5, UpdatesNumbers, NoCheckIsNone DEF Releases
  <2>3. IsKnown(lastCheck) => release # NoCheck /\ release >= lastCheck.release
    BY <1>6, <1>7, <2>1, <2>2 DEF IsKnown
  <2> QED
    BY <1>8, <2>3 DEF KeepsWhatIsKnown, IsKnown
<1>13. IsKnown(row) => row.release <= released
  <2>1. released \in Nat
    BY <1>5, UpdatesNumbers DEF Releases
  <2>2. kept # NoCheck => kept <= released
    BY <1>6 DEF UpdatesInv, ReleasesAreOut
  <2> QED
    BY <1>7, <1>8, <2>1, <2>2 DEF IsKnown
<1>14. gate <= gate' /\ gate' \in 0 .. (MaxTicks + Minute)
  BY <1>11, UpdatesNumbers DEF UpdatesInv, UpdatesTypeOK
<1> HIDE DEF call
<1>15. CheckFits(call, gate')
  BY <1>1, <1>10, <1>11, <1>12, <1>13 DEF CheckFits
<1>16. AtSource(check[c])
  BY <1>1, NoCheckIsNone DEF AtSource
<1> QED
  BY <1>9, <1>10, <1>11, <1>14, <1>15, <1>16, CheckMoves

LEMMA StoresCache == ASSUME UpdatesInv, NEW c \in Checks, StoreCache(c) PROVE UpdatesInv'
<1>1. /\ check[c] \in Check /\ check[c].at = "store" /\ CheckFits(check[c], gate)
      /\ AtSource(check[c])
  BY DEF StoreCache, UpdatesInv, UpdatesTypeOK, ChecksFit, AtSource
<1> DEFINE call == [check[c] EXCEPT !.at = "answer"]
<1>2. lastCheck' = check[c].row /\ check' = [check EXCEPT ![c] = call]
  BY DEF StoreCache
<1>3. UNCHANGED <<released, automatic, gate, ticks, browserOfUpdates>>
  BY DEF StoreCache
<1>4. call \in Check /\ call.at = "answer" /\ call.row = check[c].row /\ call.since = check[c].since
  BY <1>1 DEF Check
<1> HIDE DEF call
<1>5. UpdatesTypeOK'
  BY <1>1, <1>2, <1>3, <1>4 DEF UpdatesInv, UpdatesTypeOK, Check
<1>6. ASSUME NEW d \in Checks, check'[d] # NoCheck PROVE (CheckFits(check[d], gate))'
  <2>1. CASE d = c
    <3>1. check'[d] = call
      BY <1>2, <2>1 DEF UpdatesInv, UpdatesTypeOK
    <3> QED
      BY <1>1, <1>3, <1>4, <3>1 DEF CheckFits, IsKnown
  <2>2. CASE d # c
    <3>1. check'[d] = check[d] /\ check[d] \in Check /\ CheckFits(check[d], gate)
      BY <1>2, <1>6, <2>2 DEF UpdatesInv, UpdatesTypeOK, ChecksFit
    <3>2. check[d].at \notin {"fetch", "store"}
      BY <1>1, <1>6, <2>2, <3>1 DEF UpdatesInv, OneAtSource, AtSource
    <3>3. check[d].since + Longest < gate
      <4>1. check[c].since + Minute <= gate /\ ticks <= check[c].since + Longest
            /\ check[d].since <= ticks
        BY <1>1, <3>1 DEF CheckFits
      <4>2. check[c].since \in Nat /\ check[d].since \in Nat /\ ticks \in Nat /\ gate \in Nat
        BY <1>1, <3>1, UpdatesNumbers DEF Check, UpdatesInv, UpdatesTypeOK
      <4> QED
        BY <4>1, <4>2, UpdatesNumbers
    <3> QED
      BY <1>3, <3>1, <3>2, <3>3 DEF CheckFits, IsKnown
  <2> QED
    BY <2>1, <2>2
<1>7. ChecksFit'
  BY <1>6 DEF ChecksFit, CheckFits, IsKnown, KeepsWhatIsKnown
<1>8. OneAtSource'
  BY <1>2, <1>4 DEF UpdatesInv, UpdatesTypeOK, OneAtSource, AtSource
<1>9. ReleasesAreOut'
  BY <1>1, <1>2, <1>3 DEF CheckFits, ReleasesAreOut, IsKnown
<1>10. TabsAreTold'
  BY <1>3 DEF UpdatesInv, TabsAreTold
<1> QED
  BY <1>5, <1>7, <1>8, <1>9, <1>10 DEF UpdatesInv

LEMMA ShowsUpdates == ASSUME UpdatesInv, NEW c \in Checks, ShowUpdates(c) PROVE UpdatesInv'
<1>1. check[c] \in Check
  BY DEF ShowUpdates, UpdatesInv, UpdatesTypeOK
<1> DEFINE t == check[c].tab
           state == stateFromCache(check[c].row)
<1>2. t \in Tabs /\ state \in CacheRow \cup {NoManifest}
  BY <1>1 DEF Check, stateFromCache
<1>3. /\ updateTab' = [updateTab EXCEPT ![t].state = state]
      /\ check' = [check EXCEPT ![c] = NoCheck]
      /\ UNCHANGED <<released, lastCheck, automatic, gate, ticks, dismissal, storageEvents, clicks>>
  BY DEF ShowUpdates
<1> HIDE DEF t, state
<1>4. \A u \in Tabs : updateTab'[u].dismissed = updateTab[u].dismissed
  BY <1>2, <1>3 DEF UpdatesInv, UpdatesTypeOK
<1>5. updateTab' \in [Tabs -> [state : CacheRow \cup {NoManifest},
                             dismissed : Releases \cup {NoCheck}]]
  BY <1>2, <1>3 DEF UpdatesInv, UpdatesTypeOK
<1>6. UpdatesTypeOK'
  BY <1>3, <1>5 DEF UpdatesInv, UpdatesTypeOK
<1>7. \A d \in Checks : check'[d] # NoCheck => check'[d] = check[d]
  BY <1>3 DEF UpdatesInv, UpdatesTypeOK
<1>8. ChecksFit'
  BY <1>3, <1>7 DEF UpdatesInv, ChecksFit, CheckFits, KeepsWhatIsKnown, IsKnown
<1>9. OneAtSource'
  BY <1>7 DEF UpdatesInv, OneAtSource, AtSource
<1>10. ReleasesAreOut' /\ TabsAreTold'
  BY <1>3, <1>4 DEF UpdatesInv, ReleasesAreOut, IsKnown, TabsAreTold
<1> QED
  BY <1>6, <1>8, <1>9, <1>10 DEF UpdatesInv

LEMMA LosesCheck == ASSUME UpdatesInv, NEW c \in Checks, LoseCheck(c) PROVE UpdatesInv'
<1>1. /\ check' = [check EXCEPT ![c] = NoCheck]
      /\ UNCHANGED <<released, lastCheck, automatic, gate, ticks, browserOfUpdates>>
  BY DEF LoseCheck
<1>2. ~AtSource(NoCheck)
  BY DEF AtSource
<1>3. gate <= gate' /\ gate' \in 0 .. (MaxTicks + Minute)
  BY <1>1, UpdatesNumbers DEF UpdatesInv, UpdatesTypeOK
<1> QED
  BY <1>1, <1>2, <1>3, CheckMoves

(* The preference, the manifest and the clock.                             *)
LEMMA ServerMoves ==
  ASSUME UpdatesInv, UpdatesTypeOK', released <= released',
         UNCHANGED <<lastCheck, gate, check, updateTab, dismissal, storageEvents>>,
         \A c \in Checks : check[c] # NoCheck =>
           check[c].since <= ticks' /\ ticks' <= check[c].since + Longest
  PROVE  UpdatesInv'
<1>1. released \in Nat /\ released' \in Nat
  BY UpdatesNumbers DEF UpdatesInv, UpdatesTypeOK, Releases
<1>2. \A row \in CacheRow : IsKnown(row) => row.release \in Nat
  BY UpdatesNumbers DEF IsKnown, CacheRow, Releases
<1>3. ChecksFit'
  <2> SUFFICES ASSUME NEW c \in Checks, check[c] # NoCheck PROVE CheckFits(check[c], gate)'
    BY DEF ChecksFit
  <2>1. check[c] \in Check /\ CheckFits(check[c], gate)
    BY DEF UpdatesInv, UpdatesTypeOK, ChecksFit
  <2>2. IsKnown(check[c].row) => check[c].row.release \in Nat
    BY <1>2, <2>1 DEF Check, IsKnown
  <2>3. IsKnown(check[c].row) => check[c].row.release <= released'
    BY <1>1, <2>1, <2>2 DEF CheckFits
  <2> QED
    BY <2>1, <2>3 DEF CheckFits, KeepsWhatIsKnown, IsKnown
<1>4. ReleasesAreOut'
  <2>1. IsKnown(lastCheck) => lastCheck.release \in Nat
    BY <1>2 DEF UpdatesInv, UpdatesTypeOK, IsKnown
  <2> QED
    BY <1>1, <2>1 DEF UpdatesInv, ReleasesAreOut, IsKnown
<1>5. OneAtSource' /\ TabsAreTold'
  BY DEF UpdatesInv, OneAtSource, AtSource, TabsAreTold
<1> QED
  BY <1>3, <1>4, <1>5 DEF UpdatesInv

LEMMA AutomaticIsSet == ASSUME UpdatesInv, SetAutomatic PROVE UpdatesInv'
<1>1. clicks' \in 0 .. MaxClicks
  BY UpdatesNumbers DEF SetAutomatic, Click, UpdatesInv, UpdatesTypeOK
<1>2. UNCHANGED <<released, lastCheck, gate, check, ticks, updateTab, dismissal, storageEvents>>
  BY DEF SetAutomatic
<1>3. automatic' \in BOOLEAN
  BY DEF SetAutomatic
<1>4. UpdatesTypeOK'
  BY <1>1, <1>2, <1>3 DEF UpdatesInv, UpdatesTypeOK
<1>5. released <= released'
  BY <1>2, UpdatesNumbers DEF UpdatesInv, UpdatesTypeOK, Releases
<1>6. \A c \in Checks : check[c] # NoCheck =>
        check[c].since <= ticks' /\ ticks' <= check[c].since + Longest
  BY <1>2 DEF UpdatesInv, ChecksFit, CheckFits
<1> QED
  BY <1>2, <1>4, <1>5, <1>6, ServerMoves

LEMMA Releases_ == ASSUME UpdatesInv, Release PROVE UpdatesInv'
<1>1. released' \in Releases /\ released <= released'
  BY UpdatesNumbers DEF Release, UpdatesInv, UpdatesTypeOK, Releases
<1>2. UNCHANGED <<lastCheck, automatic, gate, check, ticks, browserOfUpdates>>
  BY DEF Release
<1>3. UpdatesTypeOK'
  BY <1>1, <1>2 DEF UpdatesInv, UpdatesTypeOK
<1>4. \A c \in Checks : check[c] # NoCheck =>
        check[c].since <= ticks' /\ ticks' <= check[c].since + Longest
  BY <1>2 DEF UpdatesInv, ChecksFit, CheckFits
<1> QED
  BY <1>1, <1>2, <1>3, <1>4, ServerMoves

LEMMA TimePasses == ASSUME UpdatesInv, PassTime PROVE UpdatesInv'
<1>1. ticks \in 0 .. MaxTicks /\ ticks < MaxTicks /\ ticks' = ticks + 1
  BY DEF PassTime, UpdatesInv, UpdatesTypeOK
<1>2. UNCHANGED <<released, lastCheck, automatic, gate, check, browserOfUpdates>>
  BY DEF PassTime
<1>3. ticks' \in 0 .. MaxTicks
  BY <1>1, UpdatesNumbers
<1>4. UpdatesTypeOK'
  BY <1>2, <1>3 DEF UpdatesInv, UpdatesTypeOK
<1>5. released <= released'
  BY <1>2, UpdatesNumbers DEF UpdatesInv, UpdatesTypeOK, Releases
<1>6. ASSUME NEW c \in Checks, check[c] # NoCheck
      PROVE  check[c].since <= ticks' /\ ticks' <= check[c].since + Longest
  <2>1. check[c].since \in Nat /\ check[c].since <= ticks
    BY <1>6, UpdatesNumbers DEF UpdatesInv, UpdatesTypeOK, ChecksFit, CheckFits, Check
  <2>2. ticks < check[c].since + Longest
    BY <1>6 DEF PassTime
  <2> QED
    BY <1>1, <2>1, <2>2, UpdatesNumbers
<1> QED
  BY <1>2, <1>4, <1>5, <1>6, ServerMoves

(* The browser: what is on the server does not move.                       *)
LEMMA BrowserMoves ==
  ASSUME UpdatesInv, UpdatesTypeOK', TabsAreTold', UNCHANGED serverOfUpdates PROVE UpdatesInv'
<1>1. ChecksFit' /\ OneAtSource' /\ ReleasesAreOut'
  BY DEF UpdatesInv, ChecksFit, CheckFits, KeepsWhatIsKnown, IsKnown, OneAtSource, AtSource,
         ReleasesAreOut
<1> QED
  BY <1>1 DEF UpdatesInv

LEMMA DismissalIsStored ==
  ASSUME UpdatesInv, NEW t \in Tabs, NEW value \in Releases \cup {NoCheck},
         StoreDismissal(t, value)
  PROVE  UpdatesInv'
<1>1. updateTab' = [updateTab EXCEPT ![t].dismissed = value] /\ UNCHANGED serverOfUpdates
  BY DEF StoreDismissal
<1>2. clicks' \in 0 .. MaxClicks
  BY UpdatesNumbers DEF StoreDismissal, Click, UpdatesInv, UpdatesTypeOK
<1>3. /\ dismissal' = value /\ storageEvents' \subseteq StorageEvent
      /\ storageEvents \subseteq storageEvents'
      /\ value # dismissal => \A u \in Tabs \ {t} : [tab |-> u, value |-> value] \in storageEvents'
  <2>1. CASE value = dismissal
    BY <2>1 DEF StoreDismissal, UpdatesInv, UpdatesTypeOK
  <2>2. CASE value # dismissal
    <3>1. dismissal' = value /\ storageEvents' = storageEvents \cup
            {[tab |-> u, value |-> value] : u \in Tabs \ {t}}
      BY <2>2 DEF StoreDismissal
    <3> QED
      BY <2>2, <3>1 DEF UpdatesInv, UpdatesTypeOK, StorageEvent
  <2> QED
    BY <2>1, <2>2
<1>4. updateTab' \in [Tabs -> [state : CacheRow \cup {NoManifest},
                             dismissed : Releases \cup {NoCheck}]]
  BY <1>1 DEF UpdatesInv, UpdatesTypeOK
<1>5. UpdatesTypeOK'
  BY <1>1, <1>2, <1>3, <1>4 DEF UpdatesInv, UpdatesTypeOK
<1>6. TabsAreTold'
  <2> SUFFICES ASSUME NEW u \in Tabs
               PROVE  updateTab'[u].dismissed = dismissal' \/ \E event \in storageEvents' : event.tab = u
    BY DEF TabsAreTold
  <2>1. CASE u = t
    BY <1>1, <1>3, <2>1 DEF UpdatesInv, UpdatesTypeOK
  <2>2. CASE u # t /\ value = dismissal
    <3>1. updateTab'[u].dismissed = updateTab[u].dismissed
      BY <1>1, <2>2 DEF UpdatesInv, UpdatesTypeOK
    <3> QED
      BY <1>3, <2>2, <3>1 DEF UpdatesInv, TabsAreTold
  <2>3. CASE u # t /\ value # dismissal
    <3>1. [tab |-> u, value |-> value] \in storageEvents' /\ [tab |-> u, value |-> value].tab = u
      BY <1>3, <2>3
    <3> QED
      BY <3>1
  <2> QED
    BY <2>1, <2>2, <2>3
<1> QED
  BY <1>1, <1>5, <1>6, BrowserMoves

LEMMA Dismisses == ASSUME UpdatesInv, NEW t \in Tabs, Dismiss(t) PROVE UpdatesInv'
<1>1. updateTab[t].state.release \in Releases \cup {NoCheck}
  BY DEF UpdatesInv, UpdatesTypeOK, CacheRow, NoManifest
<1> QED
  BY <1>1, DismissalIsStored DEF Dismiss

LEMMA Restores == ASSUME UpdatesInv, NEW t \in Tabs, RestoreNotice(t) PROVE UpdatesInv'
BY DismissalIsStored DEF RestoreNotice

LEMMA SyncsTab == ASSUME UpdatesInv, NEW event \in storageEvents, SyncTab(event) PROVE UpdatesInv'
<1>1. event \in StorageEvent /\ event.tab \in Tabs
  BY DEF UpdatesInv, UpdatesTypeOK, StorageEvent
<1>2. /\ updateTab' = [updateTab EXCEPT ![event.tab].dismissed = dismissal]
      /\ storageEvents' = storageEvents \ {event}
      /\ UNCHANGED <<dismissal, clicks, serverOfUpdates>>
  BY DEF SyncTab, Reloaded
<1>3. dismissal \in Releases \cup {NoCheck}
  BY DEF UpdatesInv, UpdatesTypeOK
<1>4. updateTab' \in [Tabs -> [state : CacheRow \cup {NoManifest},
                             dismissed : Releases \cup {NoCheck}]]
  BY <1>1, <1>2, <1>3 DEF UpdatesInv, UpdatesTypeOK
<1>5. UpdatesTypeOK'
  BY <1>2, <1>4 DEF UpdatesInv, UpdatesTypeOK
<1>6. TabsAreTold'
  <2> SUFFICES ASSUME NEW u \in Tabs
               PROVE  updateTab'[u].dismissed = dismissal' \/ \E e \in storageEvents' : e.tab = u
    BY DEF TabsAreTold
  <2>1. CASE u = event.tab
    BY <1>1, <1>2, <2>1 DEF UpdatesInv, UpdatesTypeOK
  <2>2. CASE u # event.tab
    <3>1. updateTab'[u].dismissed = updateTab[u].dismissed
      BY <1>1, <1>2, <2>2 DEF UpdatesInv, UpdatesTypeOK
    <3> QED
      BY <1>2, <2>2, <3>1 DEF UpdatesInv, TabsAreTold
  <2> QED
    BY <2>1, <2>2
<1> QED
  BY <1>2, <1>5, <1>6, BrowserMoves

LEMMA UpdatesInvStep == UpdatesInv /\ [UpdatesNext]_updateVars => UpdatesInv'
<1> SUFFICES ASSUME UpdatesInv, [UpdatesNext]_updateVars PROVE UpdatesInv'
  OBVIOUS
<1>1. CASE UNCHANGED updateVars
  BY <1>1 DEF UpdatesInv, UpdatesTypeOK, ChecksFit, CheckFits, KeepsWhatIsKnown, IsKnown,
              OneAtSource, AtSource, ReleasesAreOut, TabsAreTold
<1>2. CASE SetAutomatic \/ Release \/ PassTime
  BY <1>2, AutomaticIsSet, Releases_, TimePasses
<1>3. ASSUME NEW c \in Checks, NEW t \in Tabs, NEW force \in BOOLEAN, ReadCache(c, t, force)
      PROVE  UpdatesInv'
  BY <1>3, ReadsCache
<1>4. ASSUME NEW c \in Checks,
             AskGate(c) \/ FetchManifest(c) \/ StoreCache(c) \/ ShowUpdates(c) \/ LoseCheck(c)
      PROVE  UpdatesInv'
  BY <1>4, AsksGate, FetchesManifest, StoresCache, ShowsUpdates, LosesCheck
<1>5. ASSUME NEW t \in Tabs, Dismiss(t) \/ RestoreNotice(t) PROVE UpdatesInv'
  BY <1>5, Dismisses, Restores
<1>6. ASSUME NEW event \in storageEvents, SyncTab(event) PROVE UpdatesInv'
  BY <1>6, SyncsTab
<1> QED
  BY <1>1, <1>2, <1>3, <1>4, <1>5, <1>6 DEF UpdatesNext

LEMMA UpdatesInvMeans == UpdatesInv => UpdatesTypeOK /\ ChecksAreGated
<1> SUFFICES ASSUME UpdatesInv PROVE ChecksAreGated
  BY DEF UpdatesInv
<1> DEFINE S == {c \in Checks : check[c] # NoCheck /\ check[c].at \in {"fetch", "store"}}
<1>1. Cardinality(S) <= 1
  <2>1. CASE S = {}
    BY <2>1, FS_EmptySet
  <2>2. CASE S # {}
    <3>1. PICK c \in S : TRUE
      BY <2>2
    <3>2. S = {c}
      BY <3>1 DEF UpdatesInv, OneAtSource, AtSource
    <3> HIDE DEF S
    <3>3. Cardinality({c}) = 1
      BY FS_Singleton
    <3> QED
      BY <3>2, <3>3
  <2> QED
    BY <2>1, <2>2
<1>2. storageEvents = {} => \A t \in Tabs : updateTab[t].dismissed = dismissal
  BY DEF UpdatesInv, TabsAreTold
<1> QED
  BY <1>1, <1>2 DEF ChecksAreGated

(* A check never takes a known release back.                               *)
LEMMA UpdatesKeep == UpdatesInv /\ [UpdatesNext]_updateVars => KnownReleaseStays
<1> SUFFICES ASSUME UpdatesInv, [UpdatesNext]_updateVars, lastCheck' # lastCheck,
                    IsKnown(lastCheck)
             PROVE  lastCheck'.release # NoCheck /\ lastCheck'.release >= lastCheck.release
  BY DEF KnownReleaseStays, IsKnown
<1>1. PICK c \in Checks : StoreCache(c)
  <2>1. ~(SetAutomatic \/ Release \/ PassTime)
    BY DEF SetAutomatic, Release, PassTime
  <2>2. \A c \in Checks : ~(AskGate(c) \/ FetchManifest(c) \/ ShowUpdates(c) \/ LoseCheck(c))
    BY DEF AskGate, FetchManifest, ShowUpdates, LoseCheck
  <2>3. \A c \in Checks, t \in Tabs, force \in BOOLEAN : ~ReadCache(c, t, force)
    BY DEF ReadCache
  <2>4. \A t \in Tabs : ~(Dismiss(t) \/ RestoreNotice(t))
    BY DEF Dismiss, RestoreNotice, StoreDismissal
  <2>5. \A event \in storageEvents : ~SyncTab(event)
    BY DEF SyncTab
  <2> QED
    BY <2>1, <2>2, <2>3, <2>4, <2>5 DEF UpdatesNext
<1>2. CheckFits(check[c], gate) /\ check[c].at = "store" /\ lastCheck' = check[c].row
  BY <1>1 DEF StoreCache, UpdatesInv, ChecksFit
<1>3. KeepsWhatIsKnown(check[c].row)
  BY <1>2 DEF CheckFits
<1> QED
  BY <1>2, <1>3 DEF KeepsWhatIsKnown, IsKnown

USE DEF tagVars

-----------------------------------------------------------------------------
(* Tags.  A request that was judged goes where its editor is in charge; a  *)
(* dialog holds what it does not list as it was; a ticket has real tags.   *)
RequestIsMeant(call) ==
  /\ call.op # "delete" => call.body \in TagRow
  /\ call.stage \in {"resolved", "deleted"} =>
       call.body \in TagRow /\ ManagesTag(call.by, call.administered, call.body)
TagRequestsAreMeant == \A r \in TagCalls : tagCall[r] # NoTag => RequestIsMeant(tagCall[r])
TaggedExist == \A t \in tagged : tag[t] # NoTag
DialogKeepsUnlisted ==
  dialog # NoTag => Unlisted(dialog.row.scopes) = Unlisted(dialog.opened)

TagsInv == TagsTypeOK /\ TagRequestsAreMeant /\ TaggedExist /\ DialogKeepsUnlisted

LEMMA NoTagIsNone ==
  /\ NoTag \notin TagRow /\ NoTag \notin TagQueues /\ NoTag \notin Topics /\ NoTag \notin TagIds
  /\ NoTag \notin TagRequest /\ NoTag \notin TagDialog /\ MaxTagChanges \in Nat
BY TagsAssumption

LEMMA TagsInvInit == TagsInit => TagsInv
<1> SUFFICES ASSUME TagsInit PROVE TagsInv
  OBVIOUS
<1>1. PICK home \in TagQueues : topicQueue = [c \in Topics |-> home]
  BY DEF TagsInit
<1> DEFINE limited == {[allDepartments |-> FALSE,
                        scopes |-> {[queueId |-> topicQueue[c], categoryId |-> c]}] : c \in Topics}
           everywhere == [allDepartments |-> TRUE, scopes |-> {}]
<1>2. limited \subseteq TagRow
  <2>1. \A c \in Topics : {[queueId |-> topicQueue[c], categoryId |-> c]} \in SUBSET Scope
    BY <1>1 DEF Scope
  <2>2. \A scopes \in SUBSET Scope : [allDepartments |-> FALSE, scopes |-> scopes] \in TagRow
    BY DEF TagRow
  <2> QED
    BY <2>1, <2>2
<1>3. everywhere \in TagRow
  BY DEF TagRow
<1>4. tag \in [TagIds -> {NoTag, everywhere} \cup limited]
  BY DEF TagsInit
<1> HIDE DEF limited, everywhere
<1>5. tag \in [TagIds -> TagRow \cup {NoTag}]
  BY <1>2, <1>3, <1>4
<1>6. TagsTypeOK
  BY <1>1, <1>5, NoTagIsNone DEF TagsInit, TagsTypeOK
<1>7. TagRequestsAreMeant
  BY DEF TagsInit, TagRequestsAreMeant
<1>8. TaggedExist /\ DialogKeepsUnlisted
  BY DEF TagsInit, TaggedExist, DialogKeepsUnlisted
<1> QED
  BY <1>6, <1>7, <1>8 DEF TagsInv

LEMMA TagChangeCounts == ASSUME TagsTypeOK, CountTagChange PROVE tagChanges' \in 0 .. MaxTagChanges
BY NoTagIsNone DEF TagsTypeOK, CountTagChange

(* A request moves, and may write one tag.                                 *)
LEMMA TagRequestMoves ==
  ASSUME TagsInv, NEW r \in TagCalls, NEW call \in TagRequest \cup {NoTag},
         call # NoTag => RequestIsMeant(call),
         tagCall' = [tagCall EXCEPT ![r] = call], tagChanges' \in 0 .. MaxTagChanges,
         UNCHANGED <<topicQueue, queues, administers, dialog>>,
         tag' \in [TagIds -> TagRow \cup {NoTag}],
         tagged' \subseteq tagged, \A t \in tagged' : tag'[t] # NoTag
  PROVE  TagsInv'
<1>1. TagsTypeOK'
  BY DEF TagsInv, TagsTypeOK
<1>2. TagRequestsAreMeant'
  <2>1. \A x \in TagCalls : tagCall'[x] = IF x = r THEN call ELSE tagCall[x]
    BY DEF TagsInv, TagsTypeOK
  <2>2. \A x \in TagCalls : tagCall'[x] # NoTag => RequestIsMeant(tagCall'[x])
    BY <2>1 DEF TagsInv, TagRequestsAreMeant
  <2> QED
    BY <2>2 DEF TagRequestsAreMeant, RequestIsMeant, ManagesTag
<1>3. TaggedExist' /\ DialogKeepsUnlisted'
  BY DEF TagsInv, TaggedExist, DialogKeepsUnlisted, Unlisted, Listed
<1> QED
  BY <1>1, <1>2, <1>3 DEF TagsInv

LEMMA EndsTagCall ==
  ASSUME TagsInv, NEW r \in TagCalls, EndTagCall(r), UNCHANGED tagChanges,
         UNCHANGED <<topicQueue, queues, administers, dialog>>,
         tag' \in [TagIds -> TagRow \cup {NoTag}],
         tagged' \subseteq tagged, \A t \in tagged' : tag'[t] # NoTag
  PROVE  TagsInv'
BY TagRequestMoves DEF EndTagCall, TagsInv, TagsTypeOK

LEMMA LoadsTag ==
  ASSUME TagsInv, NEW r \in TagCalls, NEW by \in TagEditors,
         NEW op \in {"create", "update", "delete"}, NEW t \in TagIds,
         NEW body \in TagRow \cup {NoTag}, op # "delete" => body \in TagRow,
         LoadTag(r, by, op, t, body)
  PROVE  TagsInv'
<1> DEFINE call == [by |-> by, op |-> op, tag |-> t, body |-> body, administered |-> administers,
                    seen |-> {}, stage |-> "loaded"]
<1>1. tagCall' = [tagCall EXCEPT ![r] = call]
  BY DEF LoadTag
<1>2. call \in TagRequest
  BY DEF TagsInv, TagsTypeOK, TagRequest
<1>3. RequestIsMeant(call)
  BY DEF RequestIsMeant
<1>4. UNCHANGED <<tag, topicQueue, queues, administers, tagged, dialog>>
  BY DEF LoadTag
<1>5. tagChanges' \in 0 .. MaxTagChanges
  BY TagChangeCounts DEF LoadTag, TagsInv
<1> HIDE DEF call
<1> QED
  BY <1>1, <1>2, <1>3, <1>4, <1>5, TagRequestMoves DEF TagsInv, TagsTypeOK, TaggedExist

LEMMA TagBodies == TagBody \subseteq TagRow
<1>1. [allDepartments |-> TRUE, scopes |-> {}] \in TagRow
  BY DEF TagRow
<1>2. \A s \in Scope : {s} \in SUBSET Scope
  OBVIOUS
<1>3. \A s \in Scope : [allDepartments |-> FALSE, scopes |-> {s}] \in TagRow
  BY <1>2 DEF TagRow
<1> QED
  BY <1>1, <1>3 DEF TagBody

LEMMA ResolvesScopes == ASSUME TagsInv, NEW r \in TagCalls, ResolveScopes(r) PROVE TagsInv'
<1>1. tagCall[r] \in TagRequest /\ RequestIsMeant(tagCall[r]) /\ tagCall[r].op # "delete"
  BY DEF ResolveScopes, TagStep, TagsInv, TagsTypeOK, TagRequestsAreMeant
<1> DEFINE body == tagCall[r].body
           scopes == IF body.allDepartments THEN {} ELSE NormalizeTagScopes(body.scopes)
           row == [allDepartments |-> body.allDepartments, scopes |-> scopes]
           call == [tagCall[r] EXCEPT !.stage = "resolved", !.body = row]
<1>2. body \in TagRow
  BY <1>1 DEF RequestIsMeant
<1>3. ManagesTag(tagCall[r].by, tagCall[r].administered, row)
  BY DEF ResolveScopes
<1>4. tagCall' = [tagCall EXCEPT ![r].stage = "resolved", ![r].body = row]
  BY DEF ResolveScopes
<1>5. scopes \subseteq Scope
  <2>1. body.scopes \subseteq Scope
    BY <1>2 DEF TagRow
  <2>2. NormalizeTagScopes(body.scopes) \subseteq body.scopes
    BY DEF NormalizeTagScopes
  <2> HIDE DEF body
  <2> QED
    BY <2>1, <2>2
<1> HIDE DEF scopes
<1>6. row \in TagRow
  BY <1>2, <1>5 DEF TagRow
<1> HIDE DEF row
<1>7. call \in TagRequest /\ call.stage = "resolved" /\ call.body = row
      /\ call.by = tagCall[r].by /\ call.administered = tagCall[r].administered
  BY <1>1, <1>6 DEF TagRequest
<1>8. tagCall' = [tagCall EXCEPT ![r] = call]
  BY <1>1, <1>4 DEF TagsInv, TagsTypeOK, TagRequest
<1> HIDE DEF call
<1>9. RequestIsMeant(call)
  BY <1>3, <1>6, <1>7 DEF RequestIsMeant
<1>10. UNCHANGED <<tag, topicQueue, queues, administers, tagged, dialog, tagChanges>>
  BY DEF ResolveScopes
<1> QED
  BY <1>7, <1>8, <1>9, <1>10, TagRequestMoves DEF TagsInv, TagsTypeOK, TaggedExist

LEMMA CreatesTag == ASSUME TagsInv, NEW r \in TagCalls, CreateTag(r) PROVE TagsInv'
<1>1. tagCall[r] \in TagRequest /\ tagCall[r].body \in TagRow
  BY DEF CreateTag, TagStep, TagsInv, TagsTypeOK, TagRequestsAreMeant, RequestIsMeant
<1>2. /\ tag' = [tag EXCEPT ![tagCall[r].tag] = tagCall[r].body] /\ EndTagCall(r)
      /\ UNCHANGED <<topicQueue, queues, administers, tagged, dialog, tagChanges>>
  BY DEF CreateTag
<1>3. tag' \in [TagIds -> TagRow \cup {NoTag}]
  BY <1>1, <1>2 DEF TagsInv, TagsTypeOK
<1>4. \A t \in tagged' : tag'[t] # NoTag
  BY <1>1, <1>2, NoTagIsNone DEF TagsInv, TagsTypeOK, TaggedExist
<1> QED
  BY <1>2, <1>3, <1>4, EndsTagCall

LEMMA DeletesScopes == ASSUME TagsInv, NEW r \in TagCalls, DeleteScopes(r) PROVE TagsInv'
<1>1. tagCall[r] \in TagRequest /\ RequestIsMeant(tagCall[r]) /\ tagCall[r].stage = "resolved"
  BY DEF DeleteScopes, TagStep, TagsInv, TagsTypeOK, TagRequestsAreMeant
<1> DEFINE hadScopes == tag[tagCall[r].tag].scopes
           call == [tagCall[r] EXCEPT !.stage = "deleted", !.seen = hadScopes]
<1>2. hadScopes \in SUBSET Scope
  BY <1>1 DEF DeleteScopes, TagExists, TagsInv, TagsTypeOK, TagRequest, TagRow
<1>3. tagCall' = [tagCall EXCEPT ![r].stage = "deleted", ![r].seen = hadScopes]
  BY DEF DeleteScopes
<1> HIDE DEF hadScopes
<1>4. call \in TagRequest /\ call.stage = "deleted" /\ call.body = tagCall[r].body
      /\ call.by = tagCall[r].by /\ call.administered = tagCall[r].administered
  BY <1>1, <1>2 DEF TagRequest
<1>5. tagCall' = [tagCall EXCEPT ![r] = call]
  BY <1>1, <1>3 DEF TagsInv, TagsTypeOK, TagRequest
<1> HIDE DEF call
<1>6. RequestIsMeant(call)
  BY <1>1, <1>4 DEF RequestIsMeant
<1>7. UNCHANGED <<tag, topicQueue, queues, administers, tagged, dialog, tagChanges>>
  BY DEF DeleteScopes
<1> QED
  BY <1>4, <1>5, <1>6, <1>7, TagRequestMoves DEF TagsInv, TagsTypeOK, TaggedExist

LEMMA CommitsUpdate == ASSUME TagsInv, NEW r \in TagCalls, CommitUpdateTag(r) PROVE TagsInv'
<1>1. tagCall[r] \in TagRequest /\ tagCall[r].body \in TagRow /\ tagCall[r].tag \in TagIds
      /\ tag[tagCall[r].tag] \in TagRow
  BY DEF CommitUpdateTag, TagStep, TagExists, TagsInv, TagsTypeOK, TagRequestsAreMeant,
         RequestIsMeant, TagRequest
<1> DEFINE t == tagCall[r].tag
           kept == tag[t].scopes \ tagCall[r].seen
           row == tagCall[r].body
           new == [allDepartments |-> row.allDepartments, scopes |-> kept \cup row.scopes]
<1>2. new \in TagRow
  BY <1>1 DEF TagRow
<1>3. /\ tag' = [tag EXCEPT ![t] = new] /\ EndTagCall(r)
      /\ UNCHANGED <<topicQueue, queues, administers, tagged, dialog, tagChanges>>
  BY DEF CommitUpdateTag
<1> HIDE DEF new
<1>4. tag' \in [TagIds -> TagRow \cup {NoTag}]
  BY <1>1, <1>2, <1>3 DEF TagsInv, TagsTypeOK
<1>5. \A x \in tagged' : tag'[x] # NoTag
  BY <1>1, <1>2, <1>3, NoTagIsNone DEF TagsInv, TagsTypeOK, TaggedExist
<1> QED
  BY <1>3, <1>4, <1>5, EndsTagCall

LEMMA DeletesTag == ASSUME TagsInv, NEW r \in TagCalls, DeleteTag(r) PROVE TagsInv'
<1>1. /\ tag' = [tag EXCEPT ![tagCall[r].tag] = NoTag] /\ EndTagCall(r)
      /\ tagged' = tagged \ {tagCall[r].tag}
      /\ UNCHANGED <<topicQueue, queues, administers, dialog, tagChanges>>
  BY DEF DeleteTag
<1>2. tag' \in [TagIds -> TagRow \cup {NoTag}]
  BY <1>1 DEF TagsInv, TagsTypeOK
<1>3. \A x \in tagged' : tag'[x] # NoTag
  BY <1>1 DEF TagsInv, TagsTypeOK, TaggedExist
<1> QED
  BY <1>1, <1>2, <1>3, EndsTagCall

LEMMA RefusesTagCall == ASSUME TagsInv, NEW r \in TagCalls, RefuseTagCall(r) PROVE TagsInv'
BY EndsTagCall DEF RefuseTagCall, TagsInv, TagsTypeOK, TaggedExist

(* Around the tags.                                                        *)
LEMMA ScopesAreLost ==
  ASSUME TagsTypeOK, NEW gone, NEW t \in TagIds
  PROVE  /\ WithoutScopes(gone)[t] \in TagRow \cup {NoTag}
         /\ WithoutScopes(gone)[t] = NoTag <=> tag[t] = NoTag
         /\ tag[t] # NoTag =>
              /\ WithoutScopes(gone)[t].allDepartments = tag[t].allDepartments
              /\ WithoutScopes(gone)[t].scopes \subseteq tag[t].scopes
<1>1. CASE tag[t] = NoTag
  BY <1>1 DEF WithoutScopes, TagExists
<1>2. CASE tag[t] # NoTag
  <2>1. WithoutScopes(gone)[t] = [tag[t] EXCEPT !.scopes = tag[t].scopes \ gone]
    BY <1>2 DEF WithoutScopes, TagExists
  <2>2. tag[t] \in TagRow
    BY <1>2 DEF TagsTypeOK
  <2> DEFINE left == tag[t].scopes \ gone
  <2>3. left \in SUBSET Scope /\ left \subseteq tag[t].scopes
    BY <2>2 DEF TagRow
  <2>4. WithoutScopes(gone)[t] = [tag[t] EXCEPT !.scopes = left]
    BY <2>1
  <2> HIDE DEF left
  <2>5. WithoutScopes(gone)[t] \in TagRow
    BY <2>2, <2>3, <2>4 DEF TagRow
  <2>6. /\ WithoutScopes(gone)[t].allDepartments = tag[t].allDepartments
        /\ WithoutScopes(gone)[t].scopes = left
    BY <2>2, <2>4 DEF TagRow
  <2> QED
    BY <1>2, <2>3, <2>5, <2>6, NoTagIsNone
<1> QED
  BY <1>1, <1>2

LEMMA PlacesChange ==
  ASSUME TagsInv, topicQueue' \in [Topics -> TagQueues \cup {NoTag}],
         administers' \subseteq queues', queues' \subseteq TagQueues,
         tagChanges' \in 0 .. MaxTagChanges, UNCHANGED <<tagCall, tagged, dialog>>,
         tag' \in [TagIds -> TagRow \cup {NoTag}], \A t \in TagIds : tag[t] # NoTag => tag'[t] # NoTag
  PROVE  TagsInv'
<1>1. TagsTypeOK'
  BY DEF TagsInv, TagsTypeOK
<1>2. TagRequestsAreMeant' /\ DialogKeepsUnlisted'
  BY DEF TagsInv, TagRequestsAreMeant, RequestIsMeant, ManagesTag, DialogKeepsUnlisted, Unlisted,
         Listed
<1>3. TaggedExist'
  BY DEF TagsInv, TagsTypeOK, TaggedExist
<1> QED
  BY <1>1, <1>2, <1>3 DEF TagsInv

LEMMA LosesPlaces ==
  ASSUME TagsInv, NEW gone, tag' = WithoutScopes(gone),
         topicQueue' \in [Topics -> TagQueues \cup {NoTag}],
         administers' \subseteq queues', queues' \subseteq TagQueues,
         tagChanges' \in 0 .. MaxTagChanges, UNCHANGED <<tagCall, tagged, dialog>>
  PROVE  TagsInv'
<1>1. \A t \in TagIds :
        /\ tag'[t] \in TagRow \cup {NoTag}
        /\ tag[t] # NoTag => tag'[t] # NoTag
  BY ScopesAreLost DEF TagsInv
<1>2. tag' = [t \in TagIds |-> tag'[t]]
  BY DEF WithoutScopes
<1>3. tag' \in [TagIds -> TagRow \cup {NoTag}]
  <2>1. \A t \in TagIds : tag'[t] \in TagRow \cup {NoTag}
    BY <1>1, Zenon
  <2> QED
    BY <1>2, <2>1
<1> QED
  BY <1>1, <1>3, PlacesChange

LEMMA RemovesQueue == ASSUME TagsInv, NEW q \in TagQueues, RemoveQueue(q) PROVE TagsInv'
<1>1. tag' = WithoutScopes({s \in Scope : s.queueId = q})
  BY DEF RemoveQueue
<1>2. /\ topicQueue' \in [Topics -> TagQueues \cup {NoTag}] /\ administers' \subseteq queues'
      /\ queues' \subseteq TagQueues /\ UNCHANGED <<tagCall, tagged, dialog>>
  BY DEF RemoveQueue, TagsInv, TagsTypeOK
<1>3. tagChanges' \in 0 .. MaxTagChanges
  BY TagChangeCounts DEF RemoveQueue, TagsInv
<1> QED
  BY <1>1, <1>2, <1>3, LosesPlaces

LEMMA RemovesTopic == ASSUME TagsInv, NEW c \in Topics, RemoveTopic(c) PROVE TagsInv'
<1>1. tag' = WithoutScopes({s \in Scope : s.categoryId = c})
  BY DEF RemoveTopic
<1>2. /\ topicQueue' \in [Topics -> TagQueues \cup {NoTag}] /\ administers' \subseteq queues'
      /\ queues' \subseteq TagQueues /\ UNCHANGED <<tagCall, tagged, dialog>>
  BY DEF RemoveTopic, TagsInv, TagsTypeOK
<1>3. tagChanges' \in 0 .. MaxTagChanges
  BY TagChangeCounts DEF RemoveTopic, TagsInv
<1> QED
  BY <1>1, <1>2, <1>3, LosesPlaces

LEMMA MovesTopic ==
  ASSUME TagsInv, NEW c \in Topics, NEW q \in TagQueues, MoveTopic(c, q) PROVE TagsInv'
<1>1. /\ topicQueue' \in [Topics -> TagQueues \cup {NoTag}] /\ administers' \subseteq queues'
      /\ queues' \subseteq TagQueues /\ UNCHANGED <<tag, tagCall, tagged, dialog>>
  BY DEF MoveTopic, TagsInv, TagsTypeOK
<1>2. tagChanges' \in 0 .. MaxTagChanges
  BY TagChangeCounts DEF MoveTopic, TagsInv
<1> QED
  BY <1>1, <1>2, PlacesChange DEF TagsInv, TagsTypeOK

LEMMA ReplacesAdministered ==
  ASSUME TagsInv, NEW administered \in SUBSET TagQueues, ReplaceAdministered(administered)
  PROVE  TagsInv'
<1>1. /\ administers' \subseteq queues' /\ queues' \subseteq TagQueues
      /\ UNCHANGED <<tag, topicQueue, tagCall, tagged, dialog>>
  BY DEF ReplaceAdministered, TagsInv, TagsTypeOK
<1>2. tagChanges' \in 0 .. MaxTagChanges
  BY TagChangeCounts DEF ReplaceAdministered, TagsInv
<1> QED
  BY <1>1, <1>2, PlacesChange DEF TagsInv, TagsTypeOK

LEMMA TagsTicket ==
  ASSUME TagsInv, NEW tags \in SUBSET TagIds, NEW q, NEW c, TagTicket(tags, q, c) PROVE TagsInv'
<1>1. tagged' = tags /\ UNCHANGED <<tag, topicQueue, queues, administers, tagCall, dialog, tagChanges>>
  BY DEF TagTicket
<1>2. TagsTypeOK'
  BY <1>1 DEF TagsInv, TagsTypeOK
<1>3. TaggedExist'
  BY <1>1 DEF TagTicket, TagsInv, TaggedExist, TagExists
<1>4. TagRequestsAreMeant' /\ DialogKeepsUnlisted'
  BY <1>1 DEF TagsInv, TagRequestsAreMeant, RequestIsMeant, ManagesTag, DialogKeepsUnlisted,
              Unlisted, Listed
<1> QED
  BY <1>2, <1>3, <1>4 DEF TagsInv

(* The dialog.                                                             *)
LEMMA DialogMoves ==
  ASSUME TagsInv, NEW new \in TagDialog, dialog' = new,
         {s \in new.row.scopes : s.queueId \notin new.listed} =
           {s \in new.opened : s.queueId \notin new.listed},
         UNCHANGED <<tag, topicQueue, queues, administers, tagCall, tagged, tagChanges>>
  PROVE  TagsInv'
<1>1. TagsTypeOK'
  BY DEF TagsInv, TagsTypeOK
<1>2. DialogKeepsUnlisted'
  BY DEF DialogKeepsUnlisted, Unlisted, Listed
<1>3. TaggedExist' /\ TagRequestsAreMeant'
  BY DEF TagsInv, TaggedExist, TagRequestsAreMeant, RequestIsMeant, ManagesTag
<1> QED
  BY <1>1, <1>2, <1>3 DEF TagsInv

LEMMA OpensDialog ==
  ASSUME TagsInv, NEW by \in TagEditors, NEW t \in TagIds, OpenDialog(by, t) PROVE TagsInv'
<1> DEFINE row == IF TagExists(t) THEN tag[t]
                  ELSE [allDepartments |-> by = "SUPER_ADMIN", scopes |-> {}]
           op == IF TagExists(t) THEN "update" ELSE "create"
           new == [op |-> op, tag |-> t, by |-> by, listed |-> ListedFor(by),
                   queueOf |-> topicQueue, row |-> row, opened |-> row.scopes]
<1>1. dialog' = new
  BY DEF OpenDialog
<1>2. row \in TagRow
  <2>1. CASE TagExists(t)
    BY <2>1 DEF TagExists, TagsInv, TagsTypeOK
  <2>2. CASE ~TagExists(t)
    <3>1. row = [allDepartments |-> by = "SUPER_ADMIN", scopes |-> {}]
      BY <2>2
    <3>2. PICK everywhere \in BOOLEAN : everywhere = (by = "SUPER_ADMIN")
      OBVIOUS
    <3>3. row = [allDepartments |-> everywhere, scopes |-> {}]
      BY <3>1, <3>2
    <3> HIDE DEF row
    <3> QED
      BY <3>3 DEF TagRow
  <2> QED
    BY <2>1, <2>2
<1>3. ListedFor(by) \in SUBSET TagQueues /\ topicQueue \in [Topics -> TagQueues \cup {NoTag}]
  BY DEF ListedFor, TagsInv, TagsTypeOK
<1>4. op \in {"update", "create"}
  OBVIOUS
<1> HIDE DEF row, op
<1>5. new \in TagDialog /\ new.row.scopes = new.opened
  BY <1>2, <1>3, <1>4 DEF TagDialog, TagRow
<1>6. UNCHANGED <<tag, topicQueue, queues, administers, tagCall, tagged, tagChanges>>
  BY DEF OpenDialog
<1> HIDE DEF new
<1> QED
  BY <1>1, <1>5, <1>6, DialogMoves

(* What is picked among the listed departments adds to those only.         *)
LEMMA PickedScopes ==
  ASSUME TagsInv, dialog # NoTag, NEW queueIds \in SUBSET TagQueues,
         queueIds \subseteq dialog.listed, NEW topics \in SUBSET Topics,
         EditDialog(ScopesFor(queueIds, topics)),
         UNCHANGED <<tag, topicQueue, queues, administers, tagCall, tagged, tagChanges>>
  PROVE  TagsInv'
<1> DEFINE picked == ScopesFromSelection(queueIds, topics, QueueOf)
           scopes == Unlisted(dialog.row.scopes) \cup picked
           row == [dialog.row EXCEPT !.scopes = scopes]
           new == [dialog EXCEPT !.row = row]
<1>1. dialog \in TagDialog /\ dialog.row \in TagRow
  BY DEF TagsInv, TagsTypeOK, TagDialog
<1>2. ASSUME NEW s \in picked PROVE s \in Scope /\ s.queueId \in queueIds
  <2>1. PICK q \in queueIds :
          s \in IF {c \in topics : QueueOf[c] = q} = {} THEN {[queueId |-> q, categoryId |-> NoTag]}
                ELSE {[queueId |-> q, categoryId |-> c] : c \in {c \in topics : QueueOf[c] = q}}
    BY <1>2 DEF ScopesFromSelection
  <2>2. s = [queueId |-> q, categoryId |-> NoTag] \/ \E c \in topics : s = [queueId |-> q, categoryId |-> c]
    BY <2>1
  <2> QED
    BY <2>2 DEF Scope
<1>3. dialog' = new
  BY DEF EditDialog, ScopesFor
<1> HIDE DEF picked
<1>4. scopes \in SUBSET Scope
  BY <1>1, <1>2 DEF Unlisted, Listed, TagRow
<1>5. {s \in scopes : s.queueId \notin dialog.listed} =
        {s \in dialog.row.scopes : s.queueId \notin dialog.listed}
  BY <1>2 DEF Unlisted, Listed
<1>6. {s \in dialog.row.scopes : s.queueId \notin dialog.listed} =
        {s \in dialog.opened : s.queueId \notin dialog.listed}
  BY DEF TagsInv, DialogKeepsUnlisted, Unlisted, Listed
<1> HIDE DEF scopes
<1>7. row \in TagRow /\ row.scopes = scopes
  BY <1>1, <1>4 DEF TagRow
<1> HIDE DEF row
<1>8. new \in TagDialog /\ new.row = row /\ new.listed = dialog.listed /\ new.opened = dialog.opened
  BY <1>1, <1>7 DEF TagDialog
<1> HIDE DEF new
<1> QED
  BY <1>3, <1>5, <1>6, <1>7, <1>8, DialogMoves

LEMMA SelectedArePlaces ==
  ASSUME TagsInv, dialog # NoTag
  PROVE  /\ SelectedTopics \in SUBSET Topics /\ SelectedQueues \in SUBSET TagQueues
         /\ SelectedQueues \subseteq dialog.listed
BY DEF TagsInv, TagsTypeOK, TagDialog, TagRow, Scope, SelectedTopics, SelectedQueues, Listed

LEMMA PicksQueues ==
  ASSUME TagsInv, NEW queueIds \in SUBSET TagQueues, PickQueues(queueIds) PROVE TagsInv'
BY PickedScopes, SelectedArePlaces DEF PickQueues

LEMMA PicksTopics ==
  ASSUME TagsInv, NEW topics \in SUBSET Topics, PickTopics(topics) PROVE TagsInv'
BY PickedScopes, SelectedArePlaces DEF PickTopics

LEMMA PicksAll == ASSUME TagsInv, NEW all \in BOOLEAN, PickAll(all) PROVE TagsInv'
<1> DEFINE row == [dialog.row EXCEPT !.allDepartments = all]
           new == [dialog EXCEPT !.row = row]
<1>1. dialog \in TagDialog /\ dialog.row \in TagRow
  BY DEF PickAll, TagsInv, TagsTypeOK, TagDialog
<1>2. row \in TagRow /\ row.scopes = dialog.row.scopes
  BY <1>1 DEF TagRow
<1>3. dialog' = new /\ UNCHANGED <<tag, topicQueue, queues, administers, tagCall, tagged, tagChanges>>
  BY DEF PickAll
<1> HIDE DEF row
<1>4. new \in TagDialog /\ new.row = row /\ new.listed = dialog.listed /\ new.opened = dialog.opened
  BY <1>1, <1>2 DEF TagDialog
<1>5. {s \in dialog.row.scopes : s.queueId \notin dialog.listed} =
        {s \in dialog.opened : s.queueId \notin dialog.listed}
  BY DEF PickAll, TagsInv, DialogKeepsUnlisted, Unlisted, Listed
<1> HIDE DEF new
<1> QED
  BY <1>2, <1>3, <1>4, <1>5, DialogMoves

LEMMA DialogEnds ==
  ASSUME TagsInv, dialog' = NoTag, NEW call \in TagRequest, NEW r \in TagCalls, RequestIsMeant(call),
         tagCall' = [tagCall EXCEPT ![r] = call],
         tagChanges' \in 0 .. MaxTagChanges,
         UNCHANGED <<tag, topicQueue, queues, administers, tagged>>
  PROVE  TagsInv'
<1>1. TagsTypeOK'
  BY DEF TagsInv, TagsTypeOK
<1>2. \A x \in TagCalls : tagCall'[x] # NoTag => RequestIsMeant(tagCall'[x])
  BY DEF TagsInv, TagsTypeOK, TagRequestsAreMeant
<1>3. TagRequestsAreMeant'
  BY <1>2 DEF TagRequestsAreMeant, RequestIsMeant, ManagesTag
<1>4. TaggedExist' /\ DialogKeepsUnlisted'
  BY DEF TagsInv, TaggedExist, DialogKeepsUnlisted
<1> QED
  BY <1>1, <1>3, <1>4 DEF TagsInv

LEMMA SavesDialog == ASSUME TagsInv, NEW r \in TagCalls, SaveDialog(r) PROVE TagsInv'
<1> DEFINE call == [by |-> dialog.by, op |-> dialog.op, tag |-> dialog.tag, body |-> dialog.row,
                    administered |-> administers, seen |-> {}, stage |-> "loaded"]
<1>1. dialog \in TagDialog
  BY DEF SaveDialog, TagsInv, TagsTypeOK
<1>2. call \in TagRequest
  BY <1>1 DEF TagsInv, TagsTypeOK, TagDialog, TagRequest
<1>3. RequestIsMeant(call)
  BY <1>1 DEF RequestIsMeant, TagDialog
<1>4. tagCall' = [tagCall EXCEPT ![r] = call] /\ dialog' = NoTag
      /\ UNCHANGED <<tag, topicQueue, queues, administers, tagged>>
  BY DEF SaveDialog
<1>5. tagChanges' \in 0 .. MaxTagChanges
  BY TagChangeCounts DEF SaveDialog, TagsInv
<1> HIDE DEF call
<1> QED
  BY <1>2, <1>3, <1>4, <1>5, DialogEnds

LEMMA ClosesDialog == ASSUME TagsInv, CloseDialog PROVE TagsInv'
<1>1. dialog' = NoTag /\ UNCHANGED <<tag, topicQueue, queues, administers, tagCall, tagged, tagChanges>>
  BY DEF CloseDialog
<1>2. TagsTypeOK'
  BY <1>1 DEF TagsInv, TagsTypeOK
<1>3. TaggedExist' /\ DialogKeepsUnlisted' /\ TagRequestsAreMeant'
  BY <1>1 DEF TagsInv, TaggedExist, DialogKeepsUnlisted, TagRequestsAreMeant, RequestIsMeant,
              ManagesTag
<1> QED
  BY <1>2, <1>3 DEF TagsInv

LEMMA TagsInvStep == TagsInv /\ [TagsNext]_tagVars => TagsInv'
<1> SUFFICES ASSUME TagsInv, [TagsNext]_tagVars PROVE TagsInv'
  OBVIOUS
<1>1. CASE UNCHANGED tagVars
  BY <1>1 DEF TagsInv, TagsTypeOK, TagRequestsAreMeant, RequestIsMeant, ManagesTag, TaggedExist,
              DialogKeepsUnlisted, Unlisted, Listed
<1>2. ASSUME NEW r \in TagCalls, NEW by \in TagEditors, NEW op \in {"create", "update"},
             NEW t \in TagIds, NEW body \in TagBody, LoadTag(r, by, op, t, body)
      PROVE  TagsInv'
  BY <1>2, TagBodies, LoadsTag
<1>3. ASSUME NEW r \in TagCalls, NEW by \in TagEditors, NEW t \in TagIds,
             LoadTag(r, by, "delete", t, NoTag)
      PROVE  TagsInv'
  BY <1>3, LoadsTag
<1>4. ASSUME NEW r \in TagCalls,
             ResolveScopes(r) \/ CreateTag(r) \/ DeleteScopes(r) \/ CommitUpdateTag(r)
               \/ DeleteTag(r) \/ RefuseTagCall(r) \/ SaveDialog(r)
      PROVE  TagsInv'
  BY <1>4, ResolvesScopes, CreatesTag, DeletesScopes, CommitsUpdate, DeletesTag, RefusesTagCall,
     SavesDialog
<1>5. ASSUME NEW q \in TagQueues, RemoveQueue(q) PROVE TagsInv'
  BY <1>5, RemovesQueue
<1>6. ASSUME NEW c \in Topics, RemoveTopic(c) \/ \E q \in TagQueues : MoveTopic(c, q)
      PROVE  TagsInv'
  BY <1>6, RemovesTopic, MovesTopic
<1>7. ASSUME NEW administered \in SUBSET TagQueues, ReplaceAdministered(administered)
      PROVE  TagsInv'
  BY <1>7, ReplacesAdministered
<1>8. ASSUME NEW tags \in SUBSET TagIds, NEW q \in TagQueues, NEW c \in Topics \cup {NoTag},
             TagTicket(tags, q, c)
      PROVE  TagsInv'
  BY <1>8, TagsTicket
<1>9. ASSUME NEW by \in TagEditors, NEW t \in TagIds, OpenDialog(by, t) PROVE TagsInv'
  BY <1>9, OpensDialog
<1>10. ASSUME NEW queueIds \in SUBSET TagQueues, PickQueues(queueIds) PROVE TagsInv'
  BY <1>10, PicksQueues
<1>11. ASSUME NEW topics \in SUBSET Topics, PickTopics(topics) PROVE TagsInv'
  BY <1>11, PicksTopics
<1>12. ASSUME NEW all \in BOOLEAN, PickAll(all) PROVE TagsInv'
  BY <1>12, PicksAll
<1>13. CASE CloseDialog
  BY <1>13, ClosesDialog
<1> QED
  BY <1>1, <1>2, <1>3, <1>4, <1>5, <1>6, <1>7, <1>8, <1>9, <1>10, <1>11, <1>12, <1>13, Zenon
  DEF TagsNext

LEMMA TagsInvMeans == TagsInv => TagsTypeOK
BY DEF TagsInv

(* Who makes a tag available somewhere is in charge there.                 *)
LEMMA TagsSpread == TagsInv /\ [TagsNext]_tagVars => TagsSpreadByRight
<1> SUFFICES ASSUME TagsInv, [TagsNext]_tagVars PROVE TagsSpreadByRight
  OBVIOUS
<1> DEFINE Charged(q) == \E r \in TagCalls :
             /\ tagCall[r] # NoTag /\ tagCall'[r] = NoTag
             /\ tagCall[r].by = "SUPER_ADMIN" \/ q \in tagCall[r].administered
           Available(row, q, c) ==
             row # NoTag /\ (row.allDepartments
               \/ \E s \in row.scopes : s.queueId = q /\ s.categoryId \in {NoTag, c})
<1>1. \A t \in tagged' : TagExists(t)'
  BY TagsInvStep DEF TagsInv, TaggedExist, TagExists
<1>2. dialog # NoTag /\ dialog' # NoTag =>
        Unlisted(dialog'.row.scopes) = Unlisted(dialog'.opened)
  <2> SUFFICES ASSUME dialog # NoTag, dialog' # NoTag
               PROVE  Unlisted(dialog'.row.scopes) = Unlisted(dialog'.opened)
    OBVIOUS
  <2>1. dialog'.listed = dialog.listed
    <3>1. dialog \in TagDialog
      BY DEF TagsInv, TagsTypeOK
    <3>2. ASSUME NEW new, dialog' = [dialog EXCEPT !.row = new] PROVE dialog'.listed = dialog.listed
      BY <3>1, <3>2 DEF TagDialog
    <3>3. ASSUME NEW queueIds, PickQueues(queueIds) PROVE dialog'.listed = dialog.listed
      BY <3>2, <3>3 DEF PickQueues, EditDialog
    <3>4. ASSUME NEW topics, PickTopics(topics) PROVE dialog'.listed = dialog.listed
      BY <3>2, <3>4 DEF PickTopics, EditDialog
    <3>5. ASSUME NEW all, PickAll(all) PROVE dialog'.listed = dialog.listed
      BY <3>2, <3>5 DEF PickAll
    <3>6. ASSUME UNCHANGED dialog PROVE dialog'.listed = dialog.listed
      BY <3>6
    <3>7. ASSUME NEW r,
                 ResolveScopes(r) \/ CreateTag(r) \/ DeleteScopes(r) \/ CommitUpdateTag(r)
                   \/ DeleteTag(r) \/ RefuseTagCall(r)
          PROVE  UNCHANGED dialog
      BY <3>7 DEF ResolveScopes, CreateTag, DeleteScopes, CommitUpdateTag, DeleteTag, RefuseTagCall
    <3>8. ASSUME NEW r, NEW by, NEW op, NEW t, NEW body, LoadTag(r, by, op, t, body)
          PROVE  UNCHANGED dialog
      BY <3>8 DEF LoadTag
    <3>9. ASSUME NEW x, NEW y,
                 RemoveQueue(x) \/ RemoveTopic(x) \/ MoveTopic(x, y) \/ ReplaceAdministered(x)
          PROVE  UNCHANGED dialog
      BY <3>9 DEF RemoveQueue, RemoveTopic, MoveTopic, ReplaceAdministered
    <3>10. ASSUME NEW tags, NEW q, NEW c, TagTicket(tags, q, c) PROVE UNCHANGED dialog
      BY <3>10 DEF TagTicket
    <3>11. ASSUME NEW by, NEW t PROVE ~OpenDialog(by, t)
      BY DEF OpenDialog
    <3>12. ASSUME NEW r PROVE ~SaveDialog(r) /\ ~CloseDialog
      BY DEF SaveDialog, CloseDialog
    <3>13. CASE UNCHANGED tagVars
      BY <3>6, <3>13
    <3>14. CASE TagsNext
      BY <3>3, <3>4, <3>5, <3>6, <3>7, <3>8, <3>9, <3>10, <3>11, <3>12, <3>14, Zenon DEF TagsNext
    <3> QED
      BY <3>13, <3>14
  <2>2. DialogKeepsUnlisted'
    BY TagsInvStep DEF TagsInv
  <2> QED
    BY <2>1, <2>2 DEF DialogKeepsUnlisted, Unlisted, Listed
<1>3. ASSUME NEW t \in TagIds, NEW q \in TagQueues, NEW c \in Topics \cup {NoTag},
             Available(tag'[t], q, c), ~Available(tag[t], q, c)
      PROVE  Charged(q)
  <2>1. tag'[t] # tag[t]
    BY <1>3
  <2>2. ASSUME NEW r \in TagCalls, CreateTag(r) PROVE Charged(q)
    <3>1. tagCall[r] \in TagRequest /\ RequestIsMeant(tagCall[r]) /\ tagCall[r].stage = "resolved"
      BY <2>2 DEF CreateTag, TagStep, TagsInv, TagsTypeOK, TagRequestsAreMeant
    <3>2. tag' = [tag EXCEPT ![tagCall[r].tag] = tagCall[r].body] /\ tagCall'[r] = NoTag
      BY <2>2 DEF CreateTag, EndTagCall, TagsInv, TagsTypeOK
    <3>3. tag'[t] = tagCall[r].body
      BY <2>1, <3>2 DEF TagsInv, TagsTypeOK
    <3>4. ManagesTag(tagCall[r].by, tagCall[r].administered, tagCall[r].body)
      BY <3>1 DEF RequestIsMeant
    <3>5. tagCall[r].by = "SUPER_ADMIN" \/ q \in tagCall[r].administered
      BY <1>3, <3>3, <3>4 DEF ManagesTag
    <3> QED
      BY <3>1, <3>2, <3>5, NoTagIsNone
  <2>3. ASSUME NEW r \in TagCalls, CommitUpdateTag(r) PROVE Charged(q)
    <3>1. /\ tagCall[r] \in TagRequest /\ RequestIsMeant(tagCall[r])
          /\ tagCall[r].stage = "deleted" /\ TagExists(tagCall[r].tag)
      BY <2>3 DEF CommitUpdateTag, TagStep, TagsInv, TagsTypeOK, TagRequestsAreMeant
    <3> DEFINE new == [allDepartments |-> tagCall[r].body.allDepartments,
                       scopes |-> (tag[tagCall[r].tag].scopes \ tagCall[r].seen)
                                    \cup tagCall[r].body.scopes]
    <3>2. tag' = [tag EXCEPT ![tagCall[r].tag] = new] /\ tagCall'[r] = NoTag
      BY <2>3 DEF CommitUpdateTag, EndTagCall, TagsInv, TagsTypeOK
    <3>3. tag'[t] = new /\ t = tagCall[r].tag
      BY <2>1, <3>2 DEF TagsInv, TagsTypeOK
    <3>4. ManagesTag(tagCall[r].by, tagCall[r].administered, tagCall[r].body)
      BY <3>1 DEF RequestIsMeant
    <3>5. tagCall[r].by = "SUPER_ADMIN" \/ q \in tagCall[r].administered
      <4> SUFFICES ASSUME tagCall[r].by # "SUPER_ADMIN" PROVE q \in tagCall[r].administered
        OBVIOUS
      <4>1. /\ ~tagCall[r].body.allDepartments
            /\ \A s \in tagCall[r].body.scopes : s.queueId \in tagCall[r].administered
        BY <3>4 DEF ManagesTag
      <4>2. PICK s \in new.scopes : s.queueId = q /\ s.categoryId \in {NoTag, c}
        BY <1>3, <3>3, <4>1
      <4>3. s \notin tag[t].scopes
        BY <1>3, <3>1, <3>3, <4>2 DEF TagExists
      <4> QED
        BY <3>3, <4>1, <4>2, <4>3
    <3> QED
      BY <3>1, <3>2, <3>5, NoTagIsNone
  <2>4. ASSUME NEW gone, tag' = WithoutScopes(gone) PROVE FALSE
    <3>1. /\ tag'[t] = NoTag <=> tag[t] = NoTag
          /\ tag[t] # NoTag => /\ tag'[t].allDepartments = tag[t].allDepartments
                               /\ tag'[t].scopes \subseteq tag[t].scopes
      BY <2>4, ScopesAreLost DEF TagsInv
    <3> QED
      BY <1>3, <3>1
  <2>5. ASSUME NEW r \in TagCalls, DeleteTag(r) PROVE FALSE
    BY <1>3, <2>1, <2>5 DEF DeleteTag, TagsInv, TagsTypeOK
  <2>6. \A q_1 \in TagQueues : ~RemoveQueue(q_1)
    BY <2>4 DEF RemoveQueue
  <2>7. \A c_1 \in Topics : ~RemoveTopic(c_1)
    BY <2>4 DEF RemoveTopic
  <2>8. ASSUME UNCHANGED tag PROVE FALSE
    BY <2>1, <2>8
  <2>9. CASE UNCHANGED tagVars
    BY <2>8, <2>9
  <2>10. CASE TagsNext
    <3>1. PICK r \in TagCalls : CreateTag(r) \/ CommitUpdateTag(r)
      <4>1. ASSUME NEW r, ResolveScopes(r) \/ DeleteScopes(r) \/ RefuseTagCall(r) \/ SaveDialog(r)
            PROVE  UNCHANGED tag
        BY <4>1 DEF ResolveScopes, DeleteScopes, RefuseTagCall, SaveDialog
      <4>2. ASSUME NEW r, NEW by, NEW op, NEW x, NEW body, LoadTag(r, by, op, x, body)
            PROVE  UNCHANGED tag
        BY <4>2 DEF LoadTag
      <4>3. ASSUME NEW x, NEW y, MoveTopic(x, y) \/ ReplaceAdministered(x) PROVE UNCHANGED tag
        BY <4>3 DEF MoveTopic, ReplaceAdministered
      <4>4. ASSUME NEW x, NEW y, NEW z, TagTicket(x, y, z) \/ OpenDialog(x, y) PROVE UNCHANGED tag
        BY <4>4 DEF TagTicket, OpenDialog
      <4>5. ASSUME NEW x, PickQueues(x) \/ PickTopics(x) \/ PickAll(x) \/ CloseDialog
            PROVE  UNCHANGED tag
        BY <4>5 DEF PickQueues, PickTopics, PickAll, CloseDialog
      <4> QED
        BY <2>5, <2>6, <2>7, <2>8, <2>10, <4>1, <4>2, <4>3, <4>4, <4>5, Zenon DEF TagsNext
    <3> QED
      BY <2>2, <2>3, <3>1
  <2> QED
    BY <2>9, <2>10
<1>4. \A t \in TagIds, q \in TagQueues, c \in Topics \cup {NoTag} :
        CanBeAdded(t, q, c)' /\ ~CanBeAdded(t, q, c) => Charged(q)
  BY <1>3 DEF CanBeAdded, TagExists, IsTagAvailable
<1> QED
  BY <1>1, <1>2, <1>4 DEF TagsSpreadByRight

-----------------------------------------------------------------------------
HIDE DEF vars, store, database, cardsVars, envVars, brandVars, mailVars,
  deliveryVars, linkVars, extVars, secretVars, updateVars,
  serverOfUpdates, browserOfUpdates, tagVars

(* The parts together: the one that takes steps keeps its invariant.       *)
SettingsInv ==
  /\ subject = "creation" => CreationInv
  /\ subject = "cards" => CardsInv
  /\ subject = "env" => EnvInv
  /\ subject = "branding" => BrandingInv
  /\ subject = "mail" => MailInv
  /\ subject = "delivery" => DeliveryInv
  /\ subject = "links" => LinksInv
  /\ subject = "external" => ExtInv
  /\ subject = "secrets" => SecretsInv
  /\ subject = "updates" => UpdatesInv
  /\ subject = "tags" => TagsInv

LEMMA SettingsInvInit == SettingsInit => SettingsInv
<1> SUFFICES ASSUME SettingsInit PROVE SettingsInv
  OBVIOUS
<1>1. subject = "creation" => CreationInv
  BY CreationInvInit, Zenon DEF SettingsInit
<1>2. subject = "cards" => CardsInv
  BY CardsInvInit, Zenon DEF SettingsInit
<1>3. subject = "env" => EnvInv
  BY EnvInvInit, Zenon DEF SettingsInit
<1>4. subject = "branding" => BrandingInv
  BY BrandingInvInit, Zenon DEF SettingsInit
<1>5. subject = "mail" => MailInv
  BY MailInvInit, Zenon DEF SettingsInit
<1>6. subject = "delivery" => DeliveryInv
  BY DeliveryInvInit, Zenon DEF SettingsInit
<1>7. subject = "links" => LinksInv
  BY LinksInvInit, Zenon DEF SettingsInit
<1>8. subject = "external" => ExtInv
  BY ExtInvInit, Zenon DEF SettingsInit
<1>9. subject = "secrets" => SecretsInv
  BY SecretsInvInit, Zenon DEF SettingsInit
<1>10. subject = "updates" => UpdatesInv
  BY UpdatesInvInit, Zenon DEF SettingsInit
<1>11. subject = "tags" => TagsInv
  BY TagsInvInit, Zenon DEF SettingsInit, TagsStart
<1> QED
  BY <1>1, <1>2, <1>3, <1>4, <1>5, <1>6, <1>7, <1>8, <1>9, <1>10, <1>11 DEF SettingsInv

(* A step is one of the part it is about.                                  *)
LEMMA SettingsMove ==
  ASSUME [SettingsNext]_settingsVars
  PROVE  /\ UNCHANGED subject
         /\ subject = "creation" => [Next]_vars
         /\ subject = "cards" => [CardsNext]_cardsVars
         /\ subject = "env" => [EnvNext]_envVars
         /\ subject = "branding" => [BrandingNext]_brandVars
         /\ subject = "mail" => [MailNext]_mailVars
         /\ subject = "delivery" => [DeliveryNext]_deliveryVars
         /\ subject = "links" => [LinksNext]_linkVars
         /\ subject = "external" => [ExtNext]_extVars
         /\ subject = "secrets" => [SecretsNext]_secretVars
         /\ subject = "updates" => [UpdatesNext]_updateVars
         /\ subject = "tags" => [TagsNext]_tagVars
<1>1. CASE UNCHANGED settingsVars
  BY <1>1, Zenon DEF settingsVars
<1>2. CASE SettingsNext
  <2>1. UNCHANGED subject
    BY <1>2, Zenon DEF SettingsNext
  <2>2. subject = "creation" => Next
    BY <1>2 DEF SettingsNext
  <2>3. subject = "cards" => CardsNext
    BY <1>2 DEF SettingsNext
  <2>4. subject = "env" => EnvNext
    BY <1>2 DEF SettingsNext
  <2>5. subject = "branding" => BrandingNext
    BY <1>2 DEF SettingsNext
  <2>6. subject = "mail" => MailNext
    BY <1>2 DEF SettingsNext
  <2>7. subject = "delivery" => DeliveryNext
    BY <1>2 DEF SettingsNext
  <2>8. subject = "links" => LinksNext
    BY <1>2 DEF SettingsNext
  <2>9. subject = "external" => ExtNext
    BY <1>2 DEF SettingsNext
  <2>10. subject = "secrets" => SecretsNext
    BY <1>2 DEF SettingsNext
  <2>11. subject = "updates" => UpdatesNext
    BY <1>2 DEF SettingsNext
  <2>12. subject = "tags" => TagsNext
    BY <1>2 DEF SettingsNext
  <2> QED
    BY <2>1, <2>2, <2>3, <2>4, <2>5, <2>6, <2>7, <2>8, <2>9, <2>10, <2>11, <2>12, Zenon
<1> QED
  BY <1>1, <1>2

LEMMA SettingsInvStep == SettingsInv /\ [SettingsNext]_settingsVars => SettingsInv'
<1> SUFFICES ASSUME SettingsInv, [SettingsNext]_settingsVars PROVE SettingsInv'
  OBVIOUS
<1>0. UNCHANGED subject
  BY SettingsMove
<1>1. (subject = "creation" => CreationInv)'
  BY <1>0, SettingsMove, CreationInvStep, Zenon DEF SettingsInv
<1>2. (subject = "cards" => CardsInv)'
  BY <1>0, SettingsMove, CardsInvStep, Zenon DEF SettingsInv
<1>3. (subject = "env" => EnvInv)'
  BY <1>0, SettingsMove, EnvInvStep, Zenon DEF SettingsInv
<1>4. (subject = "branding" => BrandingInv)'
  BY <1>0, SettingsMove, BrandingInvStep, Zenon DEF SettingsInv
<1>5. (subject = "mail" => MailInv)'
  BY <1>0, SettingsMove, MailInvStep, Zenon DEF SettingsInv
<1>6. (subject = "delivery" => DeliveryInv)'
  BY <1>0, SettingsMove, DeliveryInvStep, Zenon DEF SettingsInv
<1>7. (subject = "links" => LinksInv)'
  BY <1>0, SettingsMove, LinksInvStep, Zenon DEF SettingsInv
<1>8. (subject = "external" => ExtInv)'
  BY <1>0, SettingsMove, ExtInvStep, Zenon DEF SettingsInv
<1>9. (subject = "secrets" => SecretsInv)'
  BY <1>0, SettingsMove, SecretsInvStep, Zenon DEF SettingsInv
<1>10. (subject = "updates" => UpdatesInv)'
  BY <1>0, SettingsMove, UpdatesInvStep, Zenon DEF SettingsInv
<1>11. (subject = "tags" => TagsInv)'
  BY <1>0, SettingsMove, TagsInvStep, Zenon DEF SettingsInv
<1> QED
  BY <1>1, <1>2, <1>3, <1>4, <1>5, <1>6, <1>7, <1>8, <1>9, <1>10, <1>11, Zenon DEF SettingsInv

LEMMA SettingsInvAlways == SettingsSpec => []SettingsInv
BY SettingsInvInit, SettingsInvStep, PTL DEF SettingsSpec

(* The shape of rows, forms, requests, files and locks.                    *)
THEOREM SettingsAreTyped == SettingsSpec => []SettingsTypeOK
<1>1. SettingsInv => SettingsTypeOK
  <2> SUFFICES ASSUME SettingsInv PROVE SettingsTypeOK
    OBVIOUS
  <2>1. subject = "creation" => TypeOK
    BY Zenon DEF SettingsInv, CreationInv
  <2>2. subject = "cards" => CardsTypeOK
    BY CardsInvMeans, Zenon DEF SettingsInv
  <2>3. subject = "env" => EnvTypeOK
    BY EnvInvMeans, Zenon DEF SettingsInv
  <2>4. subject = "branding" => BrandingTypeOK
    BY BrandingInvMeans, Zenon DEF SettingsInv
  <2>5. subject = "mail" => MailTypeOK
    BY MailInvMeans, Zenon DEF SettingsInv
  <2>6. subject = "delivery" => DeliveryTypeOK
    BY DeliveryInvMeans, Zenon DEF SettingsInv
  <2>7. subject = "links" => LinksTypeOK
    BY LinksInvMeans, Zenon DEF SettingsInv
  <2>8. subject = "tags" => TagsTypeOK
    BY TagsInvMeans, Zenon DEF SettingsInv
  <2>9. subject = "external" => ExtTypeOK
    BY ExtInvMeans, Zenon DEF SettingsInv
  <2>10. subject = "secrets" => SecretsTypeOK
    BY SecretsInvMeans, Zenon DEF SettingsInv
  <2>11. subject = "updates" => UpdatesTypeOK
    BY UpdatesInvMeans, Zenon DEF SettingsInv
  <2> QED
    BY <2>1, <2>2, <2>3, <2>4, <2>5, <2>6, <2>7, <2>8, <2>9, <2>10, <2>11, Zenon DEF SettingsTypeOK
<1> QED
  BY <1>1, SettingsInvAlways, PTL

(* Requests with one key get one ticket, and every file goes where the     *)
(* outcome of its request says, through failures and deaths.               *)
THEOREM CreationStaysSound == SettingsSpec => []CreationIsSound
<1>1. SettingsInv => CreationIsSound
  BY CreationInvMeans, Zenon DEF SettingsInv, CreationIsSound
<1> QED
  BY <1>1, SettingsInvAlways, PTL

(* What is stored can be used: the logo and the icons have their files,    *)
(* the next start finds complete credentials, mail can be sent and its     *)
(* answer is true, secrets can be read, limits and gates hold.             *)
THEOREM SettingsStaySound == SettingsSpec => []SettingsAreSound
<1>1. SettingsInv => SettingsAreSound
  BY BrandingInvMeans, LinksInvMeans, MailInvMeans, EnvInvMeans, DeliveryInvMeans,
     ExtInvMeans, SecretsInvMeans, UpdatesInvMeans, Zenon
     DEF SettingsInv, SettingsAreSound
<1> QED
  BY <1>1, SettingsInvAlways, PTL

(* A save, a request of a program or a check changes what it was asked to  *)
(* and may change, whatever was stored meanwhile.                          *)
THEOREM SavesDoAsAsked == SettingsSpec => SavesChangeWhatWasAsked
<1>1. SettingsInv /\ [SettingsNext]_settingsVars =>
        /\ subject = "cards" => OthersKeepTheirSettings
        /\ subject = "env" => SavesKeepTheRest
        /\ subject = "branding" => BrandingKeepsSwitches
        /\ subject = "mail" => NotificationsNeedMail
        /\ subject = "external" => ClientsAreServed
        /\ subject = "tags" => TagsSpreadByRight
        /\ subject = "updates" => KnownReleaseStays
  BY SettingsMove, OthersKeep, EnvKeepsTheRest, BrandingKeeps, MailNotifies, ExtServes,
     TagsSpread, UpdatesKeep, Zenon DEF SettingsInv
<1> QED
  BY <1>1, SettingsInvAlways, PTL DEF SettingsSpec, SavesChangeWhatWasAsked

(* What an administrator is editing survives the answers and reads that    *)
(* come meanwhile, and an icon lands on the row it was chosen for.         *)
THEOREM EditsAreKept == SettingsSpec => PagesKeepEdits
<1>1. SettingsInv /\ [SettingsNext]_settingsVars =>
        /\ subject = "cards" => RefreshesKeepEdits
        /\ subject = "branding" => FormsKeepEdits
        /\ subject = "links" => IconLandsOnItsRow
  BY SettingsMove, RefreshesKeep, BrandingFormsKeepEdits, IconsLand, Zenon DEF SettingsInv
<1> QED
  BY <1>1, SettingsInvAlways, PTL DEF SettingsSpec, PagesKeepEdits
=============================================================================
