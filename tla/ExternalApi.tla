---------------------------- MODULE ExternalApi ----------------------------
(***************************************************************************)
(* Requests of other programs: src/app/api/v1/tickets/route.ts,            *)
(* src/app/api/v1/tickets/[id]/notes/route.ts, authenticateApiRequest of   *)
(* src/lib/api-clients.ts and src/lib/database-rate-limit.ts, for one      *)
(* client and one ticket.  What was read about the client stands for the   *)
(* whole request; what counts the requests is one statement; who signs a   *)
(* note is found by one query after another.  The tables a person's        *)
(* departments are read from are read together.                            *)
(***************************************************************************)
EXTENDS Naturals

CONSTANTS
  ExtCalls,   \* requests
  Reach,      \* departments by the people who may sign notes, at first
  ExtQueues,  \* departments
  NoExt,      \* no request, no counter, nobody
  ExtOps,     \* of "read", "create", "note", "signed": what they ask for; the
              \* last is a note that names its author
  Limit, Window,  \* 20 to 100 requests in 1 to 10 minutes in the code
  LastInstant, MaxExtCalls, MaxExtChanges  \* bounds: the clock, requests,
                                           \* changes by others

Signers == DOMAIN Reach

VARIABLES
  clock,
  isOn,       \* feature_external_api_enabled
  access,     \* the client's row: active, write scope, departments
  meter,      \* meter[s]: the row of login_throttles for a scope, or NoExt
  granted,    \* granted[s]: history: requests let through in its window
  people,     \* people[w]: a person's role and departments
  ticketAt,   \* the ticket's department
  extCall,    \* extCall[r]: the request, or NoExt
  steady,     \* steady[r]: history: whose rows did not change since its
              \* ticket was read
  extCalls, extChanges

extVars ==
  <<clock, isOn, access, meter, granted, people, ticketAt, extCall, steady,
    extCalls, extChanges>>

Scopes == {"read", "write", "failure"}
Access == [active : BOOLEAN, write : BOOLEAN, queues : SUBSET ExtQueues]
Meter == [count : Nat \ {0}, expires : Nat]
Roles == {"super", "admin", "gone"}
Person == [role : Roles, queues : SUBSET ExtQueues]
ExtCall ==
  [at : {"asked", "counting", "judging", "author", "listing", "asking", "signing", "act"},
   op : ExtOps, queues : SUBSET ExtQueues, scope : Scopes, now : Nat,
   queue : ExtQueues \cup {NoExt},
   left : SUBSET Signers,                              \* still to be asked for
   author : Signers \cup {NoExt}, role : Roles]       \* as they were read

ASSUME ExtAssumption ==
  /\ {Limit, LastInstant, MaxExtCalls, MaxExtChanges} \subseteq Nat
  /\ Window \in Nat \ {0}
  /\ NoExt \notin Meter \cup ExtCall \cup Signers
  /\ Reach \in [Signers -> SUBSET ExtQueues]

ExtInit ==
  /\ clock = 0 /\ isOn = TRUE
  /\ access = [active |-> TRUE, write |-> TRUE, queues |-> ExtQueues]
  /\ meter = [s \in Scopes |-> NoExt] /\ granted = [s \in Scopes |-> 0]
  /\ people = [w \in Signers |-> [role |-> "admin", queues |-> Reach[w]]]
  /\ ticketAt \in ExtQueues
  /\ extCall = [r \in ExtCalls |-> NoExt] /\ steady = [r \in ExtCalls |-> Signers]
  /\ extCalls = 0 /\ extChanges = 0

ExtIs(r, stage) == extCall[r] # NoExt /\ extCall[r].at = stage
AroundExt == UNCHANGED <<clock, isOn, access, people, ticketAt, extCalls, extChanges>>
NotCounted == UNCHANGED <<meter, granted>>
Note == {"note", "signed"}

-----------------------------------------------------------------------------
(* A ticket list, a new ticket or a note.                                  *)
StartExt(r) ==
  /\ extCall[r] = NoExt /\ isOn
  /\ extCalls < MaxExtCalls /\ extCalls' = extCalls + 1
  /\ \E op \in ExtOps :
       extCall' = [extCall EXCEPT ![r] = [at |-> "asked", op |-> op, queues |-> {},
                     scope |-> IF op = "read" THEN "read" ELSE "write",
                     now |-> 0, queue |-> NoExt,
                     left |-> {}, author |-> NoExt, role |-> "gone"]]
  /\ UNCHANGED <<clock, isOn, access, people, ticketAt, steady, extChanges>> /\ NotCounted

(* With no valid key the failure is counted, and not the request.          *)
Authenticate(r) ==
  /\ ExtIs(r, "asked")
  /\ LET known == access.active /\ (extCall[r].scope = "write" => access.write)
     IN extCall' = [extCall EXCEPT
          ![r].queues = IF known THEN access.queues ELSE {},
          ![r].scope = IF known THEN @ ELSE "failure",
          ![r].now = clock, ![r].at = "counting"]
  /\ AroundExt /\ NotCounted /\ UNCHANGED steady

(* INSERT ... ON CONFLICT DO UPDATE: a window that was over at the         *)
(* request's own time starts anew, any other is only counted in.           *)
ProlongedBy(row, now) ==  \* mutant: every request moves the end of its window
  [count |-> IF row.expires <= now THEN 1 ELSE row.count + 1, expires |-> now + Window]
StartedAnewBy(row, now) ==  \* mutant: a window ends at the time it was asked for
  IF row.expires <= now + 1 THEN [count |-> 1, expires |-> row.expires]
  ELSE [row EXCEPT !.count = @ + 1]
CountedBy(row, now) ==
  IF row.expires <= now THEN [count |-> 1, expires |-> now + Window]
  ELSE [row EXCEPT !.count = @ + 1]

Consume(r) ==
  /\ ExtIs(r, "counting")
  /\ LET s == extCall[r].scope
         old == meter[s]
         row == IF old = NoExt THEN [count |-> 1, expires |-> extCall[r].now + Window]
                ELSE CountedBy(old, extCall[r].now)
         allowed == row.count <= Limit
     IN /\ meter' = [meter EXCEPT ![s] = row]
        /\ granted' = [granted EXCEPT ![s] =
             (IF old # NoExt /\ row.expires = old.expires THEN @ ELSE 0)
               + (IF allowed THEN 1 ELSE 0)]
        /\ extCall' = [extCall EXCEPT ![r] =
             IF allowed /\ s # "failure"
             THEN [@ EXCEPT !.at = "judging", !.now = 0]
             ELSE NoExt]
  /\ AroundExt /\ UNCHANGED steady

(* The department is asked for, or the ticket's as it is read here.        *)
JudgeExt(r) ==
  /\ ExtIs(r, "judging")
  /\ \E q \in IF extCall[r].op \in Note THEN {ticketAt} ELSE ExtQueues :
       extCall' = [extCall EXCEPT ![r] =
         IF q \notin extCall[r].queues THEN NoExt
         ELSE [@ EXCEPT !.queue = q, !.queues = {},
                   !.at = IF extCall[r].op \in Note THEN "author" ELSE "act"]]
  /\ steady' = [steady EXCEPT ![r] = Signers]
  /\ AroundExt /\ NotCounted

(* A note is signed by the author it names or by a super administrator,    *)
(* else by the first administrator found to see the department; whoever it *)
(* is, is asked for the department again.                                  *)
Sees(w, role, q) == role = "super" \/ (role = "admin" /\ q \in people[w].queues)
CanSign(w, q) == Sees(w, people[w].role, q)

ReadAuthor(r) ==
  /\ ExtIs(r, "author")
  /\ LET found == IF extCall[r].op = "signed" THEN Signers
                  ELSE {w \in Signers : people[w].role = "super"}
     IN \/ \E w \in found :
             extCall' = [extCall EXCEPT ![r] =
               IF people[w].role = "gone" THEN NoExt
               ELSE [@ EXCEPT !.author = w, !.role = people[w].role, !.at = "signing"]]
        \/ found = {} /\ extCall' = [extCall EXCEPT ![r].at = "listing"]
  /\ AroundExt /\ NotCounted /\ UNCHANGED steady

ListAdministrators(r) ==
  /\ ExtIs(r, "listing")
  /\ extCall' = [extCall EXCEPT ![r].left = {w \in Signers : people[w].role = "admin"},
                                ![r].at = "asking"]
  /\ AroundExt /\ NotCounted /\ UNCHANGED steady

AnyAdministrator(w, q) ==  \* mutant: the first administrator, who may not see it
  TRUE
IsCandidate(w, q) == Sees(w, "admin", q)

Asked(c, w) ==
  IF IsCandidate(w, c.queue)
  THEN [c EXCEPT !.author = w, !.role = "admin", !.left = {}, !.at = "signing"]
  ELSE [c EXCEPT !.left = @ \ {w}]

AskAdministrator(r) ==
  /\ ExtIs(r, "asking")
  /\ \/ \E w \in extCall[r].left : extCall' = [extCall EXCEPT ![r] = Asked(@, w)]
     \/ extCall[r].left = {} /\ extCall' = [extCall EXCEPT ![r] = NoExt]
  /\ AroundExt /\ NotCounted /\ UNCHANGED steady

SignNote(r) ==
  /\ ExtIs(r, "signing")
  /\ extCall' = [extCall EXCEPT ![r] =
       IF Sees(@.author, @.role, @.queue) THEN [@ EXCEPT !.at = "act"] ELSE NoExt]
  /\ AroundExt /\ NotCounted /\ UNCHANGED steady

FinishExt(r) ==
  /\ ExtIs(r, "act")
  /\ extCall' = [extCall EXCEPT ![r] = NoExt]
  /\ AroundExt /\ NotCounted /\ UNCHANGED steady

Tick ==
  /\ clock < LastInstant /\ clock' = clock + 1
  /\ UNCHANGED <<isOn, access, people, ticketAt, extCall, steady, extCalls, extChanges>>
  /\ NotCounted

ElsewhereInExt ==
  /\ extChanges < MaxExtChanges /\ extChanges' = extChanges + 1
  /\ \/ isOn' = ~isOn /\ UNCHANGED <<access, people, ticketAt, steady>>
     \/ \E a \in {[access EXCEPT !.active = ~@], [access EXCEPT !.write = ~@]}
               \cup {[access EXCEPT !.queues = @ \ {q}] : q \in ExtQueues} :
          access' = a /\ UNCHANGED <<isOn, people, ticketAt, steady>>
     \/ \E w \in Signers :
          /\ \/ \E role \in Roles : people' = [people EXCEPT ![w].role = role]
             \/ \E q \in ExtQueues : people' = [people EXCEPT ![w].queues = @ \ {q}]
          /\ steady' = [r \in ExtCalls |-> steady[r] \ {w}]
          /\ UNCHANGED <<isOn, access, ticketAt>>
     \/ \E q \in ExtQueues : ticketAt' = q /\ UNCHANGED <<isOn, access, people, steady>>
  /\ UNCHANGED <<clock, extCall, extCalls>> /\ NotCounted

ExtNext ==
  \/ \E r \in ExtCalls :
       \/ StartExt(r) \/ Authenticate(r) \/ Consume(r) \/ JudgeExt(r) \/ ReadAuthor(r)
       \/ ListAdministrators(r) \/ AskAdministrator(r) \/ SignNote(r) \/ FinishExt(r)
  \/ Tick \/ ElsewhereInExt

ExtSpec == ExtInit /\ [][ExtNext]_extVars

-----------------------------------------------------------------------------
ExtTypeOK ==
  /\ clock \in 0..LastInstant /\ access \in Access
  /\ people \in [Signers -> Person] /\ ticketAt \in ExtQueues
  /\ meter \in [Scopes -> Meter \cup {NoExt}] /\ granted \in [Scopes -> Nat]
  /\ extCall \in [ExtCalls -> ExtCall \cup {NoExt}]
  /\ steady \in [ExtCalls -> SUBSET Signers]

(* No window lets more requests through than its limit, however their      *)
(* times and their statements cross.                                       *)
LimitHolds == \A s \in Scopes : granted[s] <= Limit

(* Whoever signs a note sees its department, unless the row of this person *)
(* changed while the request was judged.                                   *)
SignersSee ==
  \A r \in ExtCalls :
    ExtIs(r, "act") /\ extCall[r].op \in Note /\ extCall[r].author \in steady[r] =>
      CanSign(extCall[r].author, extCall[r].queue)

(* A client that keeps asking waits no longer: a window's end moves only   *)
(* once the window is over.  And a note that names no author is refused    *)
(* only when nobody could sign it all along, or when the row of the person *)
(* chosen changed just then.                                               *)
Refused(r) ==
  /\ extCall[r] # NoExt /\ extCall'[r] = NoExt /\ extCall[r].op = "note"
  /\ extCall[r].at \in {"author", "listing", "asking", "signing"}
ClientsAreServed ==
  /\ \A s \in Scopes :
       meter[s] # NoExt => meter'[s].expires = meter[s].expires \/ meter[s].expires <= clock
  /\ \A r \in ExtCalls :
       Refused(r) =>
         \/ extCall[r].author \in Signers \ steady[r]
         \/ \A w \in steady[r] : ~CanSign(w, extCall[r].queue)
=============================================================================
