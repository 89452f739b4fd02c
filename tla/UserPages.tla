----------------------------- MODULE UserPages -----------------------------
(***************************************************************************)
(* The administration of users as its page sees it:                        *)
(* src/app/(dashboard)/admin/users/page.tsx with the fields and            *)
(* memberships of PATCH in src/app/api/users/route.ts, for one user whom   *)
(* others may change too.  (Accounts has sessions and the last super       *)
(* administrator.)                                                         *)
(***************************************************************************)
EXTENDS Naturals, FiniteSets

CONSTANTS
  UserCalls,    \* requests of the page
  UserQueues,   \* departments
  NoUserCall,   \* nothing in flight, nothing in a body, no password shown
  MaxUserChanges  \* bound: edits, requests and what others do

VARIABLES
  person,      \* the user's row with the memberships
  openQueues,  \* departments that are active
  userPage,    \* the row it lists, its dialog, the password it shows
  userCall,    \* userCall[c]: the request in flight, or NoUserCall
  lastCall,    \* the slot of the latest change, whose end ends isPending
  newPasswords, userChanges

userVars == <<person, openQueues, userPage, userCall, lastCall, newPasswords, userChanges>>

StaffRole == {"USER", "AGENT", "ADMIN"}
Person ==
  [role : StaffRole, active : BOOLEAN, agentOf : SUBSET UserQueues,
   adminOf : SUBSET UserQueues, password : Nat]
UserFields == {"role", "active"}
FormOf(row) == [f \in UserFields |-> row[f]]
UserForm == [role : StaffRole, active : BOOLEAN]
UserBody ==
  [role : StaffRole \cup {NoUserCall}, active : BOOLEAN \cup {NoUserCall},
   queues : {NoUserCall} \cup SUBSET UserQueues, reset : BOOLEAN]
UserRequest ==
  [at : {"sent", "done"}, op : {"dialog", "role", "queues", "reset"}, body : UserBody,
   base : UserForm \cup Person, edited : SUBSET UserFields, password : Nat \cup {NoUserCall}]
ASSUME NoUserCallAssumption ==
  /\ NoUserCall \notin Nat \cup StaffRole \cup UserRequest
  /\ \A queues \in SUBSET UserQueues : queues # NoUserCall

UserInit ==
  /\ person = [role |-> "AGENT", active |-> TRUE, agentOf |-> {}, adminOf |-> {},
               password |-> 0]
  /\ openQueues = UserQueues
  /\ userPage = [row |-> person, isOpen |-> FALSE, opened |-> FormOf(person),
                 values |-> FormOf(person), edited |-> {}, password |-> NoUserCall]
  /\ userCall = [c \in UserCalls |-> NoUserCall] /\ lastCall = NoUserCall
  /\ newPasswords = 0 /\ userChanges = 0

UserChange == userChanges < MaxUserChanges /\ userChanges' = userChanges + 1
UserCallIs(c, stage) == userCall[c] # NoUserCall /\ userCall[c].at = stage
IsPending == lastCall # NoUserCall
InUserDatabase == UNCHANGED <<person, openQueues, newPasswords>>

-----------------------------------------------------------------------------
ActiveAsBefore(row) ==  \* mutant: the switch of the last dialog stays
  [FormOf(row) EXCEPT !.active = userPage.values.active]
DialogOf(row) == FormOf(row)
OpenUser ==
  /\ ~userPage.isOpen
  /\ userPage' = [userPage EXCEPT !.isOpen = TRUE, !.values = DialogOf(userPage.row),
                                  !.opened = FormOf(userPage.row), !.edited = {}]
  /\ InUserDatabase /\ UNCHANGED <<userCall, lastCall, userChanges>>

EditUser ==
  /\ userPage.isOpen
  /\ \/ userPage' = [userPage EXCEPT !.values.active = ~@, !.edited = @ \cup {"active"}]
     \/ \E role \in StaffRole \ {userPage.values.role} :
          userPage' = [userPage EXCEPT !.values.role = role, !.edited = @ \cup {"role"}]
  /\ UserChange /\ InUserDatabase /\ UNCHANGED <<userCall, lastCall>>

CloseUser ==
  /\ userPage' = [userPage EXCEPT !.isOpen = FALSE, !.password = NoUserCall]
  /\ InUserDatabase /\ UNCHANGED <<userCall, lastCall, userChanges>>

RefreshUser ==
  /\ userPage' = [userPage EXCEPT !.row = person]
  /\ InUserDatabase /\ UNCHANGED <<userCall, lastCall, userChanges>>

NoChange == [role |-> NoUserCall, active |-> NoUserCall, queues |-> NoUserCall, reset |-> FALSE]
SendUser(c, op, body, base) ==
  /\ userCall[c] = NoUserCall
  /\ userCall' = [userCall EXCEPT ![c] =
       [at |-> "sent", op |-> op, body |-> body, base |-> base, edited |-> userPage.edited,
        password |-> NoUserCall]]
  /\ lastCall' = IF op = "reset" THEN lastCall ELSE c
  /\ UserChange /\ InUserDatabase /\ UNCHANGED userPage

SaveUser(c) ==
  /\ userPage.isOpen /\ ~IsPending
  /\ SendUser(c, "dialog", [NoChange EXCEPT !.role = userPage.values.role,
                              !.active = userPage.values.active], userPage.opened)

(* The role can be changed in the list while another change is in flight.  *)
ChangeRole(c) ==
  \E role \in StaffRole \ {userPage.row.role} :
    SendUser(c, "role", [NoChange EXCEPT !.role = role], userPage.row)

(* A department that is ticked or unticked sends the whole list, taken     *)
(* from the row as it is shown.                                            *)
AllMemberships(row) == row.agentOf \cup row.adminOf  \* mutant: of every kind
Assigned(row) == row.agentOf
TickQueue(c) ==
  /\ ~IsPending /\ userPage.row.role # "USER"
  /\ \E q \in openQueues \cup Assigned(userPage.row) :
       LET old == Assigned(userPage.row) IN
         SendUser(c, "queues", [NoChange EXCEPT
           !.queues = IF q \in old THEN old \ {q} ELSE old \cup {q}], userPage.row)

IssuePassword(c) ==
  /\ \A other \in UserCalls : userCall[other] # NoUserCall => userCall[other].op # "reset"
  /\ SendUser(c, "reset", [NoChange EXCEPT !.reset = TRUE], userPage.row)

-----------------------------------------------------------------------------
(* The transaction: only departments that are added must be active; a      *)
(* user who becomes a requester loses every membership.                    *)
Given(value, old) == IF value = NoUserCall THEN old ELSE value
KeepsMemberships(body, row) == row.adminOf  \* mutant: the department's stay
AdminOfAfter(body, row) == IF body.role = "USER" THEN {} ELSE row.adminOf

CommitUser(c) ==
  /\ UserCallIs(c, "sent")
  /\ LET body == userCall[c].body IN
       /\ body.queues # NoUserCall => body.queues \ person.agentOf \subseteq openQueues
       /\ person' =
            [role |-> Given(body.role, person.role), active |-> Given(body.active, person.active),
             agentOf |-> IF body.role = "USER" THEN {} ELSE Given(body.queues, person.agentOf),
             adminOf |-> AdminOfAfter(body, person),
             password |-> IF body.reset THEN newPasswords + 1 ELSE person.password]
       /\ newPasswords' = IF body.reset THEN newPasswords + 1 ELSE newPasswords
       /\ userCall' = [userCall EXCEPT ![c].at = "done",
            ![c].password = IF body.reset THEN newPasswords + 1 ELSE NoUserCall]
  /\ UNCHANGED <<openQueues, userPage, lastCall, userChanges>>

RefuseUser(c) ==
  /\ UserCallIs(c, "sent")
  /\ userCall' = [userCall EXCEPT ![c] = NoUserCall]
  /\ lastCall' = IF lastCall = c THEN NoUserCall ELSE lastCall
  /\ InUserDatabase /\ UNCHANGED <<userPage, userChanges>>

(* A change that succeeded closes the dialog, also one opened meanwhile;   *)
(* the list is fetched again after isPending has ended.                    *)
AnswerUser(c) ==
  /\ UserCallIs(c, "done")
  /\ userPage' = [userPage EXCEPT
       !.isOpen = userCall[c].op = "reset" /\ @,
       !.password = Given(userCall[c].password, @)]
  /\ userCall' = [userCall EXCEPT ![c] = NoUserCall]
  /\ lastCall' = IF lastCall = c THEN NoUserCall ELSE lastCall
  /\ InUserDatabase /\ UNCHANGED userChanges

(* Departments are given administrators and closed, users deactivated.     *)
ElsewhereInUsers ==
  /\ \/ \E q \in UserQueues :
          /\ person.role = "ADMIN" /\ person.active
          /\ person' = [person EXCEPT !.adminOf = @ \cup {q}] /\ UNCHANGED openQueues
     \/ person' = [person EXCEPT !.active = FALSE] /\ UNCHANGED openQueues
     \/ \E q \in openQueues : openQueues' = openQueues \ {q} /\ UNCHANGED person
  /\ UserChange /\ UNCHANGED <<userPage, userCall, lastCall, newPasswords>>

UserNext ==
  \/ OpenUser \/ EditUser \/ CloseUser \/ RefreshUser \/ ElsewhereInUsers
  \/ \E c \in UserCalls :
       \/ SaveUser(c) \/ ChangeRole(c) \/ TickQueue(c) \/ IssuePassword(c)
       \/ CommitUser(c) \/ RefuseUser(c) \/ AnswerUser(c)

UserSpec == UserInit /\ [][UserNext]_userVars

-----------------------------------------------------------------------------
UserPagesTypeOK ==
  /\ person \in Person /\ openQueues \subseteq UserQueues
  /\ userPage.row \in Person /\ userPage.edited \subseteq UserFields

(* The password that is shown is the user's, once nothing is in flight.    *)
ShownPasswordWorks ==
  userPage.password # NoUserCall /\ (\A c \in UserCalls : userCall[c] = NoUserCall) =>
    userPage.password = person.password

(* A dialog changes what was edited in it and takes back what others had   *)
(* changed since; a tick changes the one department that was ticked,       *)
(* unless the list it was made in was not the current one; and whoever     *)
(* becomes a requester leaves every department.  (A tick in a list from    *)
(* before that makes a requester a member again: the request names no role *)
(* and the user's is not looked at.)                                       *)
RequestsChangeWhatWasMeant ==
  \A c \in UserCalls : UserCallIs(c, "sent") /\ UserCallIs(c, "done")' =>
    LET call == userCall[c] IN
      /\ call.op = "dialog" => \A f \in UserFields \ call.edited :
           person'[f] \in {person[f], call.base[f]}
      /\ call.op = "queues" /\ call.base.agentOf = person.agentOf =>
           /\ Cardinality((person'.agentOf \ person.agentOf)
                            \cup (person.agentOf \ person'.agentOf)) = 1
           /\ FormOf(person') = FormOf(person) /\ person'.adminOf = person.adminOf
      /\ call.body.role = "USER" => person'.agentOf \cup person'.adminOf = {}
=============================================================================
