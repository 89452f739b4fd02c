------------------------------ MODULE Accounts ------------------------------
(***************************************************************************)
(* User accounts and sessions: the administration of users                 *)
(* (src/app/api/users/route.ts), the removal of demo data                  *)
(* (scripts/demo-data.mjs) and the session tokens of src/lib/auth.ts.      *)
(*                                                                         *)
(* A call is authorised by the session it came with, and acts later: the   *)
(* updates of users take an advisory lock, judge the rows they read and    *)
(* commit.  A sign-in reads the account, and its token is issued later.    *)
(* The clock counts half seconds: tokens are issued in whole seconds.      *)
(***************************************************************************)
EXTENDS Naturals, FiniteSets

CONSTANTS
  Users,      \* user ids
  Founder,    \* the super administrator that the installation creates
  DemoUsers,  \* the users with isDemo
  Calls,      \* slots for calls of the administration in flight
  Browsers,   \* places that hold a session
  Bodies,     \* the bodies that PATCH /api/users is called with
  NoUser,     \* no row, nobody signing in or signed in, a free slot
  MaxCalls,   \* bound: calls
  MaxClock    \* bound: half seconds

Role == {"SUPER_ADMIN", "USER"}

(* A field of a body: {} when it is not submitted, else its value.         *)
Optional(S) == {{}} \cup {{x} : x \in S}
Changes(field, old) == field # {} /\ field # {old}
Applied(field, old) == IF field = {} THEN old ELSE CHOOSE x \in field : TRUE

(* newSecret: a new password or a new address.                             *)
Body ==
  [role : Optional(Role), isActive : Optional(BOOLEAN), newSecret : BOOLEAN]
NoBody == [role |-> {}, isActive |-> {}, newSecret |-> FALSE]

VARIABLES
  account,    \* account[u]: the row of u, or NoUser
  invariantLock, \* the call that holds advisory lock 1937824631, or NoUser
  call,       \* call[c]: the call in slot c, or NoUser
  signingIn,  \* signingIn[b]: the user whose password was just accepted
  session,    \* session[b]: the token that b holds, or NoUser
  clock,
  callsMade

accountVars == <<account, invariantLock, call, signingIn, session, clock, callsMade>>

Account ==
  [role : Role, isActive : BOOLEAN, hasPassword : BOOLEAN,
   sessionVersion : Nat, credentialsChangedAt : 0..MaxClock]

ASSUME AccountsAssumption ==
  /\ Founder \in Users \ DemoUsers
  /\ DemoUsers \subseteq Users
  /\ NoUser \notin Users \cup Calls /\ NoUser \notin Account
  /\ IsFiniteSet(Users)
  /\ Bodies \subseteq Body /\ NoBody \in Bodies
  /\ MaxCalls \in Nat /\ MaxClock \in Nat

(* seen is the row that the transaction judged, at its date for the change. *)
Call ==
  [step : {"authorized", "judged"}, kind : {"PATCH", "DELETE", "DEMO"},
   actor : Users, target : Users, body : Bodies, at : 0..MaxClock,
   seen : Account \cup {NoUser}]

Token == [user : Users, version : Nat, issued : 0..MaxClock]

AccountsTypeOK ==
  /\ account \in [Users -> Account \cup {NoUser}]
  /\ invariantLock \in Calls \cup {NoUser}
  /\ call \in [Calls -> Call \cup {NoUser}]
  /\ signingIn \in [Browsers -> Users \cup {NoUser}]
  /\ session \in [Browsers -> Token \cup {NoUser}]
  /\ clock \in 0..MaxClock
  /\ callsMade \in 0..MaxCalls

FreshAccount(role) ==
  [role |-> role, isActive |-> TRUE, hasPassword |-> TRUE,
   sessionVersion |-> 0, credentialsChangedAt |-> 0]

AccountsInit ==
  /\ account = [u \in Users |->
       IF u = Founder \/ u \in DemoUsers THEN FreshAccount("SUPER_ADMIN") ELSE NoUser]
  /\ invariantLock = NoUser
  /\ call = [c \in Calls |-> NoUser]
  /\ signingIn = [b \in Browsers |-> NoUser]
  /\ session = [b \in Browsers |-> NoUser]
  /\ clock = 0
  /\ callsMade = 0

Exists(u) == account[u] # NoUser
IsActiveUser(u) == Exists(u) /\ account[u].isActive
ActiveSuperAdmins ==
  {u \in Users : IsActiveUser(u) /\ account[u].role = "SUPER_ADMIN"}

-----------------------------------------------------------------------------
(* Sessions.                                                               *)

(* iat is a number of seconds.                                             *)
WholeSecond(t) == t - (t % 2)

IsIssuedLater(token, row) ==  \* mutant: dates alone, in seconds
  token.issued >= row.credentialsChangedAt

IsSessionTokenCurrent(token, row) ==
  /\ token.version = row.sessionVersion
  /\ token.issued >= row.credentialsChangedAt

(* decode and the jwt callback on a later use of the token.                *)
Accepted(token) ==
  IsActiveUser(token.user) /\ IsSessionTokenCurrent(token, account[token.user])

SignedIn(b) == session[b] # NoUser /\ Accepted(session[b])

(* authorize: the password of u is compared with the row read before.      *)
ComparePassword(b, u) ==
  /\ signingIn[b] = NoUser /\ ~SignedIn(b)
  /\ IsActiveUser(u) /\ account[u].hasPassword
  /\ signingIn' = [signingIn EXCEPT ![b] = u]
  /\ UNCHANGED <<account, invariantLock, call, session, clock, callsMade>>

(* The jwt callback of the sign-in reads the row again and issues a token, *)
(* unless the user is gone or inactive by now.                             *)
IssueToken(b) ==
  /\ signingIn[b] # NoUser
  /\ session' = [session EXCEPT ![b] =
       IF IsActiveUser(signingIn[b])
       THEN [user |-> signingIn[b],
             version |-> account[signingIn[b]].sessionVersion,
             issued |-> WholeSecond(clock)]
       ELSE NoUser]
  /\ signingIn' = [signingIn EXCEPT ![b] = NoUser]
  /\ UNCHANGED <<account, invariantLock, call, clock, callsMade>>

(* A use of an accepted token may issue it anew.                           *)
RenewToken(b) ==
  /\ SignedIn(b)
  /\ session' = [session EXCEPT ![b].issued = WholeSecond(clock)]
  /\ UNCHANGED <<account, invariantLock, call, signingIn, clock, callsMade>>

PassHalfSecond ==
  /\ clock < MaxClock
  /\ clock' = clock + 1
  /\ UNCHANGED <<account, invariantLock, call, signingIn, session, callsMade>>

-----------------------------------------------------------------------------
(* Calls.                                                                  *)

(* The session is checked, and that is all that is checked of the actor.   *)
(* SELF_SECURITY_CHANGE concerns the row as it is judged (RefusesSelf).    *)
Authorize(c, b, kind, target, body) ==
  /\ call[c] = NoUser
  /\ callsMade < MaxCalls
  /\ SignedIn(b) /\ account[session[b].user].role = "SUPER_ADMIN"
  /\ kind = "DELETE" => target # session[b].user
  /\ kind # "PATCH" => body = NoBody
  /\ kind = "DEMO" => target = session[b].user
  /\ call' = [call EXCEPT ![c] =
       [step |-> "authorized", kind |-> kind, actor |-> session[b].user,
        target |-> target, body |-> body, at |-> clock, seen |-> NoUser]]
  /\ callsMade' = callsMade + 1
  /\ UNCHANGED <<account, invariantLock, signingIn, session, clock>>

(* POST: a new row, whose address must be new.                             *)
CreateUser(b, u, role) ==
  /\ callsMade < MaxCalls
  /\ SignedIn(b) /\ account[session[b].user].role = "SUPER_ADMIN"
  /\ ~Exists(u) /\ u \notin DemoUsers
  /\ account' = [account EXCEPT ![u] = FreshAccount(role)]
  /\ callsMade' = callsMade + 1
  /\ UNCHANGED <<invariantLock, call, signingIn, session, clock>>

TakesPower(k) ==
  \/ k.kind = "DELETE"
  \/ Changes(k.body.role, "SUPER_ADMIN")
  \/ k.body.isActive = {FALSE}

RefusesSelf(k, row) ==
  /\ k.kind = "PATCH" /\ k.target = k.actor
  /\ Changes(k.body.role, row.role) \/ k.body.isActive = {FALSE}

RefusesLast(k, row) ==
  /\ row.role = "SUPER_ADMIN" /\ TakesPower(k)
  /\ Cardinality(ActiveSuperAdmins) <= 1

(* What the transaction may do with the row it found.                      *)
MayChange(k) ==
  LET row == account[k.target] IN
  /\ row # NoUser
  /\ ~RefusesSelf(k, row)
  /\ k.kind = "DELETE" => row.isActive
  /\ ~RefusesLast(k, row)

NoLock == TRUE  \* mutant: the transactions take no lock
CanLock == invariantLock = NoUser

InStep(c, step, kinds) ==
  call[c] # NoUser /\ call[c].step = step /\ call[c].kind \in kinds

(* The transaction takes the lock, reads the target and counts ...         *)
JudgeChange(c) ==
  /\ InStep(c, "authorized", {"PATCH", "DELETE"})
  /\ CanLock
  /\ MayChange(call[c])
  /\ invariantLock' = c
  /\ call' = [call EXCEPT ![c].step = "judged", ![c].seen = account[call[c].target]]
  /\ UNCHANGED <<account, signingIn, session, clock, callsMade>>

(* ... or refuses: a duplicate address or a department that is not active  *)
(* may refuse any PATCH.                                                   *)
RefuseChange(c) ==
  /\ InStep(c, "authorized", {"PATCH", "DELETE"})
  /\ CanLock
  /\ call[c].kind = "PATCH" \/ ~MayChange(call[c])
  /\ call' = [call EXCEPT ![c] = NoUser]
  /\ UNCHANGED <<account, invariantLock, signingIn, session, clock, callsMade>>

RevokesSessions(k) ==
  \/ k.kind = "DELETE"
  \/ k.body.newSecret
  \/ Changes(k.body.role, k.seen.role)
  \/ Changes(k.body.isActive, k.seen.isActive)

(* PATCH dates the change before its transaction, DELETE within it.        *)
ChangedAt(k) == IF k.kind = "DELETE" THEN clock ELSE k.at

ChangedRow(k, row) ==
  [role |-> Applied(k.body.role, row.role),
   isActive |-> k.kind # "DELETE" /\ Applied(k.body.isActive, row.isActive),
   hasPassword |-> row.hasPassword \/ k.body.newSecret,
   sessionVersion |-> row.sessionVersion + (IF RevokesSessions(k) THEN 1 ELSE 0),
   credentialsChangedAt |->
     IF RevokesSessions(k) THEN ChangedAt(k) ELSE row.credentialsChangedAt]

(* The row is written, unless it was removed meanwhile, and the lock ends  *)
(* with the transaction.                                                   *)
CommitChange(c) ==
  /\ InStep(c, "judged", {"PATCH", "DELETE"})
  /\ account' = [account EXCEPT ![call[c].target] =
       IF @ = NoUser THEN @ ELSE ChangedRow(call[c], @)]
  /\ invariantLock' = NoUser
  /\ call' = [call EXCEPT ![c] = NoUser]
  /\ UNCHANGED <<signingIn, session, clock, callsMade>>

(* removeDemoData: one transaction under a lock of its own.  The demo      *)
(* accounts other than the actor's go; those in referenced stay, inactive  *)
(* and without a password.                                                 *)
RemoveDemo(c, referenced) ==
  /\ InStep(c, "authorized", {"DEMO"})
  /\ account' = [u \in Users |->
       IF u \notin DemoUsers \ {call[c].actor} \/ ~Exists(u) THEN account[u]
       ELSE IF u \notin referenced THEN NoUser
       ELSE [account[u] EXCEPT !.isActive = FALSE, !.hasPassword = FALSE,
                               !.sessionVersion = @ + 1]]
  /\ call' = [call EXCEPT ![c] = NoUser]
  /\ UNCHANGED <<invariantLock, signingIn, session, clock, callsMade>>

-----------------------------------------------------------------------------
AccountsNext ==
  \/ \E b \in Browsers : IssueToken(b) \/ RenewToken(b)
  \/ \E b \in Browsers, u \in Users : ComparePassword(b, u)
  \/ \E b \in Browsers, u \in Users, role \in Role : CreateUser(b, u, role)
  \/ \E c \in Calls, b \in Browsers, target \in Users, body \in Bodies :
       \/ Authorize(c, b, "PATCH", target, body)
       \/ Authorize(c, b, "DELETE", target, body)
       \/ Authorize(c, b, "DEMO", target, body)
  \/ \E c \in Calls : JudgeChange(c) \/ RefuseChange(c) \/ CommitChange(c)
  \/ \E c \in Calls, referenced \in SUBSET DemoUsers : RemoveDemo(c, referenced)
  \/ PassHalfSecond

AccountsSpec == AccountsInit /\ [][AccountsNext]_accountVars

-----------------------------------------------------------------------------
(* However the calls of administrators meet, an active super administrator *)
(* is left: users/route.ts counts and writes under one lock.               *)
SuperAdminRemains == ActiveSuperAdmins # {}

(* When a change of power, state, password or address of a user commits,   *)
(* no session of the user is accepted any longer, and a token that is      *)
(* refused stays refused, whatever happens to its user afterwards: a user  *)
(* who is activated again must sign in again (sessionVersion).             *)
SessionsStayEnded ==
  /\ \A b \in Browsers :
       session[b] # NoUser /\ ~Accepted(session[b]) /\ session'[b] = session[b]
         => ~Accepted(session[b])'
  /\ \A c \in Calls : CommitChange(c) /\ RevokesSessions(call[c]) =>
       \A b \in Browsers :
         session[b] # NoUser /\ session[b].user = call[c].target
           => ~Accepted(session[b])'
=============================================================================
