------------------------ MODULE AdministrationProofs ------------------------
(***************************************************************************)
(* What holds for any number of users, calls, browsers and requests.  The  *)
(* access side first: an active super administrator is left, an ended      *)
(* session stays ended, lockouts hold, the files of /config, the database  *)
(* and the installation record agree, and somebody can sign in.  Then the  *)
(* pages that administer it, and last the two sides side by side.          *)
(***************************************************************************)
EXTENDS MCManagement, FiniteSetTheorems, TLAPS

(* A submitted field decides, another one leaves what was there.           *)
LEMMA AppliedWhenMissing ==
  ASSUME NEW field, NEW old, field = {}
  PROVE  Applied(field, old) = old
BY Zenon DEF Applied

LEMMA AppliedWhenGiven ==
  ASSUME NEW field, NEW old, NEW new, field = {new}
  PROVE  Applied(field, old) = new
<1>1. (CHOOSE y \in field : TRUE) \in field
  BY Zenon
<1>2. field # {}
  OBVIOUS
<1> QED
  BY <1>1, <1>2 DEF Applied

LEMMA AppliedStaysInRange ==
  ASSUME NEW S, NEW field \in Optional(S), NEW old \in S
  PROVE  Applied(field, old) \in S
<1>1. CASE field = {}
  BY <1>1, AppliedWhenMissing, Zenon
<1>2. CASE field # {}
  <2>1. PICK x \in S : field = {x}
    BY <1>2 DEF Optional
  <2>2. Applied(field, old) = x
    BY <2>1, AppliedWhenGiven, Zenon
  <2> QED
    BY <2>1, <2>2
<1> QED
  BY <1>1, <1>2

(* A change of a row leaves a row.                                         *)
LEMMA ChangedRowIsAccount ==
  ASSUME NEW k \in Call, NEW row \in Account, clock \in 0..MaxClock
  PROVE  ChangedRow(k, row) \in Account
<1>1. /\ k.body.role \in Optional(Role) /\ k.body.isActive \in Optional(BOOLEAN)
      /\ k.body.newSecret \in BOOLEAN
  BY AccountsAssumption DEF Call, Body
<1>2. Applied(k.body.role, row.role) \in Role
  <2>1. row.role \in Role
    BY DEF Account
  <2> QED
    BY <1>1, <2>1, AppliedStaysInRange
<1>3. Applied(k.body.isActive, row.isActive) \in BOOLEAN
  <2>1. row.isActive \in BOOLEAN
    BY DEF Account
  <2> QED
    BY <1>1, <2>1, AppliedStaysInRange
<1>4. (k.kind # "DELETE" /\ Applied(k.body.isActive, row.isActive)) \in BOOLEAN
  OBVIOUS
<1>5. (row.hasPassword \/ k.body.newSecret) \in BOOLEAN
  OBVIOUS
<1>6. row.sessionVersion + (IF RevokesSessions(k) THEN 1 ELSE 0) \in Nat
  BY DEF Account
<1>7. (IF RevokesSessions(k) THEN ChangedAt(k) ELSE row.credentialsChangedAt)
        \in 0..MaxClock
  BY DEF ChangedAt, Call, Account
<1> QED
  BY <1>2, <1>4, <1>5, <1>6, <1>7, Zenon DEF ChangedRow, Account

-----------------------------------------------------------------------------
LEMMA AccountsInitIsTyped == AccountsInit => AccountsTypeOK
<1> SUFFICES ASSUME AccountsInit PROVE AccountsTypeOK
  OBVIOUS
<1>1. FreshAccount("SUPER_ADMIN") \in Account
  BY AccountsAssumption DEF FreshAccount, Account, Role
<1> QED
  BY <1>1, AccountsAssumption DEF AccountsInit, AccountsTypeOK

LEMMA AccountsStepIsTyped ==
  ASSUME AccountsTypeOK, [AccountsNext]_accountVars
  PROVE  AccountsTypeOK'
<1> USE AccountsAssumption DEF AccountsTypeOK
<1>1. ASSUME NEW b \in Browsers, IssueToken(b) PROVE AccountsTypeOK'
  <2>1. WholeSecond(clock) \in 0..MaxClock
    BY DEF WholeSecond
  <2>2. PICK t \in Token \cup {NoUser} : session' = [session EXCEPT ![b] = t]
    BY <1>1, <2>1 DEF IssueToken, IsActiveUser, Exists, Token, Account
  <2> QED
    BY <1>1, <2>2 DEF IssueToken
<1>2. ASSUME NEW b \in Browsers, RenewToken(b) PROVE AccountsTypeOK'
  <2>1. WholeSecond(clock) \in 0..MaxClock
    BY DEF WholeSecond
  <2>2. session[b] \in Token
    BY <1>2 DEF RenewToken, SignedIn
  <2>3. [session[b] EXCEPT !.issued = WholeSecond(clock)] \in Token
    BY <2>1, <2>2 DEF Token
  <2> QED
    BY <1>2, <2>3 DEF RenewToken
<1>3. ASSUME NEW b \in Browsers, NEW u \in Users, ComparePassword(b, u)
      PROVE  AccountsTypeOK'
  BY <1>3 DEF ComparePassword
<1>4. ASSUME NEW b \in Browsers, NEW u \in Users, NEW role \in Role,
             CreateUser(b, u, role)
      PROVE  AccountsTypeOK'
  <2>1. FreshAccount(role) \in Account
    BY DEF FreshAccount, Account
  <2> QED
    BY <1>4, <2>1 DEF CreateUser
<1>5. ASSUME NEW c \in Calls, NEW b \in Browsers, NEW target \in Users,
             NEW body \in Bodies, NEW method \in {"PATCH", "DELETE", "DEMO"},
             Authorize(c, b, method, target, body)
      PROVE  AccountsTypeOK'
  <2>1. session[b].user \in Users
    BY <1>5 DEF Authorize, SignedIn, Token
  <2>2. [step |-> "authorized", kind |-> method, actor |-> session[b].user,
         target |-> target, body |-> body, at |-> clock, seen |-> NoUser] \in Call
    BY <2>1 DEF Call
  <2> QED
    BY <1>5, <2>2 DEF Authorize
<1>6. ASSUME NEW c \in Calls, JudgeChange(c) PROVE AccountsTypeOK'
  <2>1. call[c] \in Call
    BY <1>6 DEF JudgeChange, InStep
  <2>2. PICK k \in Call : call' = [call EXCEPT ![c] = k]
    <3>1. [call[c] EXCEPT !.step = "judged", !.seen = account[call[c].target]] \in Call
      BY <2>1 DEF Call
    <3>2. call' = [call EXCEPT ![c] =
            [call[c] EXCEPT !.step = "judged", !.seen = account[call[c].target]]]
      BY <1>6 DEF JudgeChange
    <3> QED
      BY <3>1, <3>2
  <2>3. invariantLock' = c /\ UNCHANGED <<account, signingIn, session, clock, callsMade>>
    BY <1>6, Zenon DEF JudgeChange
  <2> QED
    BY <2>2, <2>3
<1>7. ASSUME NEW c \in Calls, RefuseChange(c) PROVE AccountsTypeOK'
  BY <1>7 DEF RefuseChange
<1>8. ASSUME NEW c \in Calls, CommitChange(c) PROVE AccountsTypeOK'
  <2>1. call[c] \in Call /\ call[c].target \in Users
    BY <1>8 DEF CommitChange, InStep, Call
  <2>2. PICK row \in Account \cup {NoUser} :
          account' = [account EXCEPT ![call[c].target] = row]
    <3>1. account[call[c].target] # NoUser =>
            ChangedRow(call[c], account[call[c].target]) \in Account
      BY <2>1, ChangedRowIsAccount
    <3> QED
      BY <1>8, <2>1, <3>1 DEF CommitChange
  <2> QED
    BY <1>8, <2>1, <2>2 DEF CommitChange
<1>9. ASSUME NEW c \in Calls, NEW referenced \in SUBSET DemoUsers,
             RemoveDemo(c, referenced)
      PROVE  AccountsTypeOK'
  <2>1. ASSUME NEW row \in Account
        PROVE  [row EXCEPT !.isActive = FALSE, !.hasPassword = FALSE,
                           !.sessionVersion = @ + 1] \in Account
    <3>1. row.sessionVersion + 1 \in Nat
      BY DEF Account
    <3> QED
      BY <3>1, Zenon DEF Account
  <2>2. \A u \in Users : account'[u] \in Account \cup {NoUser}
    BY <1>9, <2>1 DEF RemoveDemo, Exists
  <2> QED
    BY <1>9, <2>2 DEF RemoveDemo
<1>10. ASSUME PassHalfSecond PROVE AccountsTypeOK'
  BY <1>10 DEF PassHalfSecond
<1>11. ASSUME UNCHANGED accountVars PROVE AccountsTypeOK'
  BY <1>11 DEF accountVars
<1> HIDE DEF AccountsTypeOK
<1> QED
  BY <1>1, <1>2, <1>3, <1>4, <1>5, <1>6, <1>7, <1>8, <1>9, <1>10, <1>11
     DEF AccountsNext

(* The type invariant holds for any users, calls and browsers.             *)
THEOREM AccountsTypesAreKept == AccountsSpec => []AccountsTypeOK
BY AccountsInitIsTyped, AccountsStepIsTyped, PTL DEF AccountsSpec

-----------------------------------------------------------------------------
(* The two facts that a transaction judged keep true until it commits: it  *)
(* holds the lock, so that no other change is made, and unless it takes no *)
(* power from a super administrator, there is another one.                 *)

Judged(c) == call[c] # NoUser /\ call[c].step = "judged"

TakesFromSuperAdmin(k) == account[k.target].role = "SUPER_ADMIN" /\ TakesPower(k)

IsBacked(c) ==
  /\ invariantLock = c
  /\ call[c].kind \in {"PATCH", "DELETE"}
  /\ TakesFromSuperAdmin(call[c]) =>
       \E v \in ActiveSuperAdmins : v # call[c].target

AdminsInv ==
  /\ AccountsTypeOK
  /\ SuperAdminRemains
  /\ \A c \in Calls : Judged(c) => IsBacked(c)

LEMMA InitHasSuperAdmin == AccountsInit => AdminsInv
<1> SUFFICES ASSUME AccountsInit PROVE AdminsInv
  OBVIOUS
<1>1. FreshAccount("SUPER_ADMIN") \in Account
  BY AccountsAssumption DEF FreshAccount, Account, Role
<1>2. account[Founder] = FreshAccount("SUPER_ADMIN") /\ Founder \in Users
  BY AccountsAssumption DEF AccountsInit
<1>3. account[Founder] # NoUser
  BY <1>1, <1>2, AccountsAssumption
<1>4. Founder \in ActiveSuperAdmins
  BY <1>2, <1>3 DEF ActiveSuperAdmins, IsActiveUser, Exists, FreshAccount
<1>5. \A c \in Calls : ~Judged(c)
  BY DEF AccountsInit, Judged
<1> QED
  BY <1>4, <1>5, AccountsInitIsTyped DEF AdminsInv, SuperAdminRemains

(* Whoever counts more than one finds another one than the target.         *)
LEMMA AnotherSuperAdmin ==
  ASSUME NEW u, ActiveSuperAdmins # {}, ~(Cardinality(ActiveSuperAdmins) <= 1)
  PROVE  \E v \in ActiveSuperAdmins : v # u
<1> SUFFICES ASSUME \A v \in ActiveSuperAdmins : v = u PROVE FALSE
  OBVIOUS
<1>1. ActiveSuperAdmins = {u}
  OBVIOUS
<1>2. Cardinality({u}) = 1
  BY FS_Singleton
<1> QED
  BY <1>1, <1>2

(* Steps that leave the accounts and the judged calls alone.               *)
LEMMA OtherStepsKeepSuperAdmin ==
  ASSUME AdminsInv, AccountsTypeOK', UNCHANGED <<account, invariantLock>>,
         \A c \in Calls : Judged(c)' => Judged(c) /\ call'[c] = call[c]
  PROVE  AdminsInv'
<1>1. ActiveSuperAdmins' = ActiveSuperAdmins
  BY DEF ActiveSuperAdmins, IsActiveUser, Exists
<1>2. ASSUME NEW c \in Calls, Judged(c)' PROVE IsBacked(c)'
  <2>1. IsBacked(c) /\ call'[c] = call[c]
    BY <1>2 DEF AdminsInv
  <2> QED
    BY <1>1, <2>1 DEF IsBacked, TakesFromSuperAdmin, TakesPower, Changes
<1> QED
  BY <1>1, <1>2 DEF AdminsInv, SuperAdminRemains

(* A commit takes power from a super administrator only when another one   *)
(* is there, and leaves the power of every other user alone.               *)
LEMMA CommitLeavesSuperAdmin ==
  ASSUME AdminsInv, NEW c \in Calls, CommitChange(c)
  PROVE  SuperAdminRemains'
<1> DEFINE k == call[c]
           row == account[k.target]
<1>1. /\ Judged(c) /\ IsBacked(c)
      /\ k \in Call /\ k.target \in Users
      /\ k.kind \in {"PATCH", "DELETE"}
  BY DEF AdminsInv, AccountsTypeOK, CommitChange, InStep, Judged, Call
<1>2. account' = [account EXCEPT ![k.target] =
                    IF @ = NoUser THEN @ ELSE ChangedRow(k, @)]
  BY DEF CommitChange
<1>3. \A v \in ActiveSuperAdmins : v # k.target => v \in ActiveSuperAdmins'
  BY <1>1, <1>2 DEF ActiveSuperAdmins, IsActiveUser, Exists, AdminsInv, AccountsTypeOK
<1>4. CASE \E v \in ActiveSuperAdmins : v # k.target
  BY <1>3, <1>4 DEF SuperAdminRemains
<1>5. CASE ~\E v \in ActiveSuperAdmins : v # k.target
  <2>1. k.target \in ActiveSuperAdmins
    BY <1>5 DEF AdminsInv, SuperAdminRemains
  <2>2. row \in Account /\ row # NoUser /\ row.isActive /\ row.role = "SUPER_ADMIN"
    BY <1>1, <2>1 DEF ActiveSuperAdmins, IsActiveUser, Exists, AdminsInv, AccountsTypeOK
  <2>3. ~TakesPower(k)
    BY <1>1, <1>5, <2>2 DEF IsBacked, TakesFromSuperAdmin
  <2>4. k.body.role \in Optional(Role) /\ k.body.isActive \in Optional(BOOLEAN)
    BY <1>1, AccountsAssumption DEF Call, Body
  <2>5. Applied(k.body.role, row.role) = "SUPER_ADMIN"
    <3>1. k.body.role = {} \/ k.body.role = {"SUPER_ADMIN"}
      BY <2>3 DEF TakesPower, Changes
    <3>2. row.role \in Role
      BY <2>2 DEF Role
    <3>3. k.body.role = {} => Applied(k.body.role, row.role) = row.role
      BY AppliedWhenMissing, Zenon
    <3>4. k.body.role = {"SUPER_ADMIN"} => Applied(k.body.role, row.role) = "SUPER_ADMIN"
      BY AppliedWhenGiven, Zenon
    <3> QED
      BY <2>2, <3>1, <3>3, <3>4
  <2>6. Applied(k.body.isActive, row.isActive) = TRUE
    <3>1. k.body.isActive = {} \/ k.body.isActive = {TRUE}
      BY <2>3, <2>4 DEF TakesPower, Optional
    <3>2. row.isActive \in BOOLEAN /\ row.isActive = TRUE
      BY <2>2 DEF Account
    <3>3. k.body.isActive = {} => Applied(k.body.isActive, row.isActive) = row.isActive
      BY AppliedWhenMissing, Zenon
    <3>4. k.body.isActive = {TRUE} => Applied(k.body.isActive, row.isActive) = TRUE
      BY AppliedWhenGiven, Zenon
    <3> QED
      BY <3>1, <3>2, <3>3, <3>4, Zenon
  <2>7. k.kind # "DELETE"
    BY <2>3 DEF TakesPower
  <2>8. account'[k.target] = ChangedRow(k, row)
    BY <1>1, <1>2, <2>2 DEF AdminsInv, AccountsTypeOK
  <2>9. account'[k.target].role = "SUPER_ADMIN" /\ account'[k.target].isActive
    <3>1. ChangedRow(k, row).role = Applied(k.body.role, row.role)
      BY Zenon DEF ChangedRow
    <3>2. ChangedRow(k, row).isActive
            = (k.kind # "DELETE" /\ Applied(k.body.isActive, row.isActive))
      BY Zenon DEF ChangedRow
    <3> QED
      BY <2>5, <2>6, <2>7, <2>8, <3>1, <3>2, Zenon
  <2>10. account'[k.target] # NoUser
    <3>1. ChangedRow(k, row) \in Account
      BY <1>1, <2>2, ChangedRowIsAccount DEF AdminsInv, AccountsTypeOK
    <3> QED
      BY <2>8, <3>1, AccountsAssumption
  <2> QED
    BY <1>1, <2>9, <2>10 DEF SuperAdminRemains, ActiveSuperAdmins, IsActiveUser, Exists
<1> QED
  BY <1>4, <1>5

LEMMA StepKeepsSuperAdmin ==
  ASSUME DemoUsers = {}, AdminsInv, [AccountsNext]_accountVars
  PROVE  AdminsInv'
<1>0. AccountsTypeOK /\ AccountsTypeOK'
  BY AccountsStepIsTyped DEF AdminsInv
<1>1. ASSUME NEW b \in Browsers, IssueToken(b) \/ RenewToken(b) PROVE AdminsInv'
  BY <1>0, <1>1, OtherStepsKeepSuperAdmin DEF IssueToken, RenewToken, Judged
<1>2. ASSUME NEW b \in Browsers, NEW u \in Users, ComparePassword(b, u)
      PROVE  AdminsInv'
  BY <1>0, <1>2, OtherStepsKeepSuperAdmin DEF ComparePassword, Judged
<1>3. ASSUME NEW b \in Browsers, NEW u \in Users, NEW role \in Role,
             CreateUser(b, u, role)
      PROVE  AdminsInv'
  <2>1. \A v \in ActiveSuperAdmins : v \in ActiveSuperAdmins'
    BY <1>0, <1>3 DEF CreateUser, ActiveSuperAdmins, IsActiveUser, Exists, AccountsTypeOK
  <2>2. ASSUME NEW c \in Calls, Judged(c)' PROVE IsBacked(c)'
    <3>1. Judged(c) /\ IsBacked(c) /\ call' = call /\ invariantLock' = invariantLock
      BY <1>3, <2>2 DEF CreateUser, Judged, AdminsInv
    <3>2. TakesFromSuperAdmin(call[c])' => TakesFromSuperAdmin(call[c])
               \/ \E v \in ActiveSuperAdmins' : v # call[c].target
      <4>1. CASE call[c].target = u
        BY <1>3, <2>1, <4>1 DEF AdminsInv, SuperAdminRemains, CreateUser,
             ActiveSuperAdmins, IsActiveUser
      <4>2. CASE call[c].target # u
        <5>1. account'[call[c].target] = account[call[c].target]
          BY <1>0, <1>3, <3>1, <4>2 DEF CreateUser, AccountsTypeOK
        <5> QED
          BY <3>1, <5>1 DEF TakesFromSuperAdmin, TakesPower, Changes
      <4> QED
        BY <4>1, <4>2
    <3> QED
      BY <2>1, <3>1, <3>2 DEF IsBacked
  <2> QED
    BY <1>0, <2>1, <2>2 DEF AdminsInv, SuperAdminRemains
<1>4. ASSUME NEW c \in Calls, NEW b \in Browsers, NEW target \in Users,
             NEW body \in Bodies, NEW method \in {"PATCH", "DELETE", "DEMO"},
             Authorize(c, b, method, target, body)
      PROVE  AdminsInv'
  BY <1>0, <1>4, OtherStepsKeepSuperAdmin DEF Authorize, Judged, AccountsTypeOK
<1>5. ASSUME NEW c \in Calls, JudgeChange(c) PROVE AdminsInv'
  <2>1. /\ invariantLock = NoUser /\ invariantLock' = c
        /\ account' = account
        /\ call[c] # NoUser /\ call[c].kind \in {"PATCH", "DELETE"}
        /\ MayChange(call[c])
    BY <1>5, Zenon DEF JudgeChange, CanLock, InStep
  <2>2. call[c] \in Call
    BY <1>0, <2>1 DEF AccountsTypeOK
  <2>3. /\ call'[c].kind = call[c].kind /\ call'[c].target = call[c].target
        /\ call'[c].body = call[c].body
        /\ \A e \in Calls : e # c => call'[e] = call[e]
    BY <1>0, <1>5, <2>2 DEF JudgeChange, AccountsTypeOK, Call
  <2>4. ActiveSuperAdmins' = ActiveSuperAdmins
    BY <2>1 DEF ActiveSuperAdmins, IsActiveUser, Exists
  <2>5. ASSUME NEW e \in Calls, Judged(e)' PROVE e = c
    <3>1. e # c => Judged(e) /\ invariantLock = e
      BY <2>3, <2>5 DEF Judged, AdminsInv, IsBacked
    <3> QED
      BY <2>1, <3>1, AccountsAssumption
  <2>6. TakesFromSuperAdmin(call[c]) => \E v \in ActiveSuperAdmins : v # call[c].target
    BY <2>1, AnotherSuperAdmin
       DEF MayChange, RefusesLast, TakesFromSuperAdmin, AdminsInv, SuperAdminRemains
  <2>7. TakesFromSuperAdmin(call[c])' => TakesFromSuperAdmin(call[c])
    BY <2>1, <2>3 DEF TakesFromSuperAdmin, TakesPower, Changes
  <2>8. IsBacked(c)'
    BY <2>1, <2>3, <2>4, <2>6, <2>7 DEF IsBacked
  <2> QED
    BY <1>0, <2>4, <2>5, <2>8 DEF AdminsInv, SuperAdminRemains
<1>6. ASSUME NEW c \in Calls, RefuseChange(c) PROVE AdminsInv'
  BY <1>0, <1>6, OtherStepsKeepSuperAdmin DEF RefuseChange, Judged, AccountsTypeOK
<1>7. ASSUME NEW c \in Calls, CommitChange(c) PROVE AdminsInv'
  <2>1. Judged(c) /\ invariantLock = c /\ call' = [call EXCEPT ![c] = NoUser]
    BY <1>7 DEF CommitChange, InStep, Judged, AdminsInv, IsBacked
  <2>2. ASSUME NEW e \in Calls, Judged(e)' PROVE FALSE
    <3>1. e # c /\ Judged(e)
      BY <1>0, <2>1, <2>2 DEF Judged, AccountsTypeOK
    <3> QED
      BY <2>1, <3>1 DEF AdminsInv, IsBacked
  <2> QED
    BY <1>0, <1>7, <2>2, CommitLeavesSuperAdmin DEF AdminsInv
<1>8. ASSUME NEW c \in Calls, NEW referenced \in SUBSET DemoUsers,
             RemoveDemo(c, referenced)
      PROVE  AdminsInv'
  <2>1. account' = account
    BY <1>0, <1>8 DEF RemoveDemo, AccountsTypeOK
  <2> QED
    BY <1>0, <1>8, <2>1, OtherStepsKeepSuperAdmin
       DEF RemoveDemo, Judged, AccountsTypeOK
<1>9. ASSUME PassHalfSecond \/ UNCHANGED accountVars PROVE AdminsInv'
  BY <1>0, <1>9, OtherStepsKeepSuperAdmin DEF PassHalfSecond, accountVars, Judged
<1> QED
  BY <1>1, <1>2, <1>3, <1>4, <1>5, <1>6, <1>7, <1>8, <1>9 DEF AccountsNext

(* However the calls of administrators meet, an active super administrator *)
(* is left, once no demo data is there: the removal of demo accounts takes *)
(* no lock and counts nobody (demo-data.mjs).                              *)
THEOREM SuperAdminAlwaysRemains ==
  ASSUME DemoUsers = {}
  PROVE  AccountsSpec => []SuperAdminRemains
<1>1. AdminsInv /\ [AccountsNext]_accountVars => AdminsInv'
  BY StepKeepsSuperAdmin
<1>2. AdminsInv => SuperAdminRemains
  BY DEF AdminsInv
<1> QED
  BY <1>1, <1>2, InitHasSuperAdmin, PTL DEF AccountsSpec

-----------------------------------------------------------------------------
(* Installation and start                                                  *)

LEMMA InstallationInitIsTyped == InstallationInit => InstallationTypeOK
<1> SUFFICES ASSUME InstallationInit PROVE InstallationTypeOK
  OBVIOUS
<1>1. identity \in BOOLEAN /\ tokenValid \in BOOLEAN
  BY Zenon DEF InstallationInit
<1> QED
  BY <1>1, InstallationAssumption DEF InstallationInit, InstallationTypeOK, Stage

(* A process that starts knows no session and no request.                  *)
LEMMA EnteredStageIsTyped ==
  ASSUME NEW s \in Stage, Enter(s)
  PROVE  /\ stage' \in Stage
         /\ tokenValid' \in BOOLEAN /\ sessions' = {} /\ opening' = {}
         /\ install' \in [Installs -> Install \cup {NotThere}]
         /\ \A i \in Installs : install'[i] = NotThere
BY Zenon DEF Enter

LEMMA SteppedInstallIsTyped ==
  ASSUME InstallationTypeOK, NEW i \in Installs, NEW from, InstallAt(i, from),
         NEW to \in {"begun", "tested", "written", "migrated", "committed"},
         StepInstall(i, to)
  PROVE  /\ install' \in [Installs -> Install \cup {NotThere}]
         /\ install[i] \in Install /\ install'[i] \in Install
         /\ install'[i].step = to /\ install'[i].url = install[i].url
         /\ install'[i].local = install[i].local
         /\ \A j \in Installs : j # i => install'[j] = install[j]
<1>1. install[i] \in Install
  BY DEF InstallAt, InstallationTypeOK
<1>2. PICK k \in Install :
        /\ install' = [install EXCEPT ![i] = k]
        /\ k.step = to /\ k.url = install[i].url /\ k.local = install[i].local
  <2>1. [install[i] EXCEPT !.step = to] \in Install
    BY <1>1 DEF Install
  <2>2. install' = [install EXCEPT ![i] = [install[i] EXCEPT !.step = to]]
    BY DEF StepInstall
  <2> QED
    BY <1>1, <2>1, <2>2 DEF Install
<1> QED
  BY <1>1, <1>2 DEF InstallationTypeOK

(* The start writes no receipt but the one of the row that it found.       *)
LEMMA ReconciledReceipt ==
  ASSUME NEW answered \in BOOLEAN, Reconcile(answered)
  PROVE  \E d \in {"FAILED", "UNINSTALLED", "INSTALLED", "RECOVER"} :
           /\ Enter(StageAfter(d))
           /\ receipt' = receipt \/ (record # NotThere /\ receipt' = record.url)
<1> DEFINE found == IF answered THEN record ELSE NotThere
           d == Reconciled(found, runtimeEnv # NotThere /\ ~answered)
<1>1. /\ Enter(StageAfter(d))
      /\ receipt' = IF d = "RECOVER" THEN found.url ELSE receipt
  BY Zenon DEF Reconcile
<1>2. d \in {"FAILED", "UNINSTALLED", "INSTALLED", "RECOVER"}
  BY DEF Reconciled
<1>3. d = "RECOVER" => found = record /\ record # NotThere
  BY DEF Reconciled
<1>4. receipt' = receipt \/ (record # NotThere /\ receipt' = record.url)
  <2> HIDE DEF found, d
  <2>1. CASE d = "RECOVER"
    <3>1. found = record /\ record # NotThere
      BY <1>3, <2>1
    <3>2. receipt' = found.url
      BY <1>1, <2>1, Zenon
    <3> QED
      BY <3>1, <3>2, Zenon
  <2>2. CASE d # "RECOVER"
    BY <1>1, <2>2, Zenon
  <2> QED
    BY <2>1, <2>2
<1> QED
  BY <1>1, <1>2, <1>4, Zenon

LEMMA InstallationStepIsTyped ==
  ASSUME InstallationTypeOK, [InstallationNext]_installationVars,
         \A i \in Installs : InstallAt(i, "tested") => password # NotThere,
         \A i \in Installs : InstallAt(i, "migrated") => runtimeEnv # NotThere
  PROVE  InstallationTypeOK'
<1> USE InstallationAssumption DEF InstallationTypeOK, fileVars, sessionVars
<1>1. ASSUME InitializeConfig PROVE InstallationTypeOK'
  BY <1>1, EnteredStageIsTyped DEF InitializeConfig, Stage, Mint, Secret
<1>2. ASSUME WriteIdentity PROVE InstallationTypeOK'
  BY <1>2, EnteredStageIsTyped DEF WriteIdentity, Stage
<1>3. ASSUME StartDatabase PROVE InstallationTypeOK'
  BY <1>3, EnteredStageIsTyped DEF StartDatabase, Stage
<1>4. ASSUME RestartContainer PROVE InstallationTypeOK'
  BY <1>4, EnteredStageIsTyped DEF RestartContainer, Stage
<1>5. ASSUME NEW answered \in BOOLEAN, Reconcile(answered) PROVE InstallationTypeOK'
  <2>1. PICK d \in {"FAILED", "UNINSTALLED", "INSTALLED", "RECOVER"} :
          /\ Enter(StageAfter(d))
          /\ receipt' = receipt \/ (record # NotThere /\ receipt' = record.url)
    BY <1>5, ReconciledReceipt
  <2>2. StageAfter(d) \in Stage
    BY DEF StageAfter, Stage
  <2>3. receipt' \in Origins \cup {NotThere, Malformed}
    BY <2>1 DEF InstallationRecord
  <2>4. mishaps' \in 0..MaxMishaps
    BY <1>5 DEF Reconcile, Mishap
  <2> QED
    BY <1>5, <2>1, <2>2, <2>3, <2>4, EnteredStageIsTyped DEF Reconcile
<1>6. ASSUME RunStage PROVE InstallationTypeOK'
  <2>1. PICK s \in Stage : Enter(s)
    BY <1>6 DEF RunStage, NextStage, Stage
  <2> QED
    BY <1>6, <2>1, EnteredStageIsTyped DEF RunStage, Mishap
<1>7. ASSUME NEW b \in Openers, AskForSession(b) \/ AnswerSession(b)
      PROVE  InstallationTypeOK'
  BY <1>7 DEF AskForSession, AnswerSession
<1>8. ASSUME PassSetupTime PROVE InstallationTypeOK'
  BY <1>8 DEF PassSetupTime
<1>9. ASSUME NEW i \in Installs, NEW url \in Origins, NEW local \in BOOLEAN,
             AskToInstall(i, url, local)
      PROVE  InstallationTypeOK'
  <2>1. [step |-> "asked", url |-> url, local |-> local] \in Install
    BY DEF Install
  <2> QED
    BY <1>9, <2>1 DEF AskToInstall
<1>10. ASSUME NEW i \in Installs, BeginInstall(i) PROVE InstallationTypeOK'
  BY <1>10, SteppedInstallIsTyped DEF BeginInstall
<1>11. ASSUME NEW i \in Installs, TestDatabase(i) PROVE InstallationTypeOK'
  BY <1>11, SteppedInstallIsTyped DEF TestDatabase
<1>12. ASSUME NEW i \in Installs, WriteEnvironment(i)
       PROVE  InstallationTypeOK'
  <2>1. install[i].url \in Origins
    BY <1>12 DEF WriteEnvironment, InstallAt, Install
  <2>2. minted' \in Secret /\ minted' \in 0..MaxMinted
    BY <1>12 DEF WriteEnvironment, Mint, Secret
  <2>3. runtimeEnv' \in RuntimeEnv
    <3>1. password \in Secret
      BY <1>12 DEF WriteEnvironment
    <3> QED
      BY <1>12, <2>1, <2>2, <3>1 DEF WriteEnvironment, RuntimeEnv
  <2> QED
    BY <1>12, <2>2, <2>3, SteppedInstallIsTyped DEF WriteEnvironment
<1>13. ASSUME NEW i \in Installs, MigrateDatabase(i) PROVE InstallationTypeOK'
  BY <1>13, SteppedInstallIsTyped DEF MigrateDatabase
<1>14. ASSUME NEW i \in Installs, CommitInstallation(i)
       PROVE  InstallationTypeOK'
  <2>1. install[i] \in Install
    BY <1>14 DEF CommitInstallation, InstallAt
  <2>2. record' \in InstallationRecord
    <3>1. runtimeEnv \in RuntimeEnv
      BY <1>14 DEF CommitInstallation
    <3> QED
      BY <1>14, <2>1, <3>1 DEF CommitInstallation, InstallationRecord, Install, RuntimeEnv
  <2>3. install' \in [Installs -> Install \cup {NotThere}]
    <3>1. CASE StepInstall(i, "committed")
      BY <1>14, <3>1, SteppedInstallIsTyped DEF CommitInstallation
    <3> QED
      BY <1>14, <3>1 DEF CommitInstallation
  <2> QED
    BY <1>14, <2>2, <2>3 DEF CommitInstallation, Mishap
<1>15. ASSUME NEW i \in Installs, FailInstall(i) PROVE InstallationTypeOK'
  BY <1>15 DEF FailInstall
<1>16. ASSUME NEW i \in Installs, WriteReceipt(i) PROVE InstallationTypeOK'
  BY <1>16 DEF WriteReceipt, InstallAt, Install, Stage
<1>17. ASSUME CloseSetup PROVE InstallationTypeOK'
  BY <1>17, EnteredStageIsTyped DEF CloseSetup, Stage
<1>18. ASSUME StopContainers PROVE InstallationTypeOK'
  BY <1>18, EnteredStageIsTyped DEF StopContainers, Stage, Mishap
<1>19. ASSUME LoseFile PROVE InstallationTypeOK'
  <2>1. identity' \in BOOLEAN
    BY <1>19, Zenon DEF LoseFile
  <2> QED
    BY <1>19, <2>1 DEF LoseFile, Mishap
<1>20. ASSUME UNCHANGED installationVars PROVE InstallationTypeOK'
  BY <1>20 DEF installationVars
<1> HIDE DEF InstallationTypeOK
<1> QED
  BY <1>1, <1>2, <1>3, <1>4, <1>5, <1>6, <1>7, <1>8, <1>9, <1>10, <1>11, <1>12,
     <1>13, <1>14, <1>15, <1>16, <1>17, <1>18, <1>19, <1>20
     DEF InstallationNext

-----------------------------------------------------------------------------
(* What the writes of an installation, of a start and of the environment   *)
(* keep true between them.                                                 *)

FilesMatch ==
  /\ password # NotThere /\ pgPassword # NotThere => password = pgPassword
  /\ stage \in {"secrets", "database"} => password # NotThere
  /\ runtimeEnv # NotThere =>
       pgPassword # NotThere /\ runtimeEnv.password = pgPassword

RecordMatches ==
  /\ record # NotThere => pgPassword # NotThere /\ record.local = TRUE
  /\ record # NotThere /\ runtimeEnv # NotThere => runtimeEnv.key = record.key
  /\ receipt \in Origins => record # NotThere /\ record.url = receipt

(* How far a request has come tells what it has written.                   *)
InstallIsSound(i) ==
  install[i] # NotThere =>
    /\ SetupAnswers
    /\ install[i].step # "asked" => install[i].local = TRUE
    /\ install[i].step \in {"tested", "written", "migrated", "committed"} =>
         password = pgPassword /\ password # NotThere
    /\ install[i].step \in {"tested", "written", "migrated"} => record = NotThere
    /\ install[i].step \in {"written", "migrated"} => runtimeEnv # NotThere
    /\ install[i].step = "committed" =>
         record # NotThere /\ record.url = install[i].url

IsRunning(i) == install[i] # NotThere /\ install[i].step # "asked"

OneInstallRuns == \A i, j \in Installs : IsRunning(i) /\ IsRunning(j) => i = j
OneSession == \A b, c \in sessions : b = c

Sound ==
  /\ FilesMatch /\ RecordMatches
  /\ \A i \in Installs : InstallIsSound(i)
  /\ OneInstallRuns /\ OneSession

InstallationInv == InstallationTypeOK /\ Sound

LEMMA InitIsSound == InstallationInit => Sound
BY InstallationAssumption
   DEF InstallationInit, Sound, FilesMatch, RecordMatches, InstallIsSound,
       OneInstallRuns, OneSession, IsRunning

LEMMA StepIsTyped ==
  ASSUME InstallationInv, [InstallationNext]_installationVars
  PROVE  InstallationTypeOK'
BY InstallationStepIsTyped DEF InstallationInv, Sound, InstallIsSound, InstallAt

(* A new start has no request and no session.                              *)
LEMMA StartIsSound ==
  ASSUME Sound, NEW s \in Stage, Enter(s), FilesMatch', RecordMatches'
  PROVE  Sound'
BY EnteredStageIsTyped DEF Sound, InstallIsSound, OneInstallRuns, OneSession, IsRunning

LEMMA StepIsSound ==
  ASSUME InstallationInv, [InstallationNext]_installationVars
  PROVE  Sound'
<1>0. InstallationTypeOK /\ InstallationTypeOK' /\ Sound
  BY StepIsTyped DEF InstallationInv
<1> USE InstallationAssumption DEF fileVars, sessionVars
<1> DEFINE Parts == FilesMatch /\ RecordMatches
<1>1. ASSUME InitializeConfig PROVE Sound'
  <2>1. Parts'
    <3>1. /\ stage' \in {"secrets", "database"}
          /\ UNCHANGED <<runtimeEnv, receipt, pgPassword, record>>
          /\ \/ password' = password /\ password # NotThere
             \/ pgPassword = NotThere /\ password' # NotThere
      <4>1. CASE HasSecretPair /\ UNCHANGED <<password, minted>>
        BY <1>1, <4>1 DEF InitializeConfig, HasSecretPair, Enter
      <4>2. CASE pgPassword = NotThere /\ Mint /\ password' = minted' /\ Enter("secrets")
        <5>1. minted' \in Secret
          BY <1>0, <4>2 DEF Mint, Secret, InstallationTypeOK
        <5> QED
          BY <1>1, <4>2, <5>1 DEF InitializeConfig, Enter
      <4> QED
        BY <1>1, <4>1, <4>2, Zenon DEF InitializeConfig
    <3> QED
      BY <1>0, <3>1 DEF Sound, FilesMatch, RecordMatches
  <2> QED
    BY <1>0, <1>1, <2>1, StartIsSound DEF InitializeConfig, Stage
<1>2. ASSUME WriteIdentity PROVE Sound'
  <2>1. Parts'
    BY <1>0, <1>2 DEF WriteIdentity, Enter, Sound, FilesMatch, RecordMatches
  <2> QED
    BY <1>0, <1>2, <2>1, StartIsSound DEF WriteIdentity, Stage
<1>3. ASSUME StartDatabase PROVE Sound'
  <2>1. Parts'
    BY <1>0, <1>3 DEF StartDatabase, Enter, Sound, FilesMatch, RecordMatches
  <2> QED
    BY <1>0, <1>3, <2>1, StartIsSound DEF StartDatabase, Stage
<1>4. ASSUME RestartContainer PROVE Sound'
  <2>1. Parts'
    BY <1>0, <1>4 DEF RestartContainer, Enter, Sound, FilesMatch, RecordMatches
  <2> QED
    BY <1>0, <1>4, <2>1, StartIsSound DEF RestartContainer, Stage
<1>5. ASSUME NEW answered \in BOOLEAN, Reconcile(answered) PROVE Sound'
  <2>1. PICK d \in {"FAILED", "UNINSTALLED", "INSTALLED", "RECOVER"} :
          /\ Enter(StageAfter(d))
          /\ receipt' = receipt \/ (record # NotThere /\ receipt' = record.url)
    BY <1>5, ReconciledReceipt
  <2>2. PICK s \in {"stopped", "setup", "validate"} : Enter(s)
    BY <2>1 DEF StageAfter
  <2>3. Parts'
    BY <1>0, <1>5, <2>1, <2>2 DEF Reconcile, Enter, Sound, FilesMatch, RecordMatches
  <2> QED
    BY <1>0, <2>2, <2>3, StartIsSound DEF Stage
<1>6. ASSUME RunStage PROVE Sound'
  <2>1. PICK s \in Stage \ {"secrets", "database"} : Enter(s)
    BY <1>6 DEF RunStage, NextStage, Stage
  <2>2. Parts'
    BY <1>0, <1>6, <2>1 DEF RunStage, Enter, Sound, FilesMatch, RecordMatches
  <2> QED
    BY <1>0, <1>6, <2>1, <2>2, StartIsSound
<1>7. ASSUME NEW b \in Openers, AskForSession(b) \/ AnswerSession(b) PROVE Sound'
  BY <1>0, <1>7 DEF AskForSession, AnswerSession, Sound, FilesMatch, RecordMatches,
     InstallIsSound, OneInstallRuns, OneSession, IsRunning, SetupAnswers
<1>8. ASSUME PassSetupTime PROVE Sound'
  BY <1>0, <1>8 DEF PassSetupTime, Sound, FilesMatch, RecordMatches,
     InstallIsSound, OneInstallRuns, OneSession, IsRunning, SetupAnswers
<1>9. ASSUME NEW i \in Installs, NEW url \in Origins, NEW local \in BOOLEAN,
             AskToInstall(i, url, local)
      PROVE  Sound'
  BY <1>0, <1>9 DEF AskToInstall, Sound, FilesMatch, RecordMatches, InstallIsSound,
     OneInstallRuns, OneSession, IsRunning, SetupAnswers, InstallationTypeOK
<1>10. ASSUME NEW i \in Installs, BeginInstall(i) PROVE Sound'
  <2>1. install[i].local = TRUE
    BY <1>0, <1>10 DEF BeginInstall, AcceptsLogin, InstallAt, InstallationTypeOK, Install
  <2> QED
    BY <1>0, <1>10, <2>1, SteppedInstallIsTyped
       DEF BeginInstall, Sound, FilesMatch, RecordMatches, InstallIsSound,
           OneInstallRuns, OneSession, IsRunning, InstallRunning, SetupAnswers, InstallAt
<1>11. ASSUME NEW i \in Installs, TestDatabase(i) PROVE Sound'
  BY <1>0, <1>11, SteppedInstallIsTyped
     DEF TestDatabase, Sound, FilesMatch, RecordMatches, InstallIsSound,
         OneInstallRuns, OneSession, IsRunning, SetupAnswers, InstallAt
<1>12. ASSUME NEW i \in Installs, WriteEnvironment(i) PROVE Sound'
  <2>1. /\ InstallAt(i, "tested") /\ StepInstall(i, "written")
        /\ runtimeEnv' = [password |-> password, key |-> minted', url |-> install[i].url]
        /\ minted' \in Secret
        /\ UNCHANGED <<password, receipt, pgPassword, record, stage, sessions>>
    BY <1>0, <1>12 DEF WriteEnvironment, Mint, Secret, InstallationTypeOK
  <2>2. /\ password = pgPassword /\ password # NotThere /\ record = NotThere
        /\ SetupAnswers /\ install[i].local = TRUE
    BY <1>0, <2>1 DEF Sound, InstallIsSound, InstallAt
  <2>3. runtimeEnv' # NotThere /\ runtimeEnv'.password = pgPassword
    <3>1. install[i].url \in Origins /\ password \in Secret
      BY <1>0, <2>1, <2>2 DEF InstallAt, InstallationTypeOK, Install
    <3> QED
      BY <2>1, <2>2, <3>1 DEF RuntimeEnv
  <2>4. Parts'
    BY <1>0, <2>1, <2>2, <2>3 DEF Sound, FilesMatch, RecordMatches
  <2>5. \A j \in Installs : InstallIsSound(j)'
    BY <1>0, <2>1, <2>2, <2>3, SteppedInstallIsTyped
       DEF Sound, InstallIsSound, OneInstallRuns, IsRunning, SetupAnswers, InstallAt
  <2>6. OneInstallRuns' /\ OneSession'
    BY <1>0, <2>1, SteppedInstallIsTyped
       DEF Sound, OneInstallRuns, OneSession, IsRunning, InstallAt
  <2> QED
    BY <2>4, <2>5, <2>6 DEF Sound
<1>13. ASSUME NEW i \in Installs, MigrateDatabase(i) PROVE Sound'
  BY <1>0, <1>13, SteppedInstallIsTyped
     DEF MigrateDatabase, Sound, FilesMatch, RecordMatches, InstallIsSound,
         OneInstallRuns, OneSession, IsRunning, SetupAnswers, InstallAt
<1>14. ASSUME NEW i \in Installs, CommitInstallation(i) PROVE Sound'
  <2>1. /\ InstallAt(i, "migrated") /\ record = NotThere
        /\ record' = [url |-> install[i].url, key |-> runtimeEnv.key,
                      local |-> install[i].local]
        /\ UNCHANGED <<password, receipt, runtimeEnv, pgPassword, stage, sessions>>
    BY <1>14 DEF CommitInstallation
  <2>2. /\ password = pgPassword /\ password # NotThere /\ runtimeEnv # NotThere
        /\ install[i].local = TRUE
    BY <1>0, <2>1 DEF Sound, InstallIsSound, InstallAt
  <2>3. record' # NotThere
    <3>1. install[i] \in Install /\ runtimeEnv \in RuntimeEnv
      BY <1>0, <2>1, <2>2 DEF InstallAt, InstallationTypeOK
    <3> QED
      BY <2>1, <3>1 DEF InstallationRecord, Install, RuntimeEnv
  <2>4. Parts'
    BY <1>0, <2>1, <2>2, <2>3 DEF Sound, FilesMatch, RecordMatches
  <2>5. /\ \A j \in Installs : j # i => install'[j] = install[j]
        /\ install'[i] = NotThere
           \/ (/\ install'[i].step = "committed" /\ install'[i].url = install[i].url
               /\ install'[i].local = install[i].local)
    <3>1. CASE StepInstall(i, "committed")
      BY <1>0, <2>1, <3>1, SteppedInstallIsTyped
    <3>2. CASE install' = [install EXCEPT ![i] = NotThere]
      <4>1. install' \in [Installs -> Install \cup {NotThere}] /\ install'[i] = NotThere
        BY <1>0, <3>2 DEF InstallationTypeOK
      <4>2. \A j \in Installs : j # i => install'[j] = install[j]
        BY <1>0, <3>2 DEF InstallationTypeOK
      <4> QED
        BY <4>1, <4>2, Zenon
    <3> QED
      BY <1>14, <3>1, <3>2 DEF CommitInstallation
  <2>6. \A j \in Installs : InstallIsSound(j)'
    BY <1>0, <2>1, <2>2, <2>3, <2>5
       DEF Sound, InstallIsSound, OneInstallRuns, IsRunning, SetupAnswers, InstallAt
  <2>7. OneInstallRuns' /\ OneSession'
    BY <1>0, <2>1, <2>5 DEF Sound, OneInstallRuns, OneSession, IsRunning, InstallAt
  <2> QED
    BY <2>4, <2>6, <2>7 DEF Sound
<1>15. ASSUME NEW i \in Installs, FailInstall(i) PROVE Sound'
  BY <1>0, <1>15 DEF FailInstall, Sound, FilesMatch, RecordMatches, InstallIsSound,
     OneInstallRuns, OneSession, IsRunning, SetupAnswers, InstallationTypeOK
<1>16. ASSUME NEW i \in Installs, WriteReceipt(i) PROVE Sound'
  BY <1>0, <1>16 DEF WriteReceipt, InstallAt, Sound, FilesMatch, RecordMatches,
     InstallIsSound, OneInstallRuns, OneSession, IsRunning, SetupAnswers, InstallationTypeOK
<1>17. ASSUME CloseSetup PROVE Sound'
  <2>1. Parts'
    BY <1>0, <1>17 DEF CloseSetup, Enter, Sound, FilesMatch, RecordMatches
  <2> QED
    BY <1>0, <1>17, <2>1, StartIsSound DEF CloseSetup, Stage
<1>18. ASSUME StopContainers PROVE Sound'
  <2>1. Parts'
    BY <1>0, <1>18 DEF StopContainers, Enter, Sound, FilesMatch, RecordMatches
  <2> QED
    BY <1>0, <1>18, <2>1, StartIsSound DEF StopContainers, Stage
<1>19. ASSUME LoseFile PROVE Sound'
  <2>1. \A i \in Installs : install[i] = NotThere
    BY <1>0, <1>19 DEF LoseFile, Sound, InstallIsSound, SetupAnswers
  <2>2. Parts'
    BY <1>0, <1>19 DEF LoseFile, Sound, FilesMatch, RecordMatches
  <2> QED
    BY <1>0, <1>19, <2>1, <2>2 DEF LoseFile, Sound, InstallIsSound, OneInstallRuns, OneSession, IsRunning
<1>20. ASSUME UNCHANGED installationVars PROVE Sound'
  BY <1>0, <1>20 DEF installationVars, Sound, FilesMatch, RecordMatches,
     InstallIsSound, OneInstallRuns, OneSession, IsRunning, SetupAnswers
<1> QED
  BY <1>1, <1>2, <1>3, <1>4, <1>5, <1>6, <1>7, <1>8, <1>9, <1>10, <1>11, <1>12,
     <1>13, <1>14, <1>15, <1>16, <1>17, <1>18, <1>19, <1>20
     DEF InstallationNext

LEMMA SoundIsStanding ==
  ASSUME InstallationInv
  PROVE  InstallationStands
<1>1. Cardinality(sessions) <= 1
  <2>1. CASE sessions = {}
    BY <2>1, FS_EmptySet
  <2>2. CASE sessions # {}
    <3>1. PICK b \in sessions : sessions = {b}
      BY <2>2 DEF InstallationInv, Sound, OneSession
    <3> QED
      BY <3>1, FS_Singleton
  <2> QED
    BY <2>1, <2>2
<1> QED
  BY <1>1 DEF InstallationInv, Sound, FilesMatch, RecordMatches, InstallationStands

(* Whatever was lost, repeated or interrupted, and however many requests   *)
(* install at a time, the files that are there belong to the installation  *)
(* in the database.                                                        *)
THEOREM InstallationAlwaysStands == InstallationSpec => []InstallationStands
<1>1. InstallationInit => InstallationInv
  BY InstallationInitIsTyped, InitIsSound DEF InstallationInv
<1>2. InstallationInv /\ [InstallationNext]_installationVars => InstallationInv'
  BY StepIsTyped, StepIsSound DEF InstallationInv
<1>3. InstallationInv => InstallationStands
  BY SoundIsStanding
<1> QED
  BY <1>1, <1>2, <1>3, PTL DEF InstallationSpec

(* The row is written once, and a start that reads it goes on.             *)
LEMMA RecordStays ==
  ASSUME InstallationNext, record # NotThere
  PROVE  record' = record
<1> USE DEF fileVars, sessionVars
<1>1. ASSUME NEW i \in Installs,
             \/ BeginInstall(i) \/ TestDatabase(i) \/ WriteEnvironment(i)
             \/ MigrateDatabase(i) \/ CommitInstallation(i) \/ WriteReceipt(i)
             \/ FailInstall(i)
      PROVE  record' = record
  BY <1>1 DEF BeginInstall, TestDatabase, WriteEnvironment, MigrateDatabase,
     CommitInstallation, WriteReceipt, FailInstall
<1>2. ASSUME NEW i \in Installs, NEW url \in Origins, NEW local \in BOOLEAN,
             AskToInstall(i, url, local)
      PROVE  record' = record
  BY <1>2 DEF AskToInstall
<1>3. ASSUME NEW b \in Openers, AskForSession(b) \/ AnswerSession(b)
      PROVE  record' = record
  BY <1>3 DEF AskForSession, AnswerSession
<1>4. ASSUME NEW answered \in BOOLEAN, Reconcile(answered) PROVE record' = record
  BY <1>4 DEF Reconcile
<1>5. ASSUME \/ InitializeConfig \/ WriteIdentity \/ StartDatabase
             \/ RestartContainer \/ RunStage \/ PassSetupTime
             \/ CloseSetup \/ StopContainers \/ LoseFile
      PROVE  record' = record
  BY <1>5 DEF InitializeConfig, WriteIdentity, StartDatabase, RestartContainer,
     RunStage, PassSetupTime, CloseSetup, StopContainers, LoseFile
<1> QED
  BY <1>1, <1>2, <1>3, <1>4, <1>5, Zenon DEF InstallationNext

LEMMA StartGoesOn ==
  ASSUME InstallationInv, record # NotThere, receipt # Malformed, Reconcile(TRUE)
  PROVE  stage' = "validate"
<1>1. runtimeEnv # NotThere
  BY DEF Reconcile, EnvConnects
<1>2. receipt # NotThere => record.url = receipt
  BY DEF InstallationInv, InstallationTypeOK, Sound, RecordMatches
<1>3. Reconciled(record, FALSE) \in {"INSTALLED", "RECOVER"}
  BY <1>1, <1>2 DEF Reconciled
<1>4. StageAfter(Reconciled(record, FALSE)) = "validate"
  BY <1>3 DEF StageAfter
<1>5. (runtimeEnv # NotThere /\ ~TRUE) = FALSE
  OBVIOUS
<1>6. stage' = StageAfter(Reconciled(record, FALSE))
  BY <1>5 DEF Reconcile, Enter
<1> QED
  BY <1>4, <1>6

(* An installation is never made again, and a start that has its           *)
(* environment and an answer of the database goes on to production.        *)
THEOREM InstalledStaysInstalled ==
  InstallationSpec => [][InstalledForGood]_installationVars
<1>1. InstallationInit => InstallationInv
  BY InstallationInitIsTyped, InitIsSound DEF InstallationInv
<1>2. InstallationInv /\ [InstallationNext]_installationVars => InstallationInv'
  BY StepIsTyped, StepIsSound DEF InstallationInv
<1>3. InstallationInv /\ [InstallationNext]_installationVars
        => [InstalledForGood]_installationVars
  BY RecordStays, StartGoesOn, Zenon DEF InstalledForGood
<1> QED
  BY <1>1, <1>2, <1>3, PTL DEF InstallationSpec

-----------------------------------------------------------------------------
(* No token is ahead of its row, and that of an inactive user is behind.   *)
(* Only demo users are ever removed, and they are not created again.       *)
TokensAreNotAhead ==
  \A b \in Browsers : session[b] # NoUser =>
    LET u == session[b].user IN
    /\ ~Exists(u) => u \in DemoUsers
    /\ Exists(u) => session[b].version <= account[u].sessionVersion
    /\ Exists(u) /\ ~account[u].isActive =>
         session[b].version < account[u].sessionVersion

(* The row that a transaction judged is deactivated at most until then.    *)
JudgedStands(c) ==
  LET u == call[c].target IN
  /\ invariantLock = c
  /\ ~Exists(u) => u \in DemoUsers
  /\ IsActiveUser(u) => call[c].seen.isActive = TRUE

SessionsInv ==
  /\ AccountsTypeOK
  /\ TokensAreNotAhead
  /\ \A c \in Calls : InStep(c, "judged", {"PATCH", "DELETE"}) => JudgedStands(c)

LEMMA InitHasSoundSessions == AccountsInit => SessionsInv
BY AccountsInitIsTyped
   DEF AccountsInit, SessionsInv, TokensAreNotAhead, InStep

(* What a commit does with the row that it changes.                        *)
LEMMA ChangedRowEndsSessions ==
  ASSUME NEW k \in Call, NEW row \in Account, row.isActive = TRUE => k.seen.isActive = TRUE
  PROVE  /\ ChangedRow(k, row).sessionVersion
              = row.sessionVersion + (IF RevokesSessions(k) THEN 1 ELSE 0)
         /\ ~RevokesSessions(k) =>
              ChangedRow(k, row).credentialsChangedAt = row.credentialsChangedAt
         /\ row.isActive = TRUE /\ ChangedRow(k, row).isActive = FALSE
              => RevokesSessions(k)
<1>1. row.sessionVersion \in Nat /\ row.isActive \in BOOLEAN
  BY DEF Account
<1>2. ASSUME row.isActive = TRUE, ChangedRow(k, row).isActive = FALSE
      PROVE  RevokesSessions(k)
  <2>1. CASE k.kind = "DELETE"
    BY <2>1 DEF RevokesSessions
  <2>2. CASE k.kind # "DELETE"
    <3>1. k.body.isActive \in Optional(BOOLEAN)
      BY AccountsAssumption DEF Call, Body
    <3>2. Applied(k.body.isActive, row.isActive) = FALSE
      <4>1. Applied(k.body.isActive, row.isActive) \in BOOLEAN
        BY <1>1, <3>1, AppliedStaysInRange
      <4> QED
        BY <1>2, <2>2, <4>1 DEF ChangedRow
    <3>3. k.body.isActive # {}
      BY <1>2, <3>2, AppliedWhenMissing, Zenon
    <3>4. PICK x \in BOOLEAN : k.body.isActive = {x}
      BY <3>1, <3>3 DEF Optional
    <3>5. k.body.isActive = {FALSE}
      BY <3>2, <3>4, AppliedWhenGiven, Zenon
    <3>6. k.body.isActive # {k.seen.isActive}
      BY <1>2, <3>5
    <3> QED
      BY <3>3, <3>6 DEF RevokesSessions, Changes
  <2> QED
    BY <2>1, <2>2
<1>3. ChangedRow(k, row).sessionVersion
        = row.sessionVersion + (IF RevokesSessions(k) THEN 1 ELSE 0)
  BY DEF ChangedRow
<1>4. ~RevokesSessions(k) =>
        ChangedRow(k, row).credentialsChangedAt = row.credentialsChangedAt
  BY DEF ChangedRow
<1> QED
  BY <1>1, <1>2, <1>3, <1>4

(* How a step changes the rows, as far as tokens are concerned.            *)
RowsMoveOn ==
  \A u \in Users :
    /\ Exists(u)' => Exists(u) \/ u \notin DemoUsers
    /\ ~Exists(u)' => ~Exists(u) \/ u \in DemoUsers
    /\ Exists(u) /\ Exists(u)' =>
         /\ account'[u].sessionVersion >= account[u].sessionVersion
         /\ account[u].isActive = FALSE \/ account'[u].isActive = TRUE
              \/ account'[u].sessionVersion > account[u].sessionVersion
         /\ account'[u].sessionVersion > account[u].sessionVersion
              \/ account'[u].credentialsChangedAt = account[u].credentialsChangedAt

LEMMA CommitMovesOn ==
  ASSUME SessionsInv, NEW c \in Calls, CommitChange(c)
  PROVE  /\ RowsMoveOn
         /\ RevokesSessions(call[c]) /\ Exists(call[c].target) =>
              account'[call[c].target].sessionVersion
                > account[call[c].target].sessionVersion
<1>1. PICK k \in Call, u \in Users : k = call[c] /\ u = k.target
  BY DEF SessionsInv, AccountsTypeOK, CommitChange, InStep, Call
<1>2. account \in [Users -> Account \cup {NoUser}]
  BY DEF SessionsInv, AccountsTypeOK
<1>3. \A v \in Users : v # u => account'[v] = account[v]
  BY <1>1, <1>2 DEF CommitChange
<1>4. account'[u] = IF ~Exists(u) THEN account[u] ELSE ChangedRow(k, account[u])
  BY <1>1, <1>2 DEF CommitChange, Exists
<1>5. \A v \in Users : account[v] # NoUser =>
        /\ account[v] \in Account /\ account[v].sessionVersion \in Nat
        /\ account[v].isActive \in BOOLEAN
  BY <1>2 DEF Account
<1>6. CASE ~Exists(u)
  <2>1. account' = account
    BY <1>2, <1>3, <1>4, <1>6 DEF CommitChange
  <2> QED
    BY <1>1, <1>5, <1>6, <2>1 DEF RowsMoveOn, Exists
<1>7. CASE Exists(u)
  <2>1. account[u].isActive = TRUE => k.seen.isActive = TRUE
    BY <1>1, <1>7 DEF SessionsInv, CommitChange, JudgedStands, IsActiveUser
  <2>2. /\ ChangedRow(k, account[u]).sessionVersion
             = account[u].sessionVersion + (IF RevokesSessions(k) THEN 1 ELSE 0)
        /\ ~RevokesSessions(k) =>
             ChangedRow(k, account[u]).credentialsChangedAt
               = account[u].credentialsChangedAt
        /\ account[u].isActive = TRUE /\ ChangedRow(k, account[u]).isActive = FALSE
             => RevokesSessions(k)
    BY <1>1, <1>5, <1>7, <2>1, ChangedRowEndsSessions DEF Exists
  <2>3. account'[u] = ChangedRow(k, account[u])
    BY <1>4, <1>7
  <2>4. account'[u] \in Account
    BY <1>1, <1>5, <1>7, <2>3, ChangedRowIsAccount DEF Exists, SessionsInv, AccountsTypeOK
  <2>5. account'[u] # NoUser /\ account'[u].isActive \in BOOLEAN
    BY <2>4, AccountsAssumption DEF Account
  <2>6. \A v \in Users : v # u => (Exists(v)' <=> Exists(v))
    BY <1>3 DEF Exists
  <2>7. Exists(u)'
    BY <2>5 DEF Exists
  <2>8. ASSUME NEW v \in Users, Exists(v), Exists(v)'
        PROVE  /\ account'[v].sessionVersion >= account[v].sessionVersion
               /\ account[v].isActive = FALSE \/ account'[v].isActive = TRUE
                    \/ account'[v].sessionVersion > account[v].sessionVersion
               /\ account'[v].sessionVersion > account[v].sessionVersion
                    \/ account'[v].credentialsChangedAt = account[v].credentialsChangedAt
    <3>1. CASE v # u
      BY <1>3, <1>5, <2>8, <3>1 DEF Exists
    <3>2. CASE v = u
      BY <1>5, <2>2, <2>3, <2>5, <2>8, <3>2 DEF Exists
    <3> QED
      BY <3>1, <3>2
  <2>9. RevokesSessions(k) => account'[u].sessionVersion > account[u].sessionVersion
    BY <1>5, <1>7, <2>2, <2>3 DEF Exists
  <2>10. RowsMoveOn
    BY <1>7, <2>6, <2>7, <2>8 DEF RowsMoveOn
  <2> QED
    BY <1>1, <2>9, <2>10
<1> QED
  BY <1>6, <1>7

LEMMA RowsAlwaysMoveOn ==
  ASSUME SessionsInv, AccountsNext
  PROVE  RowsMoveOn
<1>0. /\ account \in [Users -> Account \cup {NoUser}] /\ NoUser \notin Account
      /\ DemoUsers \subseteq Users
      /\ \A u \in Users : Exists(u) => account[u].sessionVersion \in Nat
                                       /\ account[u].isActive \in BOOLEAN
  BY AccountsAssumption DEF SessionsInv, AccountsTypeOK, Exists, Account
<1>1. ASSUME UNCHANGED account PROVE RowsMoveOn
  BY <1>0, <1>1 DEF RowsMoveOn, Exists
<1>2. ASSUME NEW b \in Browsers, NEW v \in Users, NEW role \in Role,
             CreateUser(b, v, role)
      PROVE  RowsMoveOn
  <2>1. v \notin DemoUsers /\ account[v] = NoUser
    BY <1>2 DEF CreateUser, Exists
  <2>2. account' = [account EXCEPT ![v] = FreshAccount(role)]
    BY <1>2 DEF CreateUser
  <2>3. FreshAccount(role) # NoUser
    <3>1. FreshAccount(role) \in Account
      BY AccountsAssumption DEF FreshAccount, Account
    <3> QED
      BY <3>1, AccountsAssumption
  <2>4. account'[v] # NoUser /\ \A u \in Users : u # v => account'[u] = account[u]
    BY <1>0, <2>2, <2>3
  <2> QED
    BY <1>0, <2>1, <2>4 DEF RowsMoveOn, Exists
<1>3. ASSUME NEW c \in Calls, NEW referenced \in SUBSET DemoUsers,
             RemoveDemo(c, referenced)
      PROVE  RowsMoveOn
  <2>1. \A u \in Users :
          \/ account'[u] = account[u]
          \/ /\ u \in DemoUsers /\ Exists(u)
             /\ \/ account'[u] = NoUser
                \/ account'[u] = [account[u] EXCEPT !.isActive = FALSE,
                     !.hasPassword = FALSE, !.sessionVersion = @ + 1]
    BY <1>3 DEF RemoveDemo
  <2>2. ASSUME NEW row \in Account
        PROVE  /\ [row EXCEPT !.isActive = FALSE, !.hasPassword = FALSE,
                     !.sessionVersion = @ + 1].sessionVersion = row.sessionVersion + 1
               /\ row.sessionVersion \in Nat
    BY DEF Account
  <2>3. \A u \in Users : Exists(u) => account[u] \in Account
    BY <1>0 DEF Exists
  <2>4. \A u \in Users :
          \/ account'[u] = account[u]
          \/ /\ u \in DemoUsers /\ Exists(u)
             /\ account'[u] = NoUser \/ account'[u].sessionVersion = account[u].sessionVersion + 1
    BY <2>1, <2>2, <2>3
  <2> QED
    BY <1>0, <2>4 DEF RowsMoveOn, Exists
<1>4. ASSUME NEW c \in Calls, CommitChange(c) PROVE RowsMoveOn
  BY <1>4, CommitMovesOn
<1>5. ASSUME NEW b \in Browsers, IssueToken(b) \/ RenewToken(b) PROVE UNCHANGED account
  BY <1>5 DEF IssueToken, RenewToken
<1>6. ASSUME NEW b \in Browsers, NEW u \in Users, ComparePassword(b, u)
      PROVE  UNCHANGED account
  BY <1>6 DEF ComparePassword
<1>7. ASSUME NEW c \in Calls, NEW b \in Browsers, NEW target \in Users,
             NEW body \in Bodies, NEW method, Authorize(c, b, method, target, body)
      PROVE  UNCHANGED account
  BY <1>7 DEF Authorize
<1>8. ASSUME NEW c \in Calls, JudgeChange(c) \/ RefuseChange(c) PROVE UNCHANGED account
  BY <1>8 DEF JudgeChange, RefuseChange
<1>9. ASSUME PassHalfSecond PROVE UNCHANGED account
  BY <1>9 DEF PassHalfSecond
<1> QED
  BY <1>1, <1>2, <1>3, <1>4, <1>5, <1>6, <1>7, <1>8, <1>9, Zenon DEF AccountsNext

(* A token keeps its user and version, or is issued from the row.          *)
LEMMA TokensAreIssued ==
  ASSUME SessionsInv, AccountsNext, NEW b \in Browsers, session'[b] # NoUser
  PROVE  \/ /\ session[b] # NoUser /\ session'[b].user = session[b].user
            /\ session'[b].version = session[b].version
         \/ /\ UNCHANGED account /\ IsActiveUser(session'[b].user)
            /\ session'[b].version = account[session'[b].user].sessionVersion
<1>0. session \in [Browsers -> Token \cup {NoUser}]
  BY DEF SessionsInv, AccountsTypeOK
<1> DEFINE Kept == session[b] # NoUser /\ session'[b].user = session[b].user
                   /\ session'[b].version = session[b].version
           Fresh == /\ UNCHANGED account /\ IsActiveUser(session'[b].user)
                    /\ session'[b].version = account[session'[b].user].sessionVersion
<1> SUFFICES Kept \/ Fresh
  OBVIOUS
<1>1. ASSUME UNCHANGED session PROVE Kept
  BY <1>1
<1>2. ASSUME NEW d \in Browsers, IssueToken(d) PROVE Kept \/ Fresh
  <2>1. CASE d # b
    BY <1>0, <1>2, <2>1 DEF IssueToken
  <2>2. CASE d = b
    BY <1>0, <1>2, <2>2 DEF IssueToken
  <2> QED
    BY <2>1, <2>2
<1>3. ASSUME NEW d \in Browsers, RenewToken(d) PROVE Kept
  <2>1. CASE d # b
    BY <1>0, <1>3, <2>1 DEF RenewToken
  <2>2. CASE d = b
    <3>1. session[b] \in Token
      BY <1>0, <1>3, <2>2 DEF RenewToken, SignedIn
    <3>2. session'[b] = [session[b] EXCEPT !.issued = WholeSecond(clock)]
      BY <1>0, <1>3, <2>2 DEF RenewToken
    <3>3. session'[b].user = session[b].user /\ session'[b].version = session[b].version
      BY <3>1, <3>2 DEF Token
    <3> QED
      BY <1>3, <2>2, <3>3 DEF RenewToken, SignedIn
  <2> QED
    BY <2>1, <2>2
<1>4. ASSUME NEW d \in Browsers, NEW u \in Users, ComparePassword(d, u)
      PROVE  UNCHANGED session
  BY <1>4 DEF ComparePassword
<1>5. ASSUME NEW d \in Browsers, NEW u \in Users, NEW role \in Role, CreateUser(d, u, role)
      PROVE  UNCHANGED session
  BY <1>5 DEF CreateUser
<1>6. ASSUME NEW c \in Calls, NEW d \in Browsers, NEW target \in Users,
             NEW body \in Bodies, NEW method, Authorize(c, d, method, target, body)
      PROVE  UNCHANGED session
  BY <1>6 DEF Authorize
<1>7. ASSUME NEW c \in Calls, JudgeChange(c) \/ RefuseChange(c) \/ CommitChange(c)
      PROVE  UNCHANGED session
  BY <1>7 DEF JudgeChange, RefuseChange, CommitChange
<1>8. ASSUME NEW c \in Calls, NEW referenced \in SUBSET DemoUsers, RemoveDemo(c, referenced)
      PROVE  UNCHANGED session
  BY <1>8 DEF RemoveDemo
<1>9. ASSUME PassHalfSecond PROVE UNCHANGED session
  BY <1>9 DEF PassHalfSecond
<1> QED
  BY <1>1, <1>2, <1>3, <1>4, <1>5, <1>6, <1>7, <1>8, <1>9, Zenon DEF AccountsNext

LEMMA StepKeepsTokensBehind ==
  ASSUME SessionsInv, AccountsNext
  PROVE  TokensAreNotAhead'
<1>1. SUFFICES ASSUME NEW b \in Browsers, session'[b] # NoUser,
                      NEW u, u = session'[b].user
               PROVE  /\ ~Exists(u)' => u \in DemoUsers
                      /\ Exists(u)' => session'[b].version <= account'[u].sessionVersion
                      /\ Exists(u)' /\ ~account'[u].isActive =>
                           session'[b].version < account'[u].sessionVersion
  BY DEF TokensAreNotAhead, Exists
<1>2. AccountsTypeOK /\ AccountsTypeOK'
  BY AccountsStepIsTyped DEF SessionsInv
<1>3. u \in Users /\ session'[b].version \in Nat
  BY <1>1, <1>2 DEF AccountsTypeOK, Token
<1>4. /\ Exists(u) => account[u].sessionVersion \in Nat /\ account[u].isActive \in BOOLEAN
      /\ Exists(u)' => account'[u].sessionVersion \in Nat /\ account'[u].isActive \in BOOLEAN
  BY <1>2, <1>3 DEF AccountsTypeOK, Exists, Account
<1>5. CASE /\ session[b] # NoUser /\ u = session[b].user
           /\ session'[b].version = session[b].version
  <2>1. /\ ~Exists(u) => u \in DemoUsers
        /\ Exists(u) => session[b].version <= account[u].sessionVersion
        /\ Exists(u) /\ ~account[u].isActive =>
             session[b].version < account[u].sessionVersion
    BY <1>5 DEF SessionsInv, TokensAreNotAhead
  <2>2. /\ Exists(u)' => Exists(u) \/ u \notin DemoUsers
        /\ ~Exists(u)' => ~Exists(u) \/ u \in DemoUsers
        /\ Exists(u) /\ Exists(u)' =>
             /\ account'[u].sessionVersion >= account[u].sessionVersion
             /\ account[u].isActive = FALSE \/ account'[u].isActive = TRUE
                  \/ account'[u].sessionVersion > account[u].sessionVersion
    BY <1>3, RowsAlwaysMoveOn DEF RowsMoveOn
  <2> QED
    BY <1>3, <1>4, <1>5, <2>1, <2>2
<1>6. CASE /\ UNCHANGED account /\ IsActiveUser(u)
           /\ session'[b].version = account[u].sessionVersion
  BY <1>3, <1>4, <1>6 DEF IsActiveUser, Exists
<1> QED
  BY <1>1, <1>5, <1>6, TokensAreIssued

(* One transaction at a time holds the lock, and until it commits the row  *)
(* changes only by the removal of demo data.                               *)
LEMMA StepKeepsJudged ==
  ASSUME SessionsInv, AccountsNext, NEW c \in Calls,
         InStep(c, "judged", {"PATCH", "DELETE"})'
  PROVE  JudgedStands(c)'
<1>0. /\ account \in [Users -> Account \cup {NoUser}]
      /\ call \in [Calls -> Call \cup {NoUser}]
      /\ \A d \in Calls : InStep(d, "judged", {"PATCH", "DELETE"}) => JudgedStands(d)
  BY DEF SessionsInv, AccountsTypeOK
<1> DEFINE SameCall == call[c] # NoUser /\ call'[c] = call[c]
           Before == InStep(c, "judged", {"PATCH", "DELETE"})
<1>1. ASSUME UNCHANGED <<account, invariantLock>>, SameCall PROVE JudgedStands(c)'
  BY <1>0, <1>1 DEF InStep, JudgedStands, Exists, IsActiveUser
<1>2. ASSUME UNCHANGED <<account, invariantLock, call>> PROVE JudgedStands(c)'
  BY <1>0, <1>2 DEF InStep, JudgedStands, Exists, IsActiveUser
<1>3. ASSUME NEW b \in Browsers, NEW v \in Users, NEW role \in Role, CreateUser(b, v, role)
      PROVE  JudgedStands(c)'
  <2>1. /\ UNCHANGED <<invariantLock, call>> /\ v \notin DemoUsers /\ account[v] = NoUser
        /\ account' = [account EXCEPT ![v] = FreshAccount(role)]
    BY <1>3 DEF CreateUser, Exists
  <2>2. JudgedStands(c) /\ call'[c] = call[c]
    BY <1>0, <2>1 DEF InStep
  <2>3. call[c].target \in Users /\ call[c].target # v
    BY <1>0, <2>1, <2>2 DEF InStep, JudgedStands, Exists, Call
  <2>4. account'[call[c].target] = account[call[c].target]
    BY <1>0, <2>1, <2>3
  <2> QED
    BY <2>1, <2>2, <2>4 DEF JudgedStands, Exists, IsActiveUser
<1>4. ASSUME NEW d \in Calls, NEW b \in Browsers, NEW target \in Users,
             NEW body \in Bodies, NEW method, Authorize(d, b, method, target, body)
      PROVE  JudgedStands(c)'
  <2>1. CASE d = c
    BY <1>0, <1>4, <2>1 DEF Authorize, InStep
  <2>2. CASE d # c
    <3>1. UNCHANGED <<account, invariantLock>> /\ call'[c] = call[c]
      BY <1>0, <1>4, <2>2 DEF Authorize
    <3>2. SameCall
      BY <3>1 DEF InStep
    <3> QED
      BY <1>1, <3>1, <3>2
  <2> QED
    BY <2>1, <2>2
<1>5. ASSUME NEW d \in Calls, JudgeChange(d) PROVE JudgedStands(c)'
  <2>1. CASE d = c
    <3>1. /\ call[c] \in Call /\ invariantLock' = c /\ UNCHANGED account
          /\ account[call[c].target] # NoUser
      BY <1>0, <1>5, <2>1 DEF JudgeChange, InStep, MayChange
    <3>2. call'[c] = [call[c] EXCEPT !.step = "judged", !.seen = account[call[c].target]]
      BY <1>0, <1>5, <2>1 DEF JudgeChange
    <3>3. call'[c].target = call[c].target /\ call'[c].seen = account[call[c].target]
      BY <3>1, <3>2 DEF Call
    <3>4. account[call[c].target].isActive \in BOOLEAN
      BY <1>0, <3>1 DEF Call, Account
    <3> QED
      BY <3>1, <3>3, <3>4 DEF JudgedStands, Exists, IsActiveUser
  <2>2. CASE d # c
    <3>1. invariantLock = NoUser /\ call'[c] = call[c] /\ NoUser \notin Calls
      BY <1>0, <1>5, <2>2, AccountsAssumption DEF JudgeChange, CanLock
    <3>2. invariantLock = c
      BY <1>0, <3>1 DEF InStep, JudgedStands
    <3> QED
      BY <3>1, <3>2
  <2> QED
    BY <2>1, <2>2
<1>6. ASSUME NEW d \in Calls, RefuseChange(d) PROVE JudgedStands(c)'
  <2>1. call' = [call EXCEPT ![d] = NoUser] /\ UNCHANGED <<account, invariantLock>>
    BY <1>6 DEF RefuseChange
  <2>2. SameCall
    BY <1>0, <2>1 DEF InStep
  <2> QED
    BY <1>1, <2>1, <2>2
<1>7. ASSUME NEW d \in Calls, CommitChange(d) PROVE JudgedStands(c)'
  <2>1. call' = [call EXCEPT ![d] = NoUser]
    BY <1>7 DEF CommitChange
  <2>2. SameCall /\ c # d
    BY <1>0, <2>1 DEF InStep
  <2>3. invariantLock = c
    BY <1>0, <2>2 DEF InStep, JudgedStands
  <2>4. invariantLock = d
    BY <1>0, <1>7 DEF CommitChange, JudgedStands
  <2> QED
    BY <2>2, <2>3, <2>4
<1>8. ASSUME NEW d \in Calls, NEW referenced \in SUBSET DemoUsers, RemoveDemo(d, referenced)
      PROVE  JudgedStands(c)'
  <2>1. call' = [call EXCEPT ![d] = NoUser] /\ UNCHANGED invariantLock
    BY <1>8 DEF RemoveDemo
  <2>2. SameCall
    BY <1>0, <2>1 DEF InStep
  <2>3. JudgedStands(c) /\ call[c].target \in Users
    BY <1>0, <2>2 DEF InStep, Call
  <2>4. PICK u \in Users : u = call[c].target
    BY <2>3
  <2>5. \/ account'[u] = account[u]
        \/ /\ u \in DemoUsers /\ Exists(u)
           /\ \/ account'[u] = NoUser
              \/ account'[u] = [account[u] EXCEPT !.isActive = FALSE,
                   !.hasPassword = FALSE, !.sessionVersion = @ + 1]
    BY <1>8 DEF RemoveDemo
  <2>6. \A row \in Account :
          [row EXCEPT !.isActive = FALSE, !.hasPassword = FALSE,
                      !.sessionVersion = @ + 1].isActive = FALSE
    BY DEF Account
  <2>7. Exists(u) => account[u] \in Account
    BY <1>0 DEF Exists
  <2>8. \/ account'[u] = account[u]
        \/ u \in DemoUsers /\ (account'[u] = NoUser \/ account'[u].isActive = FALSE)
    BY <2>5, <2>6, <2>7
  <2> QED
    BY <2>1, <2>2, <2>3, <2>4, <2>8 DEF JudgedStands, Exists, IsActiveUser
<1>9. ASSUME NEW b \in Browsers, IssueToken(b) \/ RenewToken(b)
      PROVE  UNCHANGED <<account, invariantLock, call>>
  BY <1>9 DEF IssueToken, RenewToken
<1>10. ASSUME NEW b \in Browsers, NEW u \in Users, ComparePassword(b, u)
       PROVE  UNCHANGED <<account, invariantLock, call>>
  BY <1>10 DEF ComparePassword
<1>11. ASSUME PassHalfSecond PROVE UNCHANGED <<account, invariantLock, call>>
  BY <1>11 DEF PassHalfSecond
<1> QED
  BY <1>2, <1>3, <1>4, <1>5, <1>6, <1>7, <1>8, <1>9, <1>10, <1>11, Zenon
     DEF AccountsNext

LEMMA StepKeepsSessionsSound ==
  ASSUME SessionsInv, [AccountsNext]_accountVars
  PROVE  SessionsInv'
<1>1. CASE AccountsNext
  BY <1>1, AccountsStepIsTyped, StepKeepsTokensBehind, StepKeepsJudged DEF SessionsInv
<1>2. CASE UNCHANGED accountVars
  BY <1>2 DEF accountVars, SessionsInv, AccountsTypeOK, TokensAreNotAhead, InStep,
     JudgedStands, Exists, IsActiveUser
<1> QED
  BY <1>1, <1>2

LEMMA SessionsEndForGood ==
  ASSUME SessionsInv, AccountsNext
  PROVE  SessionsStayEnded
<1>0. AccountsTypeOK /\ AccountsTypeOK' /\ TokensAreNotAhead
  BY AccountsStepIsTyped DEF SessionsInv
<1>1. ASSUME NEW b \in Browsers, session[b] # NoUser, session'[b] = session[b],
             Accepted(session[b])'
      PROVE  Accepted(session[b])
  <2>1. PICK t \in Token : t = session[b]
    BY <1>0, <1>1 DEF AccountsTypeOK
  <2>2. PICK u \in Users : u = t.user
    BY DEF Token
  <2>3. /\ Exists(u)' /\ account'[u].isActive
        /\ t.version = account'[u].sessionVersion
        /\ t.issued >= account'[u].credentialsChangedAt
    BY <1>1, <2>1, <2>2 DEF Accepted, IsActiveUser, IsSessionTokenCurrent, Exists
  <2>4. /\ Exists(u)' => Exists(u) \/ u \notin DemoUsers
        /\ Exists(u) /\ Exists(u)' =>
             /\ account'[u].sessionVersion >= account[u].sessionVersion
             /\ account[u].isActive = FALSE \/ account'[u].isActive = TRUE
                  \/ account'[u].sessionVersion > account[u].sessionVersion
             /\ account'[u].sessionVersion > account[u].sessionVersion
                  \/ account'[u].credentialsChangedAt = account[u].credentialsChangedAt
    BY RowsAlwaysMoveOn DEF RowsMoveOn
  <2>5. /\ ~Exists(u) => u \in DemoUsers
        /\ Exists(u) => t.version <= account[u].sessionVersion
        /\ Exists(u) /\ ~account[u].isActive => t.version < account[u].sessionVersion
    BY <1>0, <1>1, <2>1, <2>2 DEF TokensAreNotAhead
  <2>6. Exists(u)
    BY <2>3, <2>4, <2>5
  <2>7. /\ account[u].sessionVersion \in Nat /\ account[u].isActive \in BOOLEAN
        /\ account'[u].sessionVersion \in Nat
    BY <1>0, <2>3, <2>6 DEF AccountsTypeOK, Exists, Account
  <2>8. /\ t.version = account[u].sessionVersion
        /\ account'[u].sessionVersion = account[u].sessionVersion
    BY <2>3, <2>4, <2>5, <2>6, <2>7
  <2>9. account[u].isActive /\ t.issued >= account[u].credentialsChangedAt
    BY <2>3, <2>4, <2>5, <2>6, <2>7, <2>8
  <2> QED
    BY <2>1, <2>2, <2>6, <2>8, <2>9 DEF Accepted, IsActiveUser, IsSessionTokenCurrent
<1>2. ASSUME NEW c \in Calls, CommitChange(c), RevokesSessions(call[c]),
             NEW b \in Browsers, session[b] # NoUser, session[b].user = call[c].target
      PROVE  ~Accepted(session[b])'
  <2>1. PICK t \in Token : t = session[b]
    BY <1>0, <1>2 DEF AccountsTypeOK
  <2>2. PICK u \in Users : u = t.user
    BY DEF Token
  <2>3. /\ Exists(u) => t.version <= account[u].sessionVersion
        /\ Exists(u) => account'[u].sessionVersion > account[u].sessionVersion
    BY <1>0, <1>2, <2>1, <2>2, CommitMovesOn DEF TokensAreNotAhead
  <2>4. session' = session /\ (Exists(u)' => Exists(u))
    BY <1>0, <1>2, <2>1, <2>2 DEF CommitChange, Exists, AccountsTypeOK
  <2>5. Exists(u) /\ Exists(u)' =>
          account[u].sessionVersion \in Nat /\ account'[u].sessionVersion \in Nat
    BY <1>0 DEF AccountsTypeOK, Exists, Account
  <2>6. ~(Exists(u)' /\ t.version = account'[u].sessionVersion)
    BY <2>3, <2>4, <2>5 DEF Token
  <2> QED
    BY <2>1, <2>2, <2>4, <2>6 DEF Accepted, IsActiveUser, IsSessionTokenCurrent, Exists
<1> QED
  BY <1>1, <1>2 DEF SessionsStayEnded

(* A session that has ended is never accepted again, however sign-ins and  *)
(* the calls of administrators meet (sessionVersion).                      *)
THEOREM EndedSessionsStayEnded ==
  AccountsSpec => [][SessionsStayEnded]_accountVars
<1>1. AccountsInit => SessionsInv
  BY InitHasSoundSessions
<1>2. SessionsInv /\ [AccountsNext]_accountVars => SessionsInv'
  BY StepKeepsSessionsSound
<1>3. SessionsInv /\ [AccountsNext]_accountVars => [SessionsStayEnded]_accountVars
  BY SessionsEndForGood
<1> QED
  BY <1>1, <1>2, <1>3, PTL DEF AccountsSpec

-----------------------------------------------------------------------------
(* Attempts that run during a lockout of a key passed the check before it, *)
(* and each of them is counted once at most.                               *)
InFlight(k) == {a \in Attempts : Comparing(a) /\ k \in KeysOf(a)}

OverrunIsCounted ==
  \A k \in Keys :
    Blocked(k) => overrun[k] + Cardinality(InFlight(k)) < Cardinality(Attempts)

ThrottleInv == ThrottleTypeOK /\ LockoutsHold /\ OverrunIsCounted

(* The exponent is a number, and a lockout is not put before the epoch.    *)
LEMMA LockoutIsNumber ==
  ASSUME NEW k \in Keys, NEW count \in Nat
  PROVE  Lockout(k, count) \in Int
<1>1. ScopeLimit(k) \in Nat \ {0} /\ MaxDoublings \in Nat /\ MaxLockout \in Nat
  BY ThrottleAssumption DEF ScopeLimit
<1>2. CASE count < ScopeLimit(k)
  BY <1>2 DEF Lockout
<1>3. CASE ~(count < ScopeLimit(k))
  <2>1. PICK n \in Int : n = (count - ScopeLimit(k)) \div ScopeLimit(k)
    BY <1>1, <1>3
  <2>2. n \in Nat
    BY <1>1, <1>3, <2>1
  <2>3. PICK m \in Nat : m = SmallerOf(MaxDoublings, n)
    BY <1>1, <2>2 DEF SmallerOf
  <2>4. SmallerOf(MaxLockout, 2 ^ m) \in Int
    <3>1. 2 ^ m \in Int
      BY SMT
    <3> QED
      BY <1>1, <3>1 DEF SmallerOf
  <2> QED
    BY <1>3, <2>1, <2>3, <2>4 DEF Lockout
<1> QED
  BY <1>2, <1>3

LEMMA FailedIsRow ==
  ASSUME ThrottleTypeOK, NEW k \in Keys
  PROVE  Failed(k) \in ThrottleRow
<1>1. /\ HasRow(k) => throttle[k] \in ThrottleRow
      /\ time \in Nat /\ RecordTtl \in Nat
  BY ThrottleAssumption DEF ThrottleTypeOK, HasRow
<1>2. PICK count \in Nat \ {0} :
        count = IF HasRow(k) THEN throttle[k].failureCount + 1 ELSE 1
  BY <1>1 DEF ThrottleRow
<1>3. BlockedUntil(k) \in Nat
  BY <1>1 DEF BlockedUntil, ThrottleRow
<1>4. PICK lock \in Int : lock = Lockout(k, count)
  BY LockoutIsNumber
<1>5. PICK proposed \in Int : proposed = IF lock = 0 THEN 0 ELSE time + lock
  BY <1>1
<1>6. LargerOf(BlockedUntil(k), proposed) \in Nat
  BY <1>3 DEF LargerOf
<1>7. (IF proposed > BlockedUntil(k) THEN proposed + RecordTtl ELSE time + RecordTtl) \in Nat
  BY <1>1, <1>3
<1>8. Failed(k) = [failureCount |-> count,
                   blockedUntil |-> LargerOf(BlockedUntil(k), proposed),
                   expiresAt |-> IF proposed > BlockedUntil(k) THEN proposed + RecordTtl
                                 ELSE time + RecordTtl]
  BY <1>2, <1>4, <1>5, Zenon DEF Failed
<1> QED
  BY <1>2, <1>6, <1>7, <1>8 DEF ThrottleRow

LEMMA ThrottleStepIsTyped ==
  ASSUME ThrottleTypeOK, [ThrottleNext]_throttleVars
  PROVE  ThrottleTypeOK'
<1> USE DEF ThrottleTypeOK
<1>1. ASSUME NEW a \in Attempts, NEW e \in Emails, NEW s \in Sources,
             CheckLoginThrottle(a, e, s)
      PROVE  ThrottleTypeOK'
  <2>1. [email |-> e, source |-> s] \in Attempt
    BY DEF Attempt
  <2> QED
    BY <1>1, <2>1 DEF CheckLoginThrottle, Swept
<1>2. ASSUME NEW a \in Attempts, RecordLoginFailure(a) PROVE ThrottleTypeOK'
  <2>1. throttle' \in [Keys -> ThrottleRow \cup {NoAttempt}]
    BY <1>2, FailedIsRow DEF RecordLoginFailure
  <2>2. overrun' \in [Keys -> Nat]
    BY <1>2 DEF RecordLoginFailure
  <2> QED
    BY <1>2, <2>1, <2>2 DEF RecordLoginFailure
<1>3. ASSUME NEW a \in Attempts, SucceedLogin(a) PROVE ThrottleTypeOK'
  BY <1>3 DEF SucceedLogin, Cleared
<1>4. ASSUME NEW e \in Emails, ResetPassword(e) PROVE ThrottleTypeOK'
  BY <1>4 DEF ResetPassword, Cleared
<1>5. ASSUME PassTime PROVE ThrottleTypeOK'
  BY <1>5, ThrottleAssumption DEF PassTime
<1>6. ASSUME UNCHANGED throttleVars PROVE ThrottleTypeOK'
  BY <1>6 DEF throttleVars
<1> HIDE DEF ThrottleTypeOK
<1> QED
  BY <1>1, <1>2, <1>3, <1>4, <1>5, <1>6 DEF ThrottleNext

LEMMA SomeAttempts == Cardinality(Attempts) \in Nat /\ 0 < Cardinality(Attempts)
<1>1. Cardinality(Attempts) \in Nat
  BY ThrottleAssumption, FS_CardinalityType
<1>2. Cardinality(Attempts) # 0
  BY ThrottleAssumption, FS_EmptySet
<1> QED
  BY <1>1, <1>2

LEMMA InFlightIsFinite ==
  ASSUME NEW k
  PROVE  /\ IsFiniteSet(InFlight(k)) /\ Cardinality(InFlight(k)) \in Nat
         /\ Cardinality(InFlight(k)) <= Cardinality(Attempts)
<1>1. InFlight(k) \subseteq Attempts
  BY DEF InFlight
<1> QED
  BY <1>1, ThrottleAssumption, FS_Subset, FS_CardinalityType

LEMMA InitCountsOverrun == ThrottleInit => ThrottleInv
BY SomeAttempts, ThrottleAssumption
   DEF ThrottleInit, ThrottleInv, ThrottleTypeOK, LockoutsHold, OverrunIsCounted,
       Blocked, BlockedUntil, HasRow

(* A step that begins no lockout, no attempt on a locked key and no count. *)
LEMMA QuietStepCountsOverrun ==
  ASSUME ThrottleInv, ThrottleTypeOK', UNCHANGED overrun,
         \A k \in Keys : Blocked(k)' => Blocked(k) /\ InFlight(k)' \subseteq InFlight(k)
  PROVE  ThrottleInv'
<1>1. LockoutsHold'
  BY DEF ThrottleInv, LockoutsHold
<1>2. ASSUME NEW k \in Keys, Blocked(k)'
      PROVE  overrun'[k] + Cardinality(InFlight(k)') < Cardinality(Attempts)
  <2>1. overrun[k] + Cardinality(InFlight(k)) < Cardinality(Attempts)
    BY <1>2 DEF ThrottleInv, OverrunIsCounted
  <2>2. /\ Cardinality(InFlight(k)') \in Nat
        /\ Cardinality(InFlight(k)') <= Cardinality(InFlight(k))
    BY <1>2, InFlightIsFinite, FS_Subset, FS_CardinalityType
  <2>3. overrun[k] \in Nat /\ Cardinality(InFlight(k)) \in Nat
    BY InFlightIsFinite DEF ThrottleInv, ThrottleTypeOK
  <2> QED
    BY <2>1, <2>2, <2>3, SomeAttempts
<1> QED
  BY <1>1, <1>2 DEF ThrottleInv, OverrunIsCounted

LEMMA StepCountsOverrun ==
  ASSUME ThrottleInv, [ThrottleNext]_throttleVars
  PROVE  ThrottleInv'
<1>0. /\ time \in Nat /\ overrun \in [Keys -> Nat]
      /\ attempting = [a \in Attempts |-> attempting[a]]
      /\ \A k \in Keys : BlockedUntil(k) \in Nat
      /\ ThrottleTypeOK'
  BY ThrottleAssumption, ThrottleStepIsTyped
     DEF ThrottleInv, ThrottleTypeOK, ThrottleRow, BlockedUntil, HasRow
<1>1. ASSUME NEW a \in Attempts, NEW e \in Emails, NEW s \in Sources,
             CheckLoginThrottle(a, e, s)
      PROVE  ThrottleInv'
  <2>1. \A k \in Keys : throttle'[k] \in {throttle[k], NoAttempt}
    BY <1>1 DEF CheckLoginThrottle, Swept
  <2>2. ASSUME NEW k \in Keys, Blocked(k)' PROVE Blocked(k)
    <3>1. BlockedUntil(k)' = 0 \/ BlockedUntil(k)' = BlockedUntil(k)
      BY <2>1 DEF BlockedUntil, HasRow
    <3> QED
      BY <1>0, <1>1, <2>2, <3>1 DEF Blocked, CheckLoginThrottle
  <2>3. ASSUME NEW k \in Keys, Blocked(k) PROVE InFlight(k)' \subseteq InFlight(k)
    <3>1. ASSUME NEW b \in Attempts, Comparing(b)', k \in KeysOf(b)'
          PROVE  Comparing(b) /\ k \in KeysOf(b)
      <4>1. CASE b # a
        BY <1>0, <1>1, <3>1, <4>1 DEF CheckLoginThrottle, Comparing, KeysOf
      <4>2. CASE b = a
        <5>1. ~IsBlocked(e, s) /\ attempting'[a] = [email |-> e, source |-> s]
          BY <1>0, <1>1, <3>1, <4>2 DEF CheckLoginThrottle, Comparing
        <5>2. k \in Descriptors(e, s)
          BY <3>1, <4>2, <5>1 DEF KeysOf
        <5> QED
          BY <2>3, <5>1, <5>2 DEF IsBlocked
      <4> QED
        BY <4>1, <4>2
    <3> QED
      BY <3>1 DEF InFlight
  <2> QED
    BY <1>0, <1>1, <2>2, <2>3, QuietStepCountsOverrun DEF CheckLoginThrottle
<1>2. ASSUME NEW a \in Attempts, RecordLoginFailure(a) PROVE ThrottleInv'
  <2>1. /\ attempting' = [attempting EXCEPT ![a] = NoAttempt] /\ Comparing(a)
        /\ UNCHANGED time
        /\ \A k \in Keys : k \notin KeysOf(a) => throttle'[k] = throttle[k]
    BY <1>2 DEF RecordLoginFailure
  <2>2. ASSUME NEW k PROVE InFlight(k)' = InFlight(k) \ {a}
    <3>1. \A b \in Attempts : attempting'[b] = IF b = a THEN NoAttempt ELSE attempting[b]
      BY <1>0, <2>1
    <3>2. \A b \in Attempts : Comparing(b)' <=> Comparing(b) /\ b # a
      BY <3>1 DEF Comparing
    <3>3. \A b \in Attempts : b # a => KeysOf(b)' = KeysOf(b)
      BY <3>1 DEF KeysOf
    <3> QED
      BY <3>2, <3>3 DEF InFlight
  <2>3. ASSUME NEW k \in Keys
        PROVE  /\ overrun'[k] \in Nat /\ overrun'[k] < Cardinality(Attempts)
               /\ Blocked(k)' =>
                    overrun'[k] + Cardinality(InFlight(k)') < Cardinality(Attempts)
    <3>0. /\ overrun[k] \in Nat /\ overrun[k] < Cardinality(Attempts)
          /\ Blocked(k) => overrun[k] + Cardinality(InFlight(k)) < Cardinality(Attempts)
          /\ Cardinality(InFlight(k)) \in Nat /\ IsFiniteSet(InFlight(k))
      BY InFlightIsFinite DEF ThrottleInv, ThrottleTypeOK, LockoutsHold, OverrunIsCounted
    <3>1. CASE k \notin KeysOf(a)
      <4>1. overrun'[k] = overrun[k] /\ (Blocked(k)' <=> Blocked(k))
        BY <1>2, <2>1, <3>1 DEF RecordLoginFailure, Blocked, BlockedUntil, HasRow
      <4>2. InFlight(k)' = InFlight(k)
        BY <2>2, <3>1 DEF InFlight
      <4> QED
        BY <3>0, <4>1, <4>2
    <3>2. CASE k \in KeysOf(a)
      <4>1. a \in InFlight(k)
        BY <2>1, <3>2 DEF InFlight
      <4>2. Cardinality(InFlight(k)') = Cardinality(InFlight(k)) - 1
        BY <2>2, <3>0, <4>1, FS_RemoveElement
      <4>3. overrun'[k] = IF Blocked(k) THEN overrun[k] + 1 ELSE 0
        BY <1>2, <3>2 DEF RecordLoginFailure
      <4>4. Cardinality(InFlight(k)) <= Cardinality(Attempts) /\ Cardinality(InFlight(k)) # 0
        BY <3>0, <4>1, InFlightIsFinite, FS_EmptySet
      <4> QED
        BY <3>0, <4>2, <4>3, <4>4, SomeAttempts
    <3> QED
      BY <3>1, <3>2
  <2> QED
    BY <1>0, <1>2, <2>1, <2>3
       DEF ThrottleInv, LockoutsHold, OverrunIsCounted, RecordLoginFailure
<1>3. ASSUME NEW a \in Attempts, SucceedLogin(a) PROVE ThrottleInv'
  <2>1. \A k \in Keys : throttle'[k] \in {throttle[k], NoAttempt}
    BY <1>3 DEF SucceedLogin, Cleared
  <2>2. ASSUME NEW k \in Keys, Blocked(k)' PROVE Blocked(k)
    <3>1. BlockedUntil(k)' = 0 \/ BlockedUntil(k)' = BlockedUntil(k)
      BY <2>1 DEF BlockedUntil, HasRow
    <3> QED
      BY <1>0, <1>3, <2>2, <3>1 DEF Blocked, SucceedLogin
  <2>3. ASSUME NEW k PROVE InFlight(k)' \subseteq InFlight(k)
    BY <1>0, <1>3 DEF SucceedLogin, InFlight, Comparing, KeysOf
  <2> QED
    BY <1>0, <1>3, <2>2, <2>3, QuietStepCountsOverrun DEF SucceedLogin
<1>4. ASSUME NEW e \in Emails, ResetPassword(e) PROVE ThrottleInv'
  <2>1. \A k \in Keys : throttle'[k] \in {throttle[k], NoAttempt}
    BY <1>4 DEF ResetPassword, Cleared
  <2>2. ASSUME NEW k \in Keys, Blocked(k)' PROVE Blocked(k)
    <3>1. BlockedUntil(k)' = 0 \/ BlockedUntil(k)' = BlockedUntil(k)
      BY <2>1 DEF BlockedUntil, HasRow
    <3> QED
      BY <1>0, <1>4, <2>2, <3>1 DEF Blocked, ResetPassword
  <2>3. ASSUME NEW k PROVE InFlight(k)' \subseteq InFlight(k)
    BY <1>4 DEF ResetPassword, InFlight, Comparing, KeysOf
  <2> QED
    BY <1>0, <1>4, <2>2, <2>3, QuietStepCountsOverrun DEF ResetPassword
<1>5. ASSUME PassTime PROVE ThrottleInv'
  <2>1. time' = time + 1 /\ UNCHANGED <<throttle, attempting, overrun>>
    BY <1>5 DEF PassTime
  <2>2. ASSUME NEW k \in Keys, Blocked(k)' PROVE Blocked(k)
    <3>1. BlockedUntil(k)' = BlockedUntil(k)
      BY <2>1 DEF BlockedUntil, HasRow
    <3> QED
      BY <1>0, <2>1, <2>2, <3>1 DEF Blocked
  <2>3. ASSUME NEW k PROVE InFlight(k)' \subseteq InFlight(k)
    BY <2>1 DEF InFlight, Comparing, KeysOf
  <2> QED
    BY <1>0, <2>1, <2>2, <2>3, QuietStepCountsOverrun
<1>6. ASSUME UNCHANGED throttleVars PROVE ThrottleInv'
  <2>1. UNCHANGED <<throttle, attempting, time, overrun>>
    BY <1>6 DEF throttleVars
  <2> QED
    BY <1>0, <2>1, QuietStepCountsOverrun
       DEF Blocked, BlockedUntil, HasRow, InFlight, Comparing, KeysOf
<1> QED
  BY <1>1, <1>2, <1>3, <1>4, <1>5, <1>6 DEF ThrottleNext

(* However many attempts run at a time, only those that had passed the     *)
(* check before a lockout began are compared while it lasts.               *)
THEOREM LockoutsAlwaysHold == ThrottleSpec => []LockoutsHold
<1>1. ThrottleInit => ThrottleInv
  BY InitCountsOverrun
<1>2. ThrottleInv /\ [ThrottleNext]_throttleVars => ThrottleInv'
  BY StepCountsOverrun
<1>3. ThrottleInv => LockoutsHold
  BY DEF ThrottleInv
<1> QED
  BY <1>1, <1>2, <1>3, PTL DEF ThrottleSpec

-----------------------------------------------------------------------------
(* A request carries what its operation needs, and one that ends *)
(* or turns a migration has seen it.                                       *)
ArgIsMeant(k) ==
  /\ k.op \in {"start", "switch"} => \E o \in Options : k.arg = [option |-> o]
  /\ k.op = "policy" => \E l, s \in BOOLEAN : k.arg = [local |-> l, sso |-> s]
  /\ k.op = "save" => \E p \in Slot, i \in Issuers : k.arg = [slot |-> p, issuer |-> i]

HasSeenMigration(k) ==
  /\ k.op = "cutover" => k.seen.phase = "staging"
  /\ k.op \in {"rollback", "finish", "prune"} => k.seen.phase = "rollback"
  /\ k.seen.phase # Nothing => TargetProviderId(k.seen) # Nothing
  /\ k.stage = "ended" => Finishes(k)
  /\ k.op = "rollback" => IsRuntimeProviderConfigured(TargetProviderId(k.seen))

TasksAreMeant ==
  /\ task = [t \in Tasks |-> task[t]]
  /\ \A t \in Tasks : ~Idle(t) => ArgIsMeant(task[t]) /\ HasSeenMigration(task[t])

(* What a task that no other one overlaps has seen and judged is so still. *)
Ends(s) == [s EXCEPT !.target = Nothing, !.phase = Nothing]
SeenStands(k) ==
  /\ k.stage \in {"read", "judged"} => SsoState = k.seen
  /\ k.stage = "ended" => SsoState = Ends(k.seen)
  /\ k.op = "cutover" /\ k.stage = "judged" =>
       IsRuntimeProviderConfigured(TargetProviderId(k.seen))

LoneTasksAreSure ==
  \A t \in Tasks : ~Idle(t) /\ task[t].alone =>
    SeenStands(task[t]) /\ \A u \in Tasks : u = t \/ Idle(u)

SignInInv ==
  /\ SignInTypeOK /\ LocalAdmins # {} /\ TargetHasPhase
  /\ TasksAreMeant /\ LoneTasksAreSure


-----------------------------------------------------------------------------
(* What is configured, and for whom.                                       *)

LEMMA TargetIsSlot ==
  ASSUME NEW s \in Setting
  PROVE  /\ ActiveProviderId(s) \in Slot
         /\ TargetProviderId(s) \in Slot \cup {Nothing}
         /\ TargetProviderId(s) # Nothing =>
              s.target # Nothing /\ TargetProviderId(s) # ActiveProviderId(s)
<1>1. /\ s.oidcSlot \in {"oidc", "oidc-next"} /\ s.target \in Options \cup {Nothing}
      /\ Nothing # "oidc" /\ Nothing # "oidc-next" /\ Nothing # "microsoft-entra-id"
  BY NothingAssumption DEF Setting, Slot
<1>2. ActiveProviderId(s) = IF s.provider = Entra THEN "microsoft-entra-id" ELSE s.oidcSlot
  BY DEF ActiveProviderId
<1>3. CASE s.target = Nothing
  <2>1. TargetProviderId(s) = Nothing
    BY <1>3, SignInAssumption DEF TargetProviderId
  <2> QED
    BY <1>1, <1>2, <2>1 DEF Slot
<1>4. CASE s.target # Nothing /\ s.target = Entra
  <2>1. TargetProviderId(s) = IF s.provider = Entra THEN Nothing ELSE "microsoft-entra-id"
    BY <1>4 DEF TargetProviderId
  <2> QED
    BY <1>1, <1>2, <1>4, <2>1 DEF Slot
<1>5. CASE s.target # Nothing /\ s.target # Entra
  <2>1. TargetProviderId(s)
          = IF s.provider = Entra THEN s.oidcSlot ELSE OtherSlot(s.oidcSlot)
    BY <1>5 DEF TargetProviderId
  <2> QED
    BY <1>1, <1>2, <1>5, <2>1 DEF Slot, OtherSlot
<1> QED
  BY <1>3, <1>4, <1>5

LEMMA SsoStateIsTyped ==
  ASSUME setting \in Setting
  PROVE  /\ SsoState \in Setting
         /\ SsoState.phase # Nothing => TargetProviderId(SsoState) # Nothing
         /\ SsoState = setting \/ SsoState = Ends(setting)
<1>1. /\ Ends(setting) \in Setting /\ Ends(setting).phase = Nothing
      /\ Ends(setting) = [setting EXCEPT !.target = Nothing, !.phase = Nothing]
  BY DEF Ends, Setting
<1>2. CASE setting.phase # Nothing /\ TargetProviderId(setting) # Nothing
  BY <1>2 DEF SsoState
<1>3. CASE ~(setting.phase # Nothing /\ TargetProviderId(setting) # Nothing)
  <2>1. SsoState = Ends(setting)
    BY <1>1, <1>3, Zenon DEF SsoState
  <2> QED
    BY <1>1, <2>1
<1> QED
  BY <1>2, <1>3

(* Whoever closes local login has the active provider left.                *)
LEMMA SomeoneSignsIn ==
  ASSUME SignInTypeOK, LocalAdmins # {}
  PROVE  SomeoneCanSignIn
<1>1. CASE EffectiveLocal
  BY <1>1 DEF SomeoneCanSignIn, CanSignIn
<1>2. CASE ~EffectiveLocal
  <2>1. PICK p \in Slot : p = ActiveProviderId(SsoState)
    BY SsoStateIsTyped, TargetIsSlot DEF SignInTypeOK
  <2>2. /\ SsoState.ssoEnabled /\ IsRuntimeProviderConfigured(p) /\ LinkedTo(p) # {}
    BY <1>2, <2>1 DEF EffectiveLocal, MayCloseLocal
  <2>3. SignInRole(p) = "active"
    <3>1. SsoAvailable
      BY <2>1, <2>2 DEF SsoAvailable
    <3>2. TargetProviderId(SsoState) # p
      BY <2>1, SsoStateIsTyped, TargetIsSlot, NothingAssumption DEF SignInTypeOK
    <3> QED
      BY <2>1, <3>1, <3>2 DEF SignInRole
  <2>4. SignInRole(p) # Nothing
    BY <2>3, NothingAssumption
  <2>5. p \in {q \in Slot : SignInRole(q) # Nothing /\ SsoState.ssoEnabled}
    BY <2>2, <2>4
  <2>6. LinkedTo(p) \subseteq CanSignIn
    BY <2>5, Zenon DEF CanSignIn
  <2> QED
    BY <2>2, <2>6 DEF SomeoneCanSignIn
<1> QED
  BY <1>1, <1>2

(* The target of a migration that was seen becomes the provider.           *)
LEMMA SwappedIsTyped ==
  ASSUME NEW s \in Setting, TargetProviderId(s) # Nothing
  PROVE  /\ Swapped(s) \in Setting /\ s.target \in Options
         /\ Swapped(s).provider = s.target
         /\ ActiveProviderId(Swapped(s)) = TargetProviderId(s)
<1>1. s.target \in Options
  BY TargetIsSlot DEF Setting
<1>2. s.target # Entra => TargetProviderId(s) \in {"oidc", "oidc-next"}
  <2>1. s.target # Entra => TargetProviderId(s)
          = IF s.provider = Entra THEN s.oidcSlot ELSE OtherSlot(s.oidcSlot)
    BY <1>1, SignInAssumption DEF TargetProviderId
  <2> QED
    BY <2>1 DEF OtherSlot, Setting
<1>3. s.target = Entra => TargetProviderId(s) = "microsoft-entra-id"
  BY <1>1, SignInAssumption DEF TargetProviderId
<1>4. PICK slot \in {"oidc", "oidc-next"} :
        /\ slot = IF s.target = Entra THEN s.oidcSlot ELSE TargetProviderId(s)
        /\ Swapped(s) = [s EXCEPT !.provider = s.target, !.oidcSlot = slot]
  BY <1>2, Zenon DEF Swapped, Setting
<1>5. /\ Swapped(s) \in Setting
      /\ Swapped(s).provider = s.target /\ Swapped(s).oidcSlot = slot
  BY <1>1, <1>4 DEF Setting
<1> QED
  BY <1>1, <1>3, <1>4, <1>5 DEF ActiveProviderId

(* What a task writes are settings, of a migration or of none.             *)
LEMMA WrittenIsTyped ==
  ASSUME setting \in Setting, TargetHasPhase,
         NEW k \in Task, ArgIsMeant(k), HasSeenMigration(k)
  PROVE  /\ Written(k) \in Setting
         /\ Written(k).target = Nothing <=> Written(k).phase = Nothing
<1>0. /\ k.seen \in Setting /\ k.op \in Operation
      /\ setting.target = Nothing <=> setting.phase = Nothing
      /\ Nothing \notin Options /\ Nothing \notin Phase
  BY SignInAssumption, NothingAssumption DEF Task, TargetHasPhase
<1>1. CASE k.op = "start"
  <2>1. PICK o \in Options : k.arg = [option |-> o]
    BY <1>1 DEF ArgIsMeant
  <2>2. Written(k) = [setting EXCEPT !.target = o, !.phase = "staging"]
    BY <1>1, <2>1 DEF Written
  <2>3. Written(k) \in Setting /\ Written(k).target = o /\ Written(k).phase = "staging"
    BY <2>2 DEF Setting, Phase
  <2>4. o # Nothing /\ "staging" # Nothing
    BY <1>0 DEF Phase
  <2> QED
    BY <2>3, <2>4
<1>2. CASE k.op \in {"cancel", "finish", "prune"}
  <2>1. Written(k) = [setting EXCEPT !.target = Nothing, !.phase = Nothing]
    BY <1>2 DEF Written, Ended
  <2> QED
    BY <1>0, <2>1 DEF Setting
<1>3. CASE k.op \in {"cutover", "rollback"}
  <2>1. TargetProviderId(k.seen) # Nothing
    BY <1>0, <1>3 DEF HasSeenMigration, Phase
  <2>2. /\ Swapped(k.seen).provider \in Options /\ Swapped(k.seen).oidcSlot \in {"oidc", "oidc-next"}
        /\ k.seen.provider \in Options
    BY <1>0, <2>1, SwappedIsTyped DEF Setting
  <2>3. PICK phase \in Phase :
          Written(k) = [setting EXCEPT !.provider = Swapped(k.seen).provider,
                          !.oidcSlot = Swapped(k.seen).oidcSlot,
                          !.target = k.seen.provider, !.phase = phase]
    <3>1. CASE k.op = "cutover"
      <4>1. Written(k) = [setting EXCEPT !.provider = Swapped(k.seen).provider,
                            !.oidcSlot = Swapped(k.seen).oidcSlot,
                            !.target = k.seen.provider, !.phase = "rollback"]
        BY <3>1 DEF Written
      <4> QED
        BY <4>1 DEF Phase
    <3>2. CASE k.op = "rollback"
      <4>1. Written(k) = [setting EXCEPT !.provider = Swapped(k.seen).provider,
                            !.oidcSlot = Swapped(k.seen).oidcSlot,
                            !.target = k.seen.provider, !.phase = "staging"]
        BY <3>2 DEF Written
      <4> QED
        BY <4>1 DEF Phase
    <3> QED
      BY <1>3, <3>1, <3>2
  <2>4. /\ Written(k) \in Setting
        /\ Written(k).target = k.seen.provider /\ Written(k).phase = phase
    <3>1. PICK o \in Options, slot \in {"oidc", "oidc-next"}, p \in Options :
            Written(k) = [setting EXCEPT !.provider = o, !.oidcSlot = slot,
                                         !.target = p, !.phase = phase]
            /\ p = k.seen.provider
      BY <2>2, <2>3
    <3> QED
      BY <3>1 DEF Setting
  <2>5. k.seen.provider # Nothing /\ phase # Nothing
    BY <1>0, <2>2
  <2> QED
    BY <2>4, <2>5
<1>4. CASE k.op = "policy"
  <2>1. PICK l, x \in BOOLEAN : k.arg = [local |-> l, sso |-> x]
    BY <1>4 DEF ArgIsMeant
  <2>2. Written(k) = [setting EXCEPT !.localEnabled = l, !.ssoEnabled = x]
    BY <1>4, <2>1 DEF Written
  <2> QED
    BY <1>0, <2>2 DEF Setting
<1>5. CASE k.op = "switch"
  <2>1. PICK o \in Options : k.arg = [option |-> o]
    BY <1>5 DEF ArgIsMeant
  <2>2. Written(k) = [setting EXCEPT !.provider = o]
    BY <1>5, <2>1 DEF Written
  <2> QED
    BY <1>0, <2>2 DEF Setting
<1>6. CASE k.op = "save"
  <2>1. Written(k) = setting
    BY <1>6 DEF Written
  <2> QED
    BY <1>0, <2>1
<1> QED
  BY <1>0, <1>1, <1>2, <1>3, <1>4, <1>5, <1>6 DEF Operation

(* What a request is accepted with makes a task.                           *)
LEMMA ReadTaskIsMeant ==
  ASSUME SignInTypeOK, NEW op \in Operation, NEW arg \in ArgsOf(op),
         Accepts(op, arg, SsoState), NEW alone \in BOOLEAN,
         NEW k, k = [op |-> op, arg |-> arg, seen |-> SsoState, stage |-> "read",
                     alone |-> alone]
  PROVE  k \in Task /\ ArgIsMeant(k) /\ HasSeenMigration(k)
<1>1. SsoState \in Setting /\ (SsoState.phase # Nothing => TargetProviderId(SsoState) # Nothing)
  BY SsoStateIsTyped DEF SignInTypeOK
<1>2. arg \in Arg
  BY DEF ArgsOf
<1>3. k \in Task
  BY <1>1, <1>2 DEF Task
<1>4. ArgIsMeant(k)
  <2>1. ASSUME op \in {"start", "switch"} PROVE \E o \in Options : arg = [option |-> o]
    <3>1. DOMAIN arg = {"option"}
      BY <2>1 DEF ArgsOf
    <3> QED
      BY <1>2, <3>1 DEF Arg
  <2>2. ASSUME op = "policy" PROVE \E l, x \in BOOLEAN : arg = [local |-> l, sso |-> x]
    <3>1. DOMAIN arg = {"local", "sso"}
      BY <2>2 DEF ArgsOf
    <3> QED
      BY <1>2, <3>1 DEF Arg
  <2>3. ASSUME op = "save"
        PROVE  \E p \in Slot, i \in Issuers : arg = [slot |-> p, issuer |-> i]
    <3>1. DOMAIN arg = {"slot", "issuer"}
      BY <2>3 DEF ArgsOf
    <3> QED
      BY <1>2, <3>1 DEF Arg
  <2> QED
    BY <2>1, <2>2, <2>3 DEF ArgIsMeant
<1>5. HasSeenMigration(k)
  <2>1. op = "cutover" => SsoState.phase = "staging"
    BY DEF Accepts
  <2>2. op \in {"rollback", "finish", "prune"} => SsoState.phase = "rollback"
    BY DEF Accepts
  <2>3. op = "rollback" => IsRuntimeProviderConfigured(TargetProviderId(SsoState))
    BY DEF Accepts
  <2> QED
    BY <1>1, <2>1, <2>2, <2>3 DEF HasSeenMigration
<1> QED
  BY <1>3, <1>4, <1>5

-----------------------------------------------------------------------------
(* The steps.                                                              *)

LEMMA SignInInitIsSound == SignInInit => SignInInv
<1> SUFFICES ASSUME SignInInit PROVE SignInInv
  OBVIOUS
<1>1. setting \in Setting
  BY SignInAssumption DEF SignInInit, Setting
<1>2. SignInTypeOK
  BY <1>1, SignInAssumption DEF SignInInit, SignInTypeOK, Slot
<1>3. LocalAdmins # {} /\ TargetHasPhase
  BY SignInAssumption DEF SignInInit, LocalAdmins, TargetHasPhase
<1>4. TasksAreMeant /\ LoneTasksAreSure
  BY DEF SignInInit, TasksAreMeant, LoneTasksAreSure, Idle
<1> QED
  BY <1>2, <1>3, <1>4 DEF SignInInv

(* What a task is bound to stands while settings and what is loaded do.    *)
LEMMA TasksStayMeant ==
  ASSUME NEW k, HasSeenMigration(k), UNCHANGED loadedConfig
  PROVE  HasSeenMigration(k)'
BY DEF HasSeenMigration, Finishes, IsRuntimeProviderConfigured, TargetProviderId,
   OtherSlot

LEMMA SeenStillStands ==
  ASSUME NEW k, SeenStands(k), UNCHANGED <<setting, loadedConfig>>
  PROVE  SeenStands(k)'
BY DEF SeenStands, SsoState, Ends, IsRuntimeProviderConfigured, TargetProviderId,
   OtherSlot

LEMMA ReadKeepsSignIn ==
  ASSUME SignInInv, NEW t \in Tasks, NEW op \in Operation, NEW arg \in ArgsOf(op),
         ReadState(t, op, arg)
  PROVE  SignInInv'
<1>0. /\ SignInTypeOK /\ UNCHANGED <<setting, configVars, links, activeAdmins>>
      /\ UNCHANGED loadedConfig
  BY DEF SignInInv, ReadState, configVars
<1>1. PICK alone \in BOOLEAN : alone = \A v \in Tasks : Idle(v)
  OBVIOUS
<1>2. PICK k : k = [op |-> op, arg |-> arg, seen |-> SsoState, stage |-> "read",
                    alone |-> alone]
  OBVIOUS
<1>3. k \in Task /\ ArgIsMeant(k) /\ HasSeenMigration(k)
  BY <1>0, <1>2, ReadTaskIsMeant DEF ReadState
<1>4. /\ task' = [u \in Tasks |-> task'[u]] /\ task'[t] = k
      /\ \A u \in Tasks \ {t} :
           task'[u] = IF Idle(u) THEN Nothing ELSE [task[u] EXCEPT !.alone = FALSE]
  BY <1>1, <1>2 DEF ReadState
<1>5. ASSUME NEW j \in Task
      PROVE  /\ [j EXCEPT !.alone = FALSE] \in Task
             /\ [j EXCEPT !.alone = FALSE].alone = FALSE
             /\ ArgIsMeant(j) => ArgIsMeant([j EXCEPT !.alone = FALSE])
             /\ HasSeenMigration(j) => HasSeenMigration([j EXCEPT !.alone = FALSE])
  <2>1. PICK i \in Task : i = [j EXCEPT !.alone = FALSE]
    BY DEF Task
  <2>2. /\ i.op = j.op /\ i.arg = j.arg /\ i.seen = j.seen /\ i.stage = j.stage
        /\ i.alone = FALSE
    BY <2>1 DEF Task
  <2> QED
    BY <2>1, <2>2 DEF ArgIsMeant, HasSeenMigration, Finishes
<1>6. ASSUME NEW u \in Tasks, task'[u] # Nothing
      PROVE  task'[u] \in Task /\ ArgIsMeant(task'[u]) /\ HasSeenMigration(task'[u])
  <2>1. CASE u = t
    BY <1>3, <1>4, <2>1
  <2>2. CASE u # t
    <3>1. ~Idle(u) /\ task'[u] = [task[u] EXCEPT !.alone = FALSE]
      BY <1>4, <1>6, <2>2
    <3>2. task[u] \in Task /\ ArgIsMeant(task[u]) /\ HasSeenMigration(task[u])
      BY <1>0, <3>1 DEF SignInInv, SignInTypeOK, TasksAreMeant, Idle
    <3> QED
      BY <1>5, <3>1, <3>2
  <2> QED
    BY <2>1, <2>2
<1>7. TasksAreMeant'
  BY <1>0, <1>4, <1>6, TasksStayMeant DEF TasksAreMeant, Idle, ArgIsMeant
<1>8. SignInTypeOK'
  <2>1. tasksBegun' \in 0..MaxTasks
    BY <1>0, SignInAssumption DEF ReadState, SignInTypeOK
  <2> QED
    BY <1>0, <1>6, <2>1 DEF SignInTypeOK, configVars
<1>9. LoneTasksAreSure'
  <2>1. ASSUME NEW u \in Tasks, task'[u] # Nothing, task'[u].alone
        PROVE  u = t /\ alone
    <3>1. CASE u = t
      BY <1>2, <1>4, <2>1, <3>1
    <3>2. CASE u # t
      <4>1. ~Idle(u) /\ task'[u] = [task[u] EXCEPT !.alone = FALSE]
        BY <1>4, <2>1, <3>2
      <4>2. task[u] \in Task
        BY <1>0, <4>1 DEF SignInTypeOK, Idle
      <4> QED
        BY <1>5, <2>1, <4>1, <4>2
    <3> QED
      BY <3>1, <3>2
  <2>2. SeenStands(k)
    BY <1>2 DEF SeenStands
  <2>3. SeenStands(k)'
    BY <1>0, <2>2, SeenStillStands
  <2>4. alone => \A u \in Tasks : u = t \/ task'[u] = Nothing
    BY <1>1, <1>4
  <2> QED
    BY <1>4, <2>1, <2>3, <2>4 DEF LoneTasksAreSure, Idle, SeenStands
<1>10. LocalAdmins' # {} /\ TargetHasPhase'
  BY <1>0 DEF SignInInv, LocalAdmins, TargetHasPhase
<1> QED
  BY <1>7, <1>8, <1>9, <1>10 DEF SignInInv

(* A task goes on or ends; another one that runs is not alone.             *)
LEMMA TaskMovesOn ==
  ASSUME SignInInv, NEW t \in Tasks, ~Idle(t), UNCHANGED loadedConfig,
         NEW j, task' = [task EXCEPT ![t] = j],
         j # Nothing => /\ j \in Task /\ ArgIsMeant(j) /\ HasSeenMigration(j)
                        /\ j.alone = task[t].alone
                        /\ j.alone /\ SeenStands(task[t]) => SeenStands(j)'
  PROVE  /\ TasksAreMeant' /\ LoneTasksAreSure'
         /\ \A u \in Tasks : task'[u] # Nothing => task'[u] \in Task
<1>1. /\ task' = [u \in Tasks |-> task'[u]] /\ task'[t] = j
      /\ \A u \in Tasks : u # t => task'[u] = task[u]
  BY DEF SignInInv, TasksAreMeant
<1>2. ASSUME NEW u \in Tasks, task'[u] # Nothing
      PROVE  task'[u] \in Task /\ ArgIsMeant(task'[u]) /\ HasSeenMigration(task'[u])
  <2>1. CASE u = t
    BY <1>1, <1>2, <2>1
  <2>2. CASE u # t
    <3>1. ~Idle(u) /\ task'[u] = task[u]
      BY <1>1, <1>2, <2>2 DEF Idle
    <3> QED
      BY <3>1 DEF SignInInv, SignInTypeOK, TasksAreMeant, Idle
  <2> QED
    BY <2>1, <2>2
<1>3. TasksAreMeant'
  BY <1>1, <1>2, TasksStayMeant DEF TasksAreMeant, Idle, ArgIsMeant
<1>4. ASSUME NEW u \in Tasks, task'[u] # Nothing, task'[u].alone
      PROVE  u = t /\ SeenStands(j)' /\ \A v \in Tasks : v = u \/ task'[v] = Nothing
  <2>1. u = t
    <3>1. ASSUME u # t PROVE FALSE
      <4>1. ~Idle(u) /\ task[u].alone
        BY <1>1, <1>4, <3>1 DEF Idle
      <4>2. Idle(t)
        BY <3>1, <4>1 DEF SignInInv, LoneTasksAreSure
      <4> QED
        BY <4>2
    <3> QED
      BY <3>1
  <2>2. task'[u] = j /\ j # Nothing /\ task[t].alone
    BY <1>1, <1>4, <2>1
  <2>3. SeenStands(task[t]) /\ \A v \in Tasks : v = t \/ Idle(v)
    BY <2>2 DEF SignInInv, LoneTasksAreSure
  <2>4. SeenStands(j)'
    BY <1>4, <2>2, <2>3
  <2> QED
    BY <1>1, <2>1, <2>3, <2>4 DEF Idle
<1>5. LoneTasksAreSure'
  BY <1>1, <1>4 DEF LoneTasksAreSure, Idle, SeenStands
<1> QED
  BY <1>2, <1>3, <1>5

LEMMA JudgeKeepsSignIn ==
  ASSUME SignInInv, NEW t \in Tasks, Judge(t)
  PROVE  SignInInv'
<1>0. /\ SignInTypeOK /\ ~Idle(t) /\ task[t].stage = "read"
      /\ UNCHANGED <<setting, configVars, activeAdmins, tasksBegun>>
      /\ UNCHANGED <<setting, loadedConfig>>
      /\ task[t] \in Task /\ ArgIsMeant(task[t]) /\ HasSeenMigration(task[t])
  BY DEF SignInInv, SignInTypeOK, TasksAreMeant, Judge, AtStage, Idle, configVars
<1>1. PICK k \in Task : k = task[t]
  BY <1>0
<1>2. PICK j : j = [k EXCEPT !.stage = "judged"]
  OBVIOUS
<1>3. /\ j \in Task /\ j.op = k.op /\ j.arg = k.arg /\ j.seen = k.seen
      /\ j.stage = "judged" /\ j.alone = k.alone
  BY <1>2 DEF Task
<1>4. ArgIsMeant(j) /\ HasSeenMigration(j)
  BY <1>0, <1>1, <1>3 DEF ArgIsMeant, HasSeenMigration
<1>5. ASSUME Passes(k), SeenStands(k) PROVE SeenStands(j)
  <2>1. SsoState = j.seen
    BY <1>0, <1>1, <1>3, <1>5 DEF SeenStands
  <2>2. ASSUME j.op = "cutover"
        PROVE  IsRuntimeProviderConfigured(TargetProviderId(j.seen))
    <3>1. SsoState.phase = "staging"
      BY <1>0, <1>1, <1>3, <2>1, <2>2 DEF HasSeenMigration
    <3>2. Unblocked(k.arg.actor)
      BY <1>3, <1>5, <2>2 DEF Passes
    <3> QED
      BY <2>1, <3>1, <3>2 DEF Unblocked
  <2> QED
    BY <1>3, <2>1, <2>2 DEF SeenStands
<1>6. PICK i : /\ task' = [task EXCEPT ![t] = i]
               /\ i = IF Passes(k) THEN j ELSE Nothing
  BY <1>1, <1>2 DEF Judge
<1>7. i # Nothing => /\ i \in Task /\ ArgIsMeant(i) /\ HasSeenMigration(i)
                     /\ i.alone = task[t].alone
                     /\ i.alone /\ SeenStands(task[t]) => SeenStands(i)'
  <2>1. SeenStands(j) => SeenStands(j)'
    BY <1>0, SeenStillStands
  <2> QED
    BY <1>1, <1>3, <1>4, <1>5, <1>6, <2>1
<1>8. /\ TasksAreMeant' /\ LoneTasksAreSure'
      /\ \A u \in Tasks : task'[u] # Nothing => task'[u] \in Task
  BY <1>0, <1>6, <1>7, TaskMovesOn
<1>9. links' \subseteq links
  BY DEF Judge
<1> QED
  BY <1>0, <1>8, <1>9
     DEF SignInInv, SignInTypeOK, LocalAdmins, TargetHasPhase, configVars

LEMMA WriteKeepsSignIn ==
  ASSUME SignInInv, NEW t \in Tasks, WriteState(t)
  PROVE  SignInInv'
<1>0. /\ SignInTypeOK /\ ~Idle(t) /\ task[t].stage = "judged"
      /\ UNCHANGED <<loadedConfig, links, activeAdmins, tasksBegun>>
      /\ task[t] \in Task /\ ArgIsMeant(task[t]) /\ HasSeenMigration(task[t])
  BY DEF SignInInv, SignInTypeOK, TasksAreMeant, WriteState, AtStage, Idle
<1>1. PICK k \in Task : k = task[t]
  BY <1>0
<1>2. PICK j : j = [k EXCEPT !.stage = "ended"]
  OBVIOUS
<1>3. /\ j \in Task /\ j.op = k.op /\ j.arg = k.arg /\ j.seen = k.seen
      /\ j.stage = "ended" /\ j.alone = k.alone
  BY <1>2 DEF Task
<1>4. setting' = Written(k) /\ setting' \in Setting /\ TargetHasPhase'
  BY <1>0, <1>1, WrittenIsTyped
     DEF SignInInv, SignInTypeOK, WriteState, TargetHasPhase
<1>5. ASSUME Finishes(k) PROVE ArgIsMeant(j) /\ HasSeenMigration(j)
  BY <1>0, <1>1, <1>3, <1>5 DEF ArgIsMeant, HasSeenMigration, Finishes
<1>6. ASSUME Finishes(k), SeenStands(k) PROVE SeenStands(j)'
  <2>1. setting' = Ends(setting)
    BY <1>4, <1>6 DEF Written, Finishes, Ended, Ends
  <2>2. SsoState = k.seen
    BY <1>0, <1>1, <1>6 DEF SeenStands
  <2>3. SsoState = setting \/ SsoState = Ends(setting)
    BY <1>0, SsoStateIsTyped DEF SignInTypeOK
  <2>4. \A s \in Setting : Ends(Ends(s)) = Ends(s) /\ Ends(s).phase = Nothing
    BY DEF Ends, Setting
  <2>5. setting \in Setting
    BY <1>0 DEF SignInTypeOK
  <2>6. SsoState' = Ends(setting')
    <3>1. setting'.phase = Nothing
      BY <2>1, <2>4, <2>5
    <3> QED
      BY <3>1 DEF SsoState, Ends
  <2>7. SsoState' = Ends(k.seen)
    BY <2>1, <2>2, <2>3, <2>4, <2>5, <2>6
  <2>8. j.op # "cutover"
    BY <1>3, <1>6 DEF Finishes
  <2> QED
    BY <1>3, <2>7, <2>8 DEF SeenStands, Ends
<1>7. PICK i : /\ task' = [task EXCEPT ![t] = i]
               /\ i = IF Finishes(k) THEN j ELSE Nothing
  BY <1>1, <1>2 DEF WriteState
<1>8. /\ TasksAreMeant' /\ LoneTasksAreSure'
      /\ \A u \in Tasks : task'[u] # Nothing => task'[u] \in Task
  BY <1>0, <1>1, <1>3, <1>5, <1>6, <1>7, TaskMovesOn
<1>9. savedConfig' \in [Slot -> Issuers \cup {Nothing}]
  <2>1. CASE task[t].op = "save"
    <3>1. PICK p \in Slot, x \in Issuers : task[t].arg = [slot |-> p, issuer |-> x]
      BY <1>0, <2>1 DEF ArgIsMeant
    <3>2. savedConfig' = [savedConfig EXCEPT ![p] = x]
      BY <2>1, <3>1 DEF WriteState
    <3> QED
      BY <1>0, <3>2 DEF SignInTypeOK
  <2>2. CASE task[t].op # "save"
    BY <1>0, <2>2 DEF WriteState, SignInTypeOK
  <2> QED
    BY <2>1, <2>2
<1> QED
  BY <1>0, <1>4, <1>8, <1>9 DEF SignInInv, SignInTypeOK, LocalAdmins

LEMMA ClearKeepsSignIn ==
  ASSUME SignInInv, NEW t \in Tasks, ClearOidcSlot(t)
  PROVE  SignInInv'
<1>0. /\ SignInTypeOK /\ ~Idle(t)
      /\ UNCHANGED <<setting, loadedConfig, links, activeAdmins, tasksBegun>>
      /\ task' = [task EXCEPT ![t] = Nothing]
  BY DEF SignInInv, ClearOidcSlot, AtStage
<1>1. /\ TasksAreMeant' /\ LoneTasksAreSure'
      /\ \A u \in Tasks : task'[u] # Nothing => task'[u] \in Task
  BY <1>0, TaskMovesOn
<1>2. savedConfig' \in [Slot -> Issuers \cup {Nothing}]
  BY <1>0 DEF ClearOidcSlot, SignInTypeOK
<1> QED
  BY <1>0, <1>1, <1>2 DEF SignInInv, SignInTypeOK, LocalAdmins, TargetHasPhase

LEMMA RestartKeepsSignIn ==
  ASSUME SignInInv, Restart
  PROVE  SignInInv'
<1>1. /\ loadedConfig' = savedConfig /\ task' = [t \in Tasks |-> Nothing]
      /\ UNCHANGED <<setting, savedConfig, links, activeAdmins, tasksBegun>>
  BY DEF Restart
<1>2. TasksAreMeant' /\ LoneTasksAreSure'
  BY <1>1 DEF TasksAreMeant, LoneTasksAreSure, Idle
<1> QED
  BY <1>1, <1>2 DEF SignInInv, SignInTypeOK, LocalAdmins, TargetHasPhase

(* Another account or administrator is no concern of the tasks.            *)
LEMMA OthersKeepSignIn ==
  ASSUME SignInInv, UNCHANGED <<setting, configVars, task, tasksBegun>>,
         links' \subseteq Link, activeAdmins' \subseteq Admins, LocalAdmins' # {}
  PROVE  SignInInv'
<1>1. UNCHANGED <<setting, savedConfig, loadedConfig, task, tasksBegun>>
  BY DEF configVars
<1>2. TasksAreMeant' /\ LoneTasksAreSure'
  <2>1. \A t \in Tasks : Idle(t)' <=> Idle(t)
    BY <1>1 DEF Idle
  <2>2. \A t \in Tasks : HasSeenMigration(task[t]) => HasSeenMigration(task[t])'
    BY <1>1 DEF HasSeenMigration, Finishes, IsRuntimeProviderConfigured,
       TargetProviderId, OtherSlot
  <2>3. \A t \in Tasks : SeenStands(task[t]) => SeenStands(task[t])'
    BY <1>1 DEF SeenStands, SsoState, Ends, IsRuntimeProviderConfigured,
       TargetProviderId, OtherSlot
  <2> QED
    BY <1>1, <2>1, <2>2, <2>3
       DEF SignInInv, TasksAreMeant, LoneTasksAreSure, ArgIsMeant
<1> QED
  BY <1>1, <1>2 DEF SignInInv, SignInTypeOK, TargetHasPhase

LEMMA LinkKeepsSignIn ==
  ASSUME SignInInv, NEW a \in Admins, NEW p \in Slot, LinkAccount(a, p)
  PROVE  SignInInv'
<1>0. SignInTypeOK /\ UNCHANGED <<setting, configVars, activeAdmins, task, tasksBegun>>
  BY DEF SignInInv, LinkAccount
<1>1. IsRuntimeProviderConfigured(p)
  <2>1. ActiveProviderId(SsoState) = p => SsoAvailable
    <3>1. ActiveProviderId(SsoState) = p => TargetProviderId(SsoState) # p
      BY <1>0, SsoStateIsTyped, TargetIsSlot, NothingAssumption DEF SignInTypeOK
    <3> QED
      BY <3>1 DEF LinkAccount, SignInRole
  <2>2. ActiveProviderId(SsoState) # p => IsRuntimeProviderConfigured(p)
    BY DEF LinkAccount, SignInRole
  <2> QED
    BY <2>1, <2>2 DEF SsoAvailable
<1>2. loadedConfig[p] \in Issuers /\ StoredAccountProvider(p) \in {"microsoft-entra-id", "oidc"}
  BY <1>0, <1>1 DEF IsRuntimeProviderConfigured, SignInTypeOK, StoredAccountProvider, Slot
<1>3. [admin |-> a, provider |-> StoredAccountProvider(p), issuer |-> loadedConfig[p]] \in Link
  BY <1>2 DEF Link
<1>4. links' \subseteq Link
  BY <1>0, <1>3 DEF LinkAccount, SignInTypeOK
<1>5. LocalAdmins' # {} /\ activeAdmins' \subseteq Admins
  BY <1>0 DEF SignInInv, SignInTypeOK, LocalAdmins
<1> QED
  BY <1>0, <1>4, <1>5, OthersKeepSignIn

LEMMA StepKeepsSignIn ==
  ASSUME SignInInv, [SignInNext]_signInVars
  PROVE  SignInInv'
<1>1. ASSUME NEW a \in Admins, ToggleAdmin(a) PROVE SignInInv'
  <2>1. activeAdmins' \subseteq Admins
    BY <1>1 DEF ToggleAdmin, SignInInv, SignInTypeOK
  <2>2. UNCHANGED <<setting, configVars, links, task, tasksBegun>> /\ LocalAdmins' # {}
    BY <1>1 DEF ToggleAdmin, LocalAdmins
  <2> QED
    BY <2>1, <2>2, OthersKeepSignIn DEF SignInInv, SignInTypeOK
<1>2. ASSUME UNCHANGED signInVars PROVE SignInInv'
  <2>1. UNCHANGED <<setting, configVars, links, activeAdmins, task, tasksBegun>>
    BY <1>2 DEF signInVars
  <2> QED
    BY <2>1, OthersKeepSignIn DEF SignInInv, SignInTypeOK, LocalAdmins
<1> QED
  BY <1>1, <1>2, ReadKeepsSignIn, JudgeKeepsSignIn, WriteKeepsSignIn, ClearKeepsSignIn,
     RestartKeepsSignIn, LinkKeepsSignIn DEF SignInNext

(* What a task that is alone clears is neither active nor its target, and  *)
(* what it makes active is loaded.                                         *)
LEMMA StepMigratesSoundly ==
  ASSUME SignInInv, SignInInv'
  PROVE  MigrationIsSound
<1>1. ASSUME NEW t \in Tasks, ClearOidcSlot(t), task[t].alone
      PROVE  PreviousSlot(t) \notin {ActiveProviderId(SsoState), TargetProviderId(SsoState)}
  <2>1. PICK k \in Task : k = task[t] /\ k.stage = "ended" /\ ~Idle(t)
    BY <1>1 DEF ClearOidcSlot, AtStage, SignInInv, SignInTypeOK, Idle
  <2>2. HasSeenMigration(k) /\ SeenStands(k)
    BY <1>1, <2>1 DEF SignInInv, TasksAreMeant, LoneTasksAreSure
  <2>3. SsoState = Ends(k.seen) /\ k.seen \in Setting
    BY <2>1, <2>2 DEF SeenStands, Task
  <2>4. TargetProviderId(k.seen) # Nothing
    BY <2>1, <2>2, NothingAssumption DEF HasSeenMigration, Finishes, Phase
  <2>5. ActiveProviderId(SsoState) = ActiveProviderId(k.seen) /\ TargetProviderId(SsoState) = Nothing
    <3>1. /\ Ends(k.seen).provider = k.seen.provider
          /\ Ends(k.seen).oidcSlot = k.seen.oidcSlot /\ Ends(k.seen).target = Nothing
          /\ Ends(k.seen) \in Setting
      BY <2>3 DEF Ends, Setting
    <3>2. TargetProviderId(Ends(k.seen)) = Nothing
      BY <3>1, TargetIsSlot
    <3> QED
      BY <2>3, <3>1, <3>2 DEF ActiveProviderId
  <2>6. PreviousSlot(t) = TargetProviderId(k.seen)
    BY <2>1 DEF PreviousSlot
  <2> QED
    BY <2>3, <2>4, <2>5, <2>6, TargetIsSlot
<1>2. ASSUME NEW t \in Tasks, WriteState(t), task[t].alone,
             task[t].op \in {"cutover", "rollback"}
      PROVE  IsRuntimeProviderConfigured(ActiveProviderId(SsoState))'
  <2>1. PICK k \in Task : k = task[t] /\ k.stage = "judged" /\ ~Idle(t)
    BY <1>2 DEF WriteState, AtStage, SignInInv, SignInTypeOK, Idle
  <2>2. HasSeenMigration(k) /\ SeenStands(k)
    BY <1>2, <2>1 DEF SignInInv, TasksAreMeant, LoneTasksAreSure
  <2>3. k.seen \in Setting /\ TargetProviderId(k.seen) # Nothing
    BY <1>2, <2>1, <2>2, NothingAssumption DEF HasSeenMigration, Task, Phase
  <2>4. IsRuntimeProviderConfigured(TargetProviderId(k.seen))
    BY <1>2, <2>1, <2>2 DEF HasSeenMigration, SeenStands
  <2>5. /\ setting' = Written(k) /\ loadedConfig' = loadedConfig /\ setting \in Setting
    BY <1>2, <2>1 DEF WriteState, SignInInv, SignInTypeOK
  <2>6. setting'.provider = Swapped(k.seen).provider /\ setting'.oidcSlot = Swapped(k.seen).oidcSlot
    <3>1. PICK s \in Setting : \E phase :
            /\ s = setting
            /\ setting' = [s EXCEPT !.provider = Swapped(k.seen).provider,
                            !.oidcSlot = Swapped(k.seen).oidcSlot,
                            !.target = k.seen.provider, !.phase = phase]
      BY <1>2, <2>1, <2>5 DEF Written
    <3> QED
      BY <3>1 DEF Setting
  <2>7. SsoState'.provider = setting'.provider /\ SsoState'.oidcSlot = setting'.oidcSlot
    <3>1. setting' \in Setting
      BY DEF SignInInv, SignInTypeOK
    <3>2. \A s \in Setting : Ends(s).provider = s.provider /\ Ends(s).oidcSlot = s.oidcSlot
      BY DEF Ends, Setting
    <3>3. SsoState' = setting' \/ SsoState' = Ends(setting')
      BY DEF SsoState, Ends
    <3> QED
      BY <3>1, <3>2, <3>3
  <2>8. ActiveProviderId(SsoState)' = ActiveProviderId(Swapped(k.seen))
    BY <2>6, <2>7 DEF ActiveProviderId
  <2>9. ActiveProviderId(SsoState)' = TargetProviderId(k.seen)
    BY <2>3, <2>8, SwappedIsTyped
  <2> QED
    BY <2>4, <2>5, <2>9 DEF IsRuntimeProviderConfigured
<1> QED
  BY <1>1, <1>2 DEF MigrationIsSound

-----------------------------------------------------------------------------
UserPage ==
  [row : Person, isOpen : BOOLEAN, opened : UserForm, values : UserForm,
   edited : SUBSET UserFields, password : Nat \cup {NoUserCall}]
UsersAreShaped ==
  /\ person \in Person /\ openQueues \subseteq UserQueues /\ newPasswords \in Nat
  /\ userPage \in UserPage
  /\ userCall \in [UserCalls -> UserRequest \cup {NoUserCall}]

(* The values of a dialog that were not edited are those it was opened with. *)
OnlyEditsDiffer(values, opened, edited) ==
  \A f \in UserFields \ edited : values[f] = opened[f]

(* What a request says follows from its operation.                         *)
UserRequestIsMeant(k) ==
  /\ k.body.reset <=> k.op = "reset"
  /\ k.op = "dialog" => OnlyEditsDiffer(k.body, k.base, k.edited)
  /\ k.op = "queues" =>
       /\ k.base \in Person /\ k.body.role = NoUserCall /\ k.body.active = NoUserCall
       /\ \E q \in UserQueues :
            k.body.queues = IF q \in k.base.agentOf THEN k.base.agentOf \ {q}
                                                    ELSE k.base.agentOf \cup {q}

(* A new password is on its way in one answer at most, and shown after.    *)
Resets(c) == userCall[c] # NoUserCall /\ userCall[c].op = "reset"
PasswordArrives ==
  /\ person.password = newPasswords
  /\ \A c, d \in UserCalls : Resets(c) /\ Resets(d) => c = d
  /\ \A c \in UserCalls : UserCallIs(c, "done") =>
       userCall[c].password = IF Resets(c) THEN newPasswords ELSE NoUserCall
  /\ userPage.password # NoUserCall =>
       \/ userPage.password = newPasswords
       \/ \E c \in UserCalls : UserCallIs(c, "done") /\ Resets(c)

UsersInv ==
  /\ UsersAreShaped
  /\ OnlyEditsDiffer(userPage.values, userPage.opened, userPage.edited)
  /\ \A c \in UserCalls : userCall[c] # NoUserCall => UserRequestIsMeant(userCall[c])
  /\ PasswordArrives

LEMMA FormOfRow ==
  ASSUME NEW row \in Person
  PROVE  FormOf(row) \in UserForm /\ FormOf(row).role = row.role /\ FormOf(row).active = row.active
BY DEF FormOf, UserForm, Person, UserFields

LEMMA UsersInitIsSound == UserInit => UsersInv
<1> SUFFICES ASSUME UserInit PROVE UsersInv
  OBVIOUS
<1>1. person \in Person /\ person.password = 0
  BY DEF UserInit, Person, StaffRole
<1>2. FormOf(person) \in UserForm
  BY <1>1, FormOfRow
<1>3. userPage \in UserPage
  BY <1>1, <1>2 DEF UserInit, UserPage
<1> QED
  BY <1>1, <1>3, NoUserCallAssumption DEF UserInit, UsersInv, UsersAreShaped,
     OnlyEditsDiffer, PasswordArrives, Resets, UserCallIs

LEMMA PageStepKeepsUsers ==
  ASSUME UsersInv, OpenUser \/ EditUser \/ CloseUser \/ RefreshUser
  PROVE  UsersInv'
<1>1. /\ person' = person /\ openQueues' = openQueues /\ newPasswords' = newPasswords
      /\ userCall' = userCall
  BY DEF OpenUser, EditUser, CloseUser, RefreshUser, InUserDatabase
<1>2. PICK p \in UserPage : p = userPage /\ OnlyEditsDiffer(p.values, p.opened, p.edited)
  BY DEF UsersInv, UsersAreShaped
<1>3. /\ userPage' \in UserPage /\ userPage'.password \in {userPage.password, NoUserCall}
      /\ OnlyEditsDiffer(userPage'.values, userPage'.opened, userPage'.edited)
  <2>1. CASE OpenUser
    <3>1. /\ p.row \in Person /\ FormOf(p.row) \in UserForm
          /\ userPage' = [p EXCEPT !.isOpen = TRUE, !.values = FormOf(p.row),
                            !.opened = FormOf(p.row), !.edited = {}]
      BY <1>2, <2>1, FormOfRow DEF OpenUser, DialogOf, UserPage
    <3> QED
      BY <1>2, <3>1 DEF UserPage, OnlyEditsDiffer
  <2>2. CASE CloseUser
    BY <1>2, <2>2 DEF CloseUser, UserPage, OnlyEditsDiffer
  <2>3. CASE RefreshUser
    BY <1>2, <2>3 DEF RefreshUser, UserPage, OnlyEditsDiffer, UsersInv, UsersAreShaped
  <2>4. CASE EditUser
    <3>1. ASSUME NEW form \in UserForm, NEW f \in UserFields,
                 \A g \in UserFields \ {f} : form[g] = p.values[g],
                 userPage' = [p EXCEPT !.values = form, !.edited = p.edited \cup {f}]
          PROVE  /\ userPage' \in UserPage /\ userPage'.password = p.password
                 /\ OnlyEditsDiffer(userPage'.values, userPage'.opened, userPage'.edited)
      BY <1>2, <3>1 DEF UserPage, OnlyEditsDiffer
    <3>2. CASE userPage' = [userPage EXCEPT !.values.active = ~@, !.edited = @ \cup {"active"}]
      <4>1. PICK v \in UserForm : v = p.values
        BY DEF UserPage
      <4>2. PICK form \in UserForm : form = [v EXCEPT !.active = ~v.active]
        BY DEF UserForm
      <4>3. userPage' = [p EXCEPT !.values = form, !.edited = p.edited \cup {"active"}]
        BY <1>2, <3>2, <4>1, <4>2 DEF UserPage
      <4>4. form.role = v.role
        BY <4>2 DEF UserForm
      <4> QED
        BY <1>2, <3>1, <4>1, <4>3, <4>4 DEF UserFields
    <3>3. ASSUME NEW role \in StaffRole,
                 userPage' = [userPage EXCEPT !.values.role = role, !.edited = @ \cup {"role"}]
          PROVE  /\ userPage' \in UserPage /\ userPage'.password = p.password
                 /\ OnlyEditsDiffer(userPage'.values, userPage'.opened, userPage'.edited)
      <4>1. PICK v \in UserForm : v = p.values
        BY DEF UserPage
      <4>2. PICK form \in UserForm : form = [v EXCEPT !.role = role]
        BY DEF UserForm
      <4>3. userPage' = [p EXCEPT !.values = form, !.edited = p.edited \cup {"role"}]
        BY <1>2, <3>3, <4>1, <4>2 DEF UserPage
      <4>4. form.active = v.active
        BY <4>2 DEF UserForm
      <4> QED
        BY <3>1, <4>1, <4>3, <4>4 DEF UserFields
    <3> QED
      BY <1>2, <2>4, <3>2, <3>1, <3>3 DEF EditUser
  <2> QED
    BY <2>1, <2>2, <2>3, <2>4
<1>4. PasswordArrives'
  BY <1>1, <1>3 DEF UsersInv, PasswordArrives, Resets, UserCallIs
<1> QED
  BY <1>1, <1>3, <1>4 DEF UsersInv, UsersAreShaped

(* A request that says what its operation means, with the only password.   *)
LEMMA SendingKeepsUsers ==
  ASSUME UsersInv, NEW c \in UserCalls, NEW op \in {"dialog", "role", "queues", "reset"},
         NEW body \in UserBody, NEW base \in UserForm \cup Person, SendUser(c, op, body, base),
         body.reset <=> op = "reset",
         op = "dialog" => OnlyEditsDiffer(body, base, userPage.edited),
         op = "queues" => UserRequestIsMeant([op |-> op, body |-> body, base |-> base]),
         op = "reset" => \A d \in UserCalls : ~Resets(d)
  PROVE  UsersInv'
<1>1. /\ person' = person /\ openQueues' = openQueues /\ newPasswords' = newPasswords
      /\ userPage' = userPage /\ userCall[c] = NoUserCall
  BY DEF SendUser, InUserDatabase
<1>2. userPage.edited \in SUBSET UserFields
  BY DEF UsersInv, UsersAreShaped, UserPage
<1>3. PICK k \in UserRequest :
        k = [at |-> "sent", op |-> op, body |-> body, base |-> base, edited |-> userPage.edited,
             password |-> NoUserCall]
  BY <1>2 DEF UserRequest
<1>4. userCall' = [userCall EXCEPT ![c] = k]
  BY <1>3 DEF SendUser
<1>5. UserRequestIsMeant(k)
  BY <1>3 DEF UserRequestIsMeant
<1>6. /\ userCall' \in [UserCalls -> UserRequest \cup {NoUserCall}] /\ userCall'[c] = k
      /\ \A d \in UserCalls \ {c} : userCall'[d] = userCall[d]
  BY <1>4 DEF UsersInv, UsersAreShaped
<1>7. PasswordArrives'
  <2>1. \A d \in UserCalls : (UserCallIs(d, "done"))' <=> UserCallIs(d, "done")
    BY <1>1, <1>3, <1>6 DEF UserCallIs
  <2>2. \A d \in UserCalls : Resets(d)' => Resets(d) \/ (d = c /\ op = "reset")
    BY <1>1, <1>3, <1>6 DEF Resets
  <2>3. \A d \in UserCalls : UserCallIs(d, "done") =>
          userCall'[d] = userCall[d] /\ (Resets(d)' <=> Resets(d))
    BY <1>1, <1>6 DEF UserCallIs, Resets
  <2>4. \A d, e \in UserCalls : Resets(d)' /\ Resets(e)' => d = e
    BY <2>2 DEF UsersInv, PasswordArrives
  <2>5. \A d \in UserCalls : (UserCallIs(d, "done"))' =>
          userCall'[d].password = IF Resets(d)' THEN newPasswords ELSE NoUserCall
    BY <2>1, <2>3 DEF UsersInv, PasswordArrives
  <2>6. userPage.password # NoUserCall =>
          \/ userPage.password = newPasswords
          \/ \E d \in UserCalls : (UserCallIs(d, "done"))' /\ Resets(d)'
    BY <2>1, <2>3 DEF UsersInv, PasswordArrives
  <2> QED
    BY <1>1, <2>4, <2>5, <2>6 DEF UsersInv, PasswordArrives
<1> QED
  BY <1>1, <1>5, <1>6, <1>7 DEF UsersInv, UsersAreShaped

LEMMA SendStepKeepsUsers ==
  ASSUME UsersInv, NEW c \in UserCalls,
         SaveUser(c) \/ ChangeRole(c) \/ TickQueue(c) \/ IssuePassword(c)
  PROVE  UsersInv'
<1>1. PICK p \in UserPage : p = userPage /\ OnlyEditsDiffer(p.values, p.opened, p.edited)
  BY DEF UsersInv, UsersAreShaped
<1>3. CASE SaveUser(c)
  <2>1. PICK v \in UserForm, o \in UserForm : v = p.values /\ o = p.opened
    BY DEF UserPage
  <2>2. PICK body : body = [NoChange EXCEPT !.role = v.role, !.active = v.active]
    OBVIOUS
  <2>3. /\ body = [role |-> v.role, active |-> v.active, queues |-> NoUserCall, reset |-> FALSE]
        /\ v.role \in StaffRole /\ v.active \in BOOLEAN
    BY <2>2 DEF NoChange, UserForm
  <2>4. /\ body \in UserBody /\ body.reset = FALSE
        /\ body.role = v.role /\ body.active = v.active
    BY <2>3 DEF UserBody
  <2>5. OnlyEditsDiffer(body, o, userPage.edited)
    BY <1>1, <2>1, <2>4 DEF OnlyEditsDiffer, UserFields
  <2>6. SendUser(c, "dialog", body, o)
    BY <1>1, <1>3, <2>1, <2>2 DEF SaveUser
  <2> QED
    BY <2>4, <2>5, <2>6, SendingKeepsUsers
<1>4. CASE ChangeRole(c)
  <2>1. PICK role \in StaffRole :
          SendUser(c, "role", [NoChange EXCEPT !.role = role], userPage.row)
    BY <1>4 DEF ChangeRole
  <2>2. PICK body : body = [NoChange EXCEPT !.role = role]
    OBVIOUS
  <2>3. body = [role |-> role, active |-> NoUserCall, queues |-> NoUserCall, reset |-> FALSE]
    BY <2>2 DEF NoChange
  <2>4. body \in UserBody /\ body.reset = FALSE
    BY <2>3 DEF UserBody
  <2> QED
    BY <1>1, <2>1, <2>2, <2>4, SendingKeepsUsers DEF UserPage
<1>5. CASE TickQueue(c)
  <2>1. PICK r \in Person : r = userPage.row
    BY <1>1 DEF UserPage
  <2>2. PICK q \in UserQueues :
          SendUser(c, "queues", [NoChange EXCEPT
            !.queues = IF q \in r.agentOf THEN r.agentOf \ {q} ELSE r.agentOf \cup {q}], r)
    BY <1>5, <2>1 DEF TickQueue, Assigned, UsersInv, UsersAreShaped, Person
  <2>3. PICK queues \in SUBSET UserQueues :
          queues = IF q \in r.agentOf THEN r.agentOf \ {q} ELSE r.agentOf \cup {q}
    BY DEF Person
  <2>6. PICK body : body = [NoChange EXCEPT !.queues = queues]
    OBVIOUS
  <2>7. body = [role |-> NoUserCall, active |-> NoUserCall, queues |-> queues, reset |-> FALSE]
    BY <2>6 DEF NoChange
  <2>4. /\ body \in UserBody /\ body.reset = FALSE
        /\ body.role = NoUserCall /\ body.active = NoUserCall /\ body.queues = queues
    BY <2>7 DEF UserBody
  <2>5. UserRequestIsMeant([op |-> "queues", body |-> body, base |-> r])
    BY <2>3, <2>4 DEF UserRequestIsMeant
  <2> QED
    BY <2>2, <2>3, <2>4, <2>5, <2>6, SendingKeepsUsers
<1>6. CASE IssuePassword(c)
  <2>1. PICK body : body = [NoChange EXCEPT !.reset = TRUE]
    OBVIOUS
  <2>3. body = [role |-> NoUserCall, active |-> NoUserCall, queues |-> NoUserCall, reset |-> TRUE]
    BY <2>1 DEF NoChange
  <2>4. body \in UserBody /\ body.reset = TRUE
    BY <2>3 DEF UserBody
  <2>2. \A d \in UserCalls : ~Resets(d)
    BY <1>6 DEF IssuePassword, Resets
  <2> QED
    BY <1>1, <1>6, <2>1, <2>2, <2>4, SendingKeepsUsers DEF IssuePassword, UserPage
<1> QED
  BY <1>3, <1>4, <1>5, <1>6

(* The row after a request is a row, with the password that it brings.     *)
LEMMA CommitKeepsUsers ==
  ASSUME UsersInv, NEW c \in UserCalls, CommitUser(c)
  PROVE  UsersInv'
<1>1. PICK k \in UserRequest : k = userCall[c] /\ k # NoUserCall /\ k.at = "sent"
  BY DEF CommitUser, UserCallIs, UsersInv, UsersAreShaped
<1>2. PICK body \in UserBody : body = k.body /\ (body.reset <=> k.op = "reset")
  BY <1>1 DEF UserRequest, UsersInv, UserRequestIsMeant
<1>3. PICK latest \in Nat : latest = IF body.reset THEN newPasswords + 1 ELSE newPasswords
  BY DEF UsersInv, UsersAreShaped
<1>4. PICK j \in UserRequest :
        /\ j = [k EXCEPT !.at = "done",
                  !.password = IF body.reset THEN newPasswords + 1 ELSE NoUserCall]
        /\ j.password = IF body.reset THEN latest ELSE NoUserCall
        /\ j.at = "done" /\ j.op = k.op /\ UserRequestIsMeant(j)
  <2>1. PICK shown \in Nat \cup {NoUserCall} :
          /\ shown = IF body.reset THEN newPasswords + 1 ELSE NoUserCall
          /\ shown = IF body.reset THEN latest ELSE NoUserCall
    BY <1>3
  <2>2. UserRequestIsMeant(k)
    BY <1>1 DEF UsersInv
  <2>3. PICK j \in UserRequest : j = [k EXCEPT !.at = "done", !.password = shown]
    BY DEF UserRequest
  <2>4. /\ j.password = shown /\ j.at = "done" /\ j.op = k.op /\ j.body = k.body
        /\ j.base = k.base /\ j.edited = k.edited
    BY <2>3 DEF UserRequest
  <2>5. UserRequestIsMeant(j)
    BY <2>2, <2>4 DEF UserRequestIsMeant
  <2> QED
    BY <2>1, <2>3, <2>4, <2>5
<1>5. /\ userCall' = [userCall EXCEPT ![c] = j] /\ newPasswords' = latest
      /\ openQueues' = openQueues /\ userPage' = userPage
  BY <1>1, <1>2, <1>3, <1>4 DEF CommitUser, UsersInv, UsersAreShaped
<1>6. person' \in Person /\ person'.password = latest
  <2>1. PICK r \in Person : r = person /\ r.password = newPasswords
    BY DEF UsersInv, UsersAreShaped, PasswordArrives
  <2>2. PICK role \in StaffRole, active \in BOOLEAN, agentOf \in SUBSET UserQueues,
             adminOf \in SUBSET UserQueues :
          person' = [role |-> role, active |-> active, agentOf |-> agentOf,
                     adminOf |-> adminOf, password |-> latest]
    <3>1. Given(body.role, r.role) \in StaffRole /\ Given(body.active, r.active) \in BOOLEAN
      BY DEF Given, UserBody, Person
    <3>2. (IF body.role = "USER" THEN {} ELSE Given(body.queues, r.agentOf)) \in SUBSET UserQueues
      BY DEF Given, UserBody, Person
    <3>3. AdminOfAfter(body, r) \in SUBSET UserQueues
      BY DEF AdminOfAfter, Person
    <3>4. person' = [role |-> Given(body.role, r.role), active |-> Given(body.active, r.active),
             agentOf |-> IF body.role = "USER" THEN {} ELSE Given(body.queues, r.agentOf),
             adminOf |-> AdminOfAfter(body, r), password |-> latest]
      BY <1>1, <1>2, <1>3, <2>1 DEF CommitUser
    <3> QED
      BY <3>1, <3>2, <3>3, <3>4
  <2> QED
    BY <2>2 DEF Person
<1>7. /\ userCall' \in [UserCalls -> UserRequest \cup {NoUserCall}] /\ userCall'[c] = j
      /\ \A d \in UserCalls \ {c} : userCall'[d] = userCall[d]
  BY <1>5 DEF UsersInv, UsersAreShaped
<1>8. PasswordArrives'
  <2>1. /\ \A d \in UserCalls \ {c} : Resets(d)' <=> Resets(d)
        /\ Resets(c)' => Resets(c)
        /\ \A d \in UserCalls \ {c} : (UserCallIs(d, "done"))' <=> UserCallIs(d, "done")
    BY <1>1, <1>4, <1>7 DEF Resets, UserCallIs
  <2>2. \A d, e \in UserCalls : Resets(d)' /\ Resets(e)' => d = e
    BY <2>1 DEF UsersInv, PasswordArrives
  <2>3. CASE body.reset
    <3>1. Resets(c) /\ k.op = "reset"
      BY <1>1, <1>2, <2>3 DEF Resets
    <3>2. \A d \in UserCalls \ {c} : ~Resets(d) /\ ~Resets(d)'
      BY <2>1, <3>1 DEF UsersInv, PasswordArrives
    <3>3. UserCallIs(c, "done")' /\ Resets(c)'
      BY <1>4, <1>7, <3>1, NoUserCallAssumption DEF UserCallIs, Resets
    <3>4. \A d \in UserCalls \ {c} : UserCallIs(d, "done") => userCall[d].password = NoUserCall
      BY <3>2 DEF UsersInv, PasswordArrives
    <3>5. \A d \in UserCalls : (UserCallIs(d, "done"))' =>
            userCall'[d].password = IF Resets(d)' THEN latest ELSE NoUserCall
      BY <1>4, <1>7, <2>1, <2>3, <3>2, <3>3, <3>4
    <3> QED
      BY <1>5, <1>6, <2>2, <3>3, <3>5 DEF PasswordArrives
  <2>4. CASE ~body.reset
    <3>1. ~Resets(c) /\ ~Resets(c)' /\ latest = newPasswords /\ ~UserCallIs(c, "done")
      BY <1>1, <1>2, <1>3, <2>1, <2>4 DEF Resets, UserCallIs
    <3>2. \A d \in UserCalls : (UserCallIs(d, "done"))' =>
            userCall'[d].password = IF Resets(d)' THEN newPasswords ELSE NoUserCall
      BY <1>4, <1>7, <2>1, <2>4, <3>1 DEF UsersInv, PasswordArrives
    <3> QED
      BY <1>5, <1>6, <2>1, <2>2, <3>1, <3>2 DEF UsersInv, PasswordArrives
  <2> QED
    BY <2>3, <2>4
<1> QED
  BY <1>4, <1>5, <1>6, <1>7, <1>8 DEF UsersInv, UsersAreShaped

LEMMA EndOfRequestKeepsUsers ==
  ASSUME UsersInv, NEW c \in UserCalls, RefuseUser(c) \/ AnswerUser(c)
  PROVE  UsersInv'
<1>1. PICK k \in UserRequest : k = userCall[c] /\ k # NoUserCall
  BY DEF RefuseUser, AnswerUser, UserCallIs, UsersInv, UsersAreShaped
<1>2. /\ person' = person /\ openQueues' = openQueues /\ newPasswords' = newPasswords
      /\ userCall' = [userCall EXCEPT ![c] = NoUserCall]
  BY DEF RefuseUser, AnswerUser, InUserDatabase
<1>3. /\ userCall' \in [UserCalls -> UserRequest \cup {NoUserCall}] /\ userCall'[c] = NoUserCall
      /\ \A d \in UserCalls \ {c} : userCall'[d] = userCall[d]
  BY <1>2 DEF UsersInv, UsersAreShaped
<1>4. PICK p \in UserPage : p = userPage /\ OnlyEditsDiffer(p.values, p.opened, p.edited)
  BY DEF UsersInv, UsersAreShaped
<1>5. /\ ~Resets(c)' /\ ~(UserCallIs(c, "done"))'
      /\ \A d \in UserCalls \ {c} : (Resets(d)' <=> Resets(d))
            /\ ((UserCallIs(d, "done"))' <=> UserCallIs(d, "done"))
  BY <1>3 DEF Resets, UserCallIs
<1>6. CASE RefuseUser(c)
  <2>1. userPage' = userPage /\ ~UserCallIs(c, "done")
    BY <1>6 DEF RefuseUser, UserCallIs
  <2>2. PasswordArrives'
    BY <1>2, <1>3, <1>5, <2>1 DEF UsersInv, PasswordArrives
  <2> QED
    BY <1>2, <1>3, <2>1, <2>2 DEF UsersInv, UsersAreShaped
<1>7. CASE AnswerUser(c)
  <2>1. PICK shown \in Nat \cup {NoUserCall} :
          /\ shown = Given(k.password, p.password) /\ k.at = "done"
          /\ k.password = IF Resets(c) THEN newPasswords ELSE NoUserCall
    BY <1>1, <1>7 DEF Given, UserPage, UserRequest, UsersInv, PasswordArrives, AnswerUser, UserCallIs
  <2>2. /\ userPage' \in UserPage /\ userPage'.password = shown
        /\ OnlyEditsDiffer(userPage'.values, userPage'.opened, userPage'.edited)
    <3>1. PICK isOpen \in BOOLEAN : isOpen = (k.op = "reset" /\ p.isOpen)
      BY DEF UserPage
    <3>2. userPage' = [p EXCEPT !.isOpen = isOpen, !.password = shown]
      BY <1>1, <1>4, <1>7, <2>1, <3>1 DEF AnswerUser
    <3> QED
      BY <1>4, <3>2 DEF UserPage, OnlyEditsDiffer
  <2>3. shown # NoUserCall =>
          \/ shown = newPasswords
          \/ \E d \in UserCalls : (UserCallIs(d, "done"))' /\ Resets(d)'
    <3>1. CASE Resets(c)
      BY <2>1, <3>1, NoUserCallAssumption DEF Given, UsersInv, UsersAreShaped
    <3>2. CASE ~Resets(c)
      <4>1. shown = p.password
        BY <2>1, <3>2 DEF Given
      <4>2. \A d \in UserCalls : UserCallIs(d, "done") /\ Resets(d) => (UserCallIs(d, "done"))' /\ Resets(d)'
        BY <1>5, <3>2
      <4> QED
        BY <1>4, <4>1, <4>2 DEF UsersInv, PasswordArrives
    <3> QED
      BY <3>1, <3>2
  <2>4. PasswordArrives'
    BY <1>2, <1>3, <1>5, <2>2, <2>3 DEF UsersInv, PasswordArrives
  <2> QED
    BY <1>2, <1>3, <2>2, <2>4 DEF UsersInv, UsersAreShaped
<1> QED
  BY <1>6, <1>7

LEMMA ElsewhereKeepsUsers ==
  ASSUME UsersInv, ElsewhereInUsers
  PROVE  UsersInv'
<1>1. PICK r \in Person : r = person
  BY DEF UsersInv, UsersAreShaped
<1>2. person' \in Person /\ person'.password = person.password
  BY <1>1 DEF ElsewhereInUsers, Person
<1>3. openQueues' \subseteq UserQueues
  BY DEF ElsewhereInUsers, UsersInv, UsersAreShaped
<1> QED
  BY <1>2, <1>3 DEF ElsewhereInUsers, UsersInv, UsersAreShaped, PasswordArrives, Resets, UserCallIs

LEMMA StepKeepsUsers ==
  ASSUME UsersInv, [UserNext]_userVars
  PROVE  UsersInv'
<1>1. CASE UNCHANGED userVars
  BY <1>1 DEF userVars, UsersInv, UsersAreShaped, PasswordArrives, Resets, UserCallIs
<1> QED
  BY <1>1, PageStepKeepsUsers, SendStepKeepsUsers, CommitKeepsUsers, EndOfRequestKeepsUsers,
     ElsewhereKeepsUsers DEF UserNext

LEMMA UsersAreTruthful ==
  ASSUME UsersInv
  PROVE  UserPagesTypeOK /\ ShownPasswordWorks
<1>1. UserPagesTypeOK
  BY DEF UsersInv, UsersAreShaped, UserPagesTypeOK, UserPage
<1>2. ShownPasswordWorks
  BY DEF UsersInv, PasswordArrives, ShownPasswordWorks, UserCallIs
<1> QED
  BY <1>1, <1>2

(* Only its commit takes a request from sent to done.                      *)
LEMMA OnlyCommitDoes ==
  ASSUME UsersInv, [UserNext]_userVars, NEW c \in UserCalls,
         UserCallIs(c, "sent"), (UserCallIs(c, "done"))'
  PROVE  CommitUser(c)
<1>1. userCall \in [UserCalls -> UserRequest \cup {NoUserCall}]
  BY DEF UsersInv, UsersAreShaped
<1>2. userCall'[c] # userCall[c] /\ userCall[c] # NoUserCall /\ userCall'[c] # NoUserCall
  BY DEF UserCallIs
<1>3. PICK d \in UserCalls :
        SaveUser(d) \/ ChangeRole(d) \/ TickQueue(d) \/ IssuePassword(d)
          \/ CommitUser(d) \/ RefuseUser(d) \/ AnswerUser(d)
  BY <1>2 DEF UserNext, userVars, OpenUser, EditUser, CloseUser, RefreshUser, ElsewhereInUsers
<1>4. ASSUME NEW op, NEW body, NEW base, SendUser(d, op, body, base) PROVE FALSE
  BY <1>1, <1>2, <1>4 DEF SendUser
<1>5. CASE RefuseUser(d) \/ AnswerUser(d)
  BY <1>1, <1>2, <1>5 DEF RefuseUser, AnswerUser
<1>6. CASE CommitUser(d)
  BY <1>1, <1>2, <1>6 DEF CommitUser
<1> QED
  BY <1>3, <1>4, <1>5, <1>6 DEF SaveUser, ChangeRole, TickQueue, IssuePassword

LEMMA RequestsStayMeant ==
  ASSUME UsersInv, [UserNext]_userVars
  PROVE  RequestsChangeWhatWasMeant
<1> SUFFICES ASSUME NEW c \in UserCalls, UserCallIs(c, "sent"), (UserCallIs(c, "done"))'
             PROVE
        /\ userCall[c].op = "dialog" => \A f \in UserFields \ userCall[c].edited :
             person'[f] \in {person[f], userCall[c].base[f]}
        /\ userCall[c].op = "queues" /\ userCall[c].base.agentOf = person.agentOf =>
             /\ Cardinality((person'.agentOf \ person.agentOf)
                              \cup (person.agentOf \ person'.agentOf)) = 1
             /\ FormOf(person') = FormOf(person) /\ person'.adminOf = person.adminOf
        /\ userCall[c].body.role = "USER" => person'.agentOf \cup person'.adminOf = {}
  BY DEF RequestsChangeWhatWasMeant
<1>1. CommitUser(c)
  BY OnlyCommitDoes
<1>2. PICK k \in UserRequest : k = userCall[c] /\ UserRequestIsMeant(k)
  BY <1>1 DEF CommitUser, UserCallIs, UsersInv, UsersAreShaped
<1>3. PICK body \in UserBody : body = k.body
  BY DEF UserRequest
<1>4. PICK r \in Person : r = person
  BY DEF UsersInv, UsersAreShaped
<1>5. /\ person'.role = Given(body.role, r.role)
      /\ person'.active = Given(body.active, r.active)
      /\ person'.agentOf = IF body.role = "USER" THEN {} ELSE Given(body.queues, r.agentOf)
      /\ person'.adminOf = AdminOfAfter(body, r)
  BY <1>1, <1>2, <1>3, <1>4 DEF CommitUser
<1>6. ASSUME k.op = "dialog", NEW f \in UserFields \ k.edited
      PROVE  person'[f] \in {r[f], k.base[f]}
  <2>1. body[f] = k.base[f]
    BY <1>2, <1>3, <1>6 DEF UserRequestIsMeant, OnlyEditsDiffer
  <2> QED
    BY <1>5, <1>6, <2>1 DEF Given, UserFields
<1>7. ASSUME k.op = "queues", k.base.agentOf = r.agentOf
      PROVE  /\ Cardinality((person'.agentOf \ r.agentOf) \cup (r.agentOf \ person'.agentOf)) = 1
             /\ FormOf(person') = FormOf(r) /\ person'.adminOf = r.adminOf
  <2>1. PICK q \in UserQueues :
          body.queues = IF q \in r.agentOf THEN r.agentOf \ {q} ELSE r.agentOf \cup {q}
    BY <1>2, <1>3, <1>7 DEF UserRequestIsMeant
  <2>2. body.role = NoUserCall /\ body.active = NoUserCall
    BY <1>2, <1>3, <1>7 DEF UserRequestIsMeant
  <2>3. NoUserCall # "USER"
    BY NoUserCallAssumption DEF StaffRole
  <2>4. body.queues \in SUBSET UserQueues
    BY <2>1 DEF Person
  <2>5. body.queues # NoUserCall
    BY <2>4, NoUserCallAssumption
  <2>6. /\ person'.role = r.role /\ person'.active = r.active /\ person'.adminOf = r.adminOf
        /\ person'.agentOf = body.queues
    BY <1>5, <2>2, <2>3, <2>5 DEF Given, AdminOfAfter
  <2>7. (person'.agentOf \ r.agentOf) \cup (r.agentOf \ person'.agentOf) = {q}
    BY <2>1, <2>6
  <2>8. FormOf(person') = FormOf(r)
    BY <2>6 DEF FormOf, UserFields
  <2> QED
    BY <2>6, <2>7, <2>8, FS_Singleton
<1>8. body.role = "USER" => person'.agentOf \cup person'.adminOf = {}
  BY <1>5 DEF AdminOfAfter
<1> QED
  BY <1>2, <1>3, <1>4, <1>6, <1>7, <1>8

-----------------------------------------------------------------------------
DeptPage ==
  [rows : [Depts -> DeptRow \cup {NoDept}], people : SUBSET Deputies, isOpen : BOOLEAN,
   editing : Depts \cup {NoDept}, opened : DeptRow, values : DeptRow, edited : SUBSET DeptField]
DeptSave ==
  [at : {"sent", "judged", "stored"}, id : Depts \cup {NoDept}, body : DeptRow,
   edited : SUBSET DeptField, opened : DeptRow]

(* Fields of a dialog that were not edited are those it was opened with.   *)
OthersAreAsOpened(values, opened, edited) ==
  \A f \in DeptField \ edited : values[f] = opened[f]

DeptsInv ==
  /\ dept \in [Depts -> DeptRow \cup {NoDept}]
  /\ eligible \subseteq Deputies /\ activeForms \subseteq DeptForms /\ filedIn \subseteq Depts
  /\ deptPage \in DeptPage /\ deptSave \in DeptSave \cup {NoDept}
  /\ OthersAreAsOpened(deptPage.values, deptPage.opened, deptPage.edited)
  /\ deptSave # NoDept => OthersAreAsOpened(deptSave.body, deptSave.opened, deptSave.edited)

LEMMA DeptsInitIsSound == DeptsInit => DeptsInv
BY DeptsAssumption
   DEF DeptsInit, DeptsInv, DeptPage, NewDept, DeptRow, OthersAreAsOpened

(* A step on the page alone.                                               *)
LEMMA PageStepKeepsDepts ==
  ASSUME DeptsInv, OnDeptPage, deptSave' = deptSave,
         deptPage' \in DeptPage,
         OthersAreAsOpened(deptPage'.values, deptPage'.opened, deptPage'.edited)
  PROVE  DeptsInv'
BY DEF DeptsInv, OnDeptPage

LEMMA DialogKeepsDepts ==
  ASSUME DeptsInv,
         \/ \E d \in Depts : OpenDept(d)
         \/ OpenNewDept \/ CloseDept \/ EditDept \/ RefreshDepts
  PROVE  DeptsInv'
<1>1. PICK p \in DeptPage : p = deptPage /\ OthersAreAsOpened(p.values, p.opened, p.edited)
  BY DEF DeptsInv
<1> SUFFICES /\ deptPage' \in DeptPage
             /\ OthersAreAsOpened(deptPage'.values, deptPage'.opened, deptPage'.edited)
  BY PageStepKeepsDepts DEF OpenDept, OpenNewDept, CloseDept, EditDept, RefreshDepts
<1>2. ASSUME NEW d \in Depts, OpenDept(d)
      PROVE  /\ deptPage' \in DeptPage
             /\ OthersAreAsOpened(deptPage'.values, deptPage'.opened, deptPage'.edited)
  <2>1. PICK row \in DeptRow : row = p.rows[d]
    BY <1>1, <1>2 DEF OpenDept, DeptPage
  <2>2. deptPage' = [p EXCEPT !.isOpen = TRUE, !.editing = d, !.values = row,
                       !.opened = row, !.edited = {}]
    BY <1>1, <1>2, <2>1 DEF OpenDept, ValuesOf
  <2> QED
    BY <2>2 DEF DeptPage, OthersAreAsOpened
<1>3. CASE OpenNewDept
  <2>1. NewDept \in DeptRow
    BY DEF NewDept, DeptRow
  <2>2. deptPage' = [p EXCEPT !.isOpen = TRUE, !.editing = NoDept, !.values = NewDept,
                       !.opened = NewDept, !.edited = {}]
    BY <1>1, <1>3 DEF OpenNewDept
  <2> QED
    BY <2>1, <2>2 DEF DeptPage, OthersAreAsOpened
<1>4. CASE CloseDept
  BY <1>1, <1>4 DEF CloseDept, DeptPage, OthersAreAsOpened
<1>5. CASE RefreshDepts
  BY <1>1, <1>5 DEF RefreshDepts, DeptPage, OthersAreAsOpened, DeptsInv
<1>6. CASE EditDept
  <2>1. ASSUME NEW row \in DeptRow, NEW f \in DeptField,
               \A g \in DeptField \ {f} : row[g] = p.values[g],
               deptPage' = [p EXCEPT !.values = row, !.edited = p.edited \cup {f}]
        PROVE  /\ deptPage' \in DeptPage
               /\ OthersAreAsOpened(deptPage'.values, deptPage'.opened, deptPage'.edited)
    BY <1>1, <2>1 DEF DeptPage, OthersAreAsOpened
  <2>2. PICK v \in DeptRow : v = p.values
    BY DEF DeptPage
  <2>3. CASE deptPage' = [deptPage EXCEPT !.values.info = 1 - @, !.edited = @ \cup {"info"}]
    <3>0. PICK n \in 0..1 : n = 1 - v.info
      BY DEF DeptRow
    <3>1. PICK row \in DeptRow : row = [v EXCEPT !.info = n]
      BY DEF DeptRow
    <3>2. deptPage' = [p EXCEPT !.values = row, !.edited = p.edited \cup {"info"}]
      BY <1>1, <2>2, <2>3, <3>0, <3>1 DEF DeptPage
    <3>3. row.form = v.form /\ row.admins = v.admins
      BY <3>1 DEF DeptRow
    <3> QED
      BY <2>1, <2>2, <3>2, <3>3 DEF DeptField
  <2>4. ASSUME NEW form \in DeptForms \cup {NoDept},
               deptPage' = [deptPage EXCEPT !.values.form = form, !.edited = @ \cup {"form"}]
        PROVE  /\ deptPage' \in DeptPage
               /\ OthersAreAsOpened(deptPage'.values, deptPage'.opened, deptPage'.edited)
    <3>1. PICK row \in DeptRow : row = [v EXCEPT !.form = form]
      BY DEF DeptRow
    <3>2. deptPage' = [p EXCEPT !.values = row, !.edited = p.edited \cup {"form"}]
      BY <1>1, <2>2, <2>4, <3>1 DEF DeptPage
    <3>3. row.info = v.info /\ row.admins = v.admins
      BY <3>1 DEF DeptRow
    <3> QED
      BY <2>1, <2>2, <3>2, <3>3 DEF DeptField
  <2>5. ASSUME NEW u \in deptPage.people,
               deptPage' = [deptPage EXCEPT
                 !.values.admins = IF u \in @ THEN @ \ {u} ELSE @ \cup {u},
                 !.edited = @ \cup {"admins"}]
        PROVE  /\ deptPage' \in DeptPage
               /\ OthersAreAsOpened(deptPage'.values, deptPage'.opened, deptPage'.edited)
    <3>1. PICK admins \in SUBSET Deputies :
            admins = IF u \in v.admins THEN v.admins \ {u} ELSE v.admins \cup {u}
      BY <1>1, <2>5 DEF DeptRow, DeptPage
    <3>2. PICK row \in DeptRow : row = [v EXCEPT !.admins = admins]
      BY DEF DeptRow
    <3>3. deptPage' = [p EXCEPT !.values = row, !.edited = p.edited \cup {"admins"}]
      BY <1>1, <2>2, <2>5, <3>1, <3>2 DEF DeptPage
    <3>4. row.info = v.info /\ row.form = v.form
      BY <3>2 DEF DeptRow
    <3> QED
      BY <2>1, <2>2, <3>3, <3>4 DEF DeptField
  <2> QED
    BY <1>6, <2>3, <2>4, <2>5 DEF EditDept
<1> QED
  BY <1>2, <1>3, <1>4, <1>5, <1>6

LEMMA SaveKeepsDepts ==
  ASSUME DeptsInv, SaveDept \/ JudgeDept \/ CommitDept \/ DeptSaved \/ DeptRefused
  PROVE  DeptsInv'
<1>1. PICK p \in DeptPage : p = deptPage /\ OthersAreAsOpened(p.values, p.opened, p.edited)
  BY DEF DeptsInv
<1>2. CASE SaveDept
  <2>1. PICK k \in DeptSave : k = [at |-> "sent", id |-> p.editing, body |-> p.values,
                                   edited |-> p.edited, opened |-> p.opened]
    BY DEF DeptPage, DeptSave
  <2>2. deptSave' = k /\ OthersAreAsOpened(k.body, k.opened, k.edited)
    BY <1>1, <1>2, <2>1 DEF SaveDept
  <2> QED
    BY <1>2, <2>2 DEF SaveDept, DeptsInv, OnDeptPage
<1>3. CASE JudgeDept \/ CommitDept
  <2>1. PICK k \in DeptSave : k = deptSave /\ OthersAreAsOpened(k.body, k.opened, k.edited)
    BY <1>3 DEF JudgeDept, CommitDept, DeptIs, DeptsInv
  <2>2. PICK at \in {"judged", "stored"} : deptSave' = [k EXCEPT !.at = at]
    BY <1>3, <2>1 DEF JudgeDept, CommitDept
  <2>3. /\ deptSave' \in DeptSave
        /\ OthersAreAsOpened(deptSave'.body, deptSave'.opened, deptSave'.edited)
    BY <2>1, <2>2 DEF DeptSave
  <2>4. k.body \in DeptRow
    BY DEF DeptSave
  <2>5. dept' \in [Depts -> DeptRow \cup {NoDept}]
    BY <1>3, <2>1, <2>4 DEF JudgeDept, CommitDept, OnDeptPage, DeptsInv
  <2> QED
    BY <1>3, <2>3, <2>5 DEF JudgeDept, CommitDept, OnDeptPage, DeptsInv
<1>4. CASE DeptSaved
  <2>1. deptPage' = [p EXCEPT !.rows = dept, !.isOpen = FALSE]
    BY <1>1, <1>4 DEF DeptSaved
  <2>2. /\ deptPage' \in DeptPage
        /\ OthersAreAsOpened(deptPage'.values, deptPage'.opened, deptPage'.edited)
    BY <1>1, <2>1 DEF DeptPage, OthersAreAsOpened, DeptsInv
  <2> QED
    BY <1>4, <2>2 DEF DeptSaved, OnDeptPage, DeptsInv
<1>5. CASE DeptRefused
  BY <1>5 DEF DeptRefused, OnDeptPage, DeptsInv
<1> QED
  BY <1>2, <1>3, <1>4, <1>5

LEMMA OthersKeepDepts ==
  ASSUME DeptsInv,
         \/ \E d \in Depts : DeleteDept(d) \/ SaveDeptElsewhere(d)
         \/ \E u \in Deputies, d \in Depts : AssignDeptForm(u, d)
         \/ ElsewhereInDepts
  PROVE  DeptsInv'
<1>1. ASSUME NEW d \in Depts, NEW row \in DeptRow \cup {NoDept}, dept' = [dept EXCEPT ![d] = row],
             UNCHANGED <<eligible, activeForms, filedIn, deptPage, deptSave>>
      PROVE  DeptsInv'
  BY <1>1 DEF DeptsInv
<1>2. ASSUME NEW d \in Depts, DeleteDept(d) PROVE DeptsInv'
  BY <1>1, <1>2 DEF DeleteDept
<1>3. ASSUME NEW d \in Depts, SaveDeptElsewhere(d) PROVE DeptsInv'
  <2>1. PICK r \in DeptRow : r = dept[d]
    BY <1>3 DEF SaveDeptElsewhere, DeptsInv
  <2>2. PICK a \in SUBSET Deputies : dept' = [dept EXCEPT ![d].admins = a, ![d].info = 1 - @]
    BY <1>3 DEF SaveDeptElsewhere, DeptsInv
  <2>5. PICK n \in 0..1 : n = 1 - r.info
    BY DEF DeptRow
  <2>3. PICK row \in DeptRow : row = [r EXCEPT !.admins = a, !.info = n]
    BY DEF DeptRow
  <2>4. dept' = [dept EXCEPT ![d] = row]
    BY <2>1, <2>2, <2>3, <2>5 DEF DeptsInv, DeptRow
  <2> QED
    BY <1>1, <1>3, <2>4 DEF SaveDeptElsewhere
<1>4. ASSUME NEW u \in Deputies, NEW d \in Depts, AssignDeptForm(u, d) PROVE DeptsInv'
  <2>1. PICK r \in DeptRow : r = dept[d]
    BY <1>4 DEF AssignDeptForm, DeptsInv
  <2>2. PICK f \in DeptForms \cup {NoDept} : dept' = [dept EXCEPT ![d].form = f]
    BY <1>4 DEF AssignDeptForm, DeptsInv
  <2>3. PICK row \in DeptRow : row = [r EXCEPT !.form = f]
    BY DEF DeptRow
  <2>4. dept' = [dept EXCEPT ![d] = row]
    BY <2>1, <2>2, <2>3 DEF DeptsInv
  <2> QED
    BY <1>1, <1>4, <2>4 DEF AssignDeptForm
<1>5. CASE ElsewhereInDepts
  BY <1>5 DEF ElsewhereInDepts, DeptsInv
<1> QED
  BY <1>2, <1>3, <1>4, <1>5

LEMMA StepKeepsDepts ==
  ASSUME DeptsInv, [DeptsNext]_deptVars
  PROVE  DeptsInv'
<1>1. CASE UNCHANGED deptVars
  BY <1>1 DEF deptVars, DeptsInv
<1> QED
  BY <1>1, DialogKeepsDepts, SaveKeepsDepts, OthersKeepDepts DEF DeptsNext

LEMMA DeptsAreTyped ==
  ASSUME DeptsInv
  PROVE  DeptsTypeOK
BY DEF DeptsInv, DeptsTypeOK, DeptPage

LEMMA DialogsStayMeant ==
  ASSUME DeptsInv, [DeptsNext]_deptVars
  PROVE  DialogChangesWhatWasEdited
<1> SUFFICES ASSUME NEW d \in Depts, NEW f \in DeptField, DeptIs("judged"), (DeptIs("stored"))',
                    d = deptSave.id, f \notin deptSave.edited
             PROVE  dept'[d][f] \in {dept[d][f], deptSave.opened[f]}
  BY DEF DialogChangesWhatWasEdited
<1>1. CASE dept'[d] = dept[d]
  BY <1>1
<1>2. CASE dept'[d] = deptSave.body
  BY <1>2 DEF DeptsInv, DeptIs, OthersAreAsOpened
<1>3. CommitDept
  <2>1. deptSave # NoDept /\ deptSave' # deptSave /\ deptSave' # NoDept
    BY DEF DeptIs
  <2> QED
    BY <2>1 DEF DeptsNext, deptVars, OpenDept, OpenNewDept, CloseDept, EditDept, RefreshDepts,
       SaveDept, JudgeDept, DeptSaved, DeptRefused, ElsewhereInDepts, DeleteDept,
       SaveDeptElsewhere, AssignDeptForm, DeptIs
<1> QED
  BY <1>1, <1>2, <1>3 DEF CommitDept, DeptsInv

-----------------------------------------------------------------------------
KindPage ==
  [rows : [Kinds -> KindRow \cup {NoKind}], filter : KindQueues, isOpen : BOOLEAN,
   editing : Kinds \cup {NoKind}, opened : KindValues, values : KindValues,
   edited : SUBSET KindField]
KindSave ==
  [at : {"sent", "judged", "stored"}, id : Kinds \cup {NoKind}, body : KindValues,
   edited : SUBSET KindField, opened : KindValues, counted : SUBSET Filings]

(* A ticket that is being filed has the department of its category like    *)
(* one that is; and a save that was judged leaves the category with the    *)
(* tickets that it counted and that are still there.                       *)
InKind(f) ==
  \A t \in Filings : f[t] # NoKind /\ ~f[t].raced =>
    kind[f[t].kind] # NoKind /\ f[t].queue = kind[f[t].kind].queueId
CountedStay ==
  KindIs("judged") /\ kindSave.id # NoKind =>
    LET k == kindSave.id IN
      kind[k] # NoKind /\ kindSave.counted \cap FiledUnder(k) # {} =>
        kindSave.body.queueId = kind[k].queueId
KindsInv ==
  /\ kind \in [Kinds -> KindRow \cup {NoKind}] /\ kindForms \subseteq KindForms
  /\ filed \in [Filings -> Filed \cup {NoKind}] /\ filing \in [Filings -> Filed \cup {NoKind}]
  /\ kindPage \in KindPage /\ kindSave \in KindSave \cup {NoKind}
  /\ \A k \in Kinds : kind[k] # NoKind => kind[k].archivedAt = ~kind[k].isActive
  /\ InKind(filed) /\ InKind(filing) /\ CountedStay

LEMMA OfRowIsValues ==
  ASSUME NEW row \in KindRow
  PROVE  OfRow(row) \in KindValues
BY DEF OfRow, KindRow, KindValues, KindField

LEMMA KindsInitIsSound == KindsInit => KindsInv
<1> SUFFICES ASSUME KindsInit PROVE KindsInv
  OBVIOUS
<1>1. FirstKind \in KindRow /\ FirstKind.archivedAt = FALSE /\ FirstKind.isActive = TRUE
  BY KindsAssumption DEF FirstKind, KindRow
<1>2. OfRow(FirstKind) \in KindValues
  BY <1>1, OfRowIsValues
<1>3. kind \in [Kinds -> KindRow \cup {NoKind}] /\ \A k \in Kinds : kind[k] \in {FirstKind, NoKind}
  BY <1>1 DEF KindsInit
<1>4. kindPage \in KindPage
  BY <1>2, <1>3, KindsAssumption DEF KindsInit, KindPage
<1> QED
  BY <1>1, <1>3, <1>4 DEF KindsInit, KindsInv, KindIs, InKind, CountedStay

(* The dialog: a step on the page alone.                                   *)
LEMMA DialogKeepsKinds ==
  ASSUME KindsInv,
         \/ \E k \in Kinds, restore \in BOOLEAN : OpenKind(k, restore)
         \/ OpenNewKind \/ CloseKind \/ EditKind \/ RefreshKinds
  PROVE  KindsInv'
<1>1. PICK p \in KindPage : p = kindPage
  BY DEF KindsInv
<1>2. OnKindPage /\ kindSave' = kindSave
  BY DEF OpenKind, OpenNewKind, CloseKind, EditKind, RefreshKinds
<1>3. kindPage' \in KindPage
  <2>1. ASSUME NEW k \in Kinds, NEW restore \in BOOLEAN, OpenKind(k, restore)
        PROVE  kindPage' \in KindPage
    <3>1. PICK row \in KindValues : row = OfRow(kindPage.rows[k])
      BY <1>1, <2>1, OfRowIsValues DEF OpenKind, KindPage
    <3>2. PICK values \in KindValues :
            values = IF restore THEN [row EXCEPT !.isActive = TRUE] ELSE row
      BY DEF KindValues
    <3>3. kindPage' = [p EXCEPT !.isOpen = TRUE, !.editing = k, !.opened = row,
                         !.values = values, !.edited = IF restore THEN {"isActive"} ELSE {}]
      BY <1>1, <2>1, <3>1, <3>2 DEF OpenKind
    <3> QED
      BY <3>3 DEF KindPage, KindField
  <2>2. CASE OpenNewKind
    <3>1. PICK new \in KindValues :
            new = [queueId |-> p.filter, templateId |-> NoKind, isActive |-> TRUE]
      BY DEF KindPage, KindValues
    <3>2. kindPage' = [p EXCEPT !.isOpen = TRUE, !.editing = NoKind, !.opened = new,
                         !.values = new, !.edited = {}]
      BY <1>1, <2>2, <3>1 DEF OpenNewKind
    <3> QED
      BY <3>2 DEF KindPage
  <2>3. CASE CloseKind
    BY <1>1, <2>3 DEF CloseKind, KindPage
  <2>4. CASE RefreshKinds
    BY <1>1, <2>4 DEF RefreshKinds, KindPage, KindsInv
  <2>5. CASE EditKind
    <3>1. PICK v \in KindValues, f \in KindField :
            kindPage' = [p EXCEPT !.values = v, !.edited = @ \cup {f}]
      BY <1>1, <2>5 DEF EditKind
    <3> QED
      BY <3>1 DEF KindPage
  <2> QED
    BY <2>1, <2>2, <2>3, <2>4, <2>5
<1> QED
  BY <1>2, <1>3 DEF KindsInv, OnKindPage, KindIs, InKind, CountedStay, FiledUnder

LEMMA SaveKeepsKinds ==
  ASSUME KindsInv, SaveKind \/ JudgeKind \/ KindSaved \/ KindRefused
  PROVE  KindsInv'
<1>1. PICK p \in KindPage : p = kindPage
  BY DEF KindsInv
<1>2. CASE SaveKind
  <2>1. PICK s \in KindSave : s = [at |-> "sent", id |-> p.editing, body |-> p.values,
                                   edited |-> p.edited, opened |-> p.opened, counted |-> {}]
    BY DEF KindPage, KindSave
  <2>2. kindSave' = s /\ s.at = "sent"
    BY <1>1, <1>2, <2>1 DEF SaveKind
  <2> QED
    BY <1>2, <2>2 DEF SaveKind, KindsInv, OnKindPage, KindIs, InKind, CountedStay
<1>3. CASE JudgeKind
  <2>1. PICK s \in KindSave : s = kindSave
    BY <1>3 DEF JudgeKind, KindIs, KindsInv
  <2>2. PICK counted \in SUBSET Filings :
          counted = IF s.id = NoKind THEN {} ELSE FiledUnder(s.id)
    BY DEF FiledUnder
  <2>3. PICK t \in KindSave : t = [s EXCEPT !.at = "judged", !.counted = counted]
    BY DEF KindSave
  <2>4. kindSave' = t /\ t.id = s.id /\ t.body = s.body /\ t.counted = counted
    BY <1>3, <2>1, <2>2, <2>3 DEF JudgeKind, KindSave
  <2>5. t.id # NoKind /\ FiledUnder(t.id) # {} => t.body.queueId = kind[t.id].queueId
    BY <1>3, <2>1, <2>4 DEF JudgeKind, MayMove
  <2>6. UNCHANGED <<kind, filed, filing, kindForms, kindPage>>
    BY <1>3 DEF JudgeKind, OnKindPage
  <2>7. t.id # NoKind /\ FiledUnder(t.id)' # {} => t.body.queueId = kind[t.id].queueId
    BY <2>5, <2>6 DEF FiledUnder
  <2>8. CountedStay'
    BY <2>4, <2>6, <2>7 DEF CountedStay
  <2> QED
    BY <2>4, <2>6, <2>8 DEF KindsInv, InKind
<1>4. CASE KindSaved
  <2>1. kindPage' \in KindPage
    BY <1>1, <1>4 DEF KindSaved, KindPage, KindsInv
  <2> QED
    BY <1>4, <2>1 DEF KindSaved, KindsInv, OnKindPage, KindIs, InKind, CountedStay
<1>5. CASE KindRefused
  BY <1>5 DEF KindRefused, KindsInv, OnKindPage, KindIs, InKind, CountedStay
<1> QED
  BY <1>2, <1>3, <1>4, <1>5

(* The marks: who was counted keeps what he had.                           *)
LEMMA Racing ==
  ASSUME NEW f \in [Filings -> Filed \cup {NoKind}], NEW k \in Kinds,
         NEW counted \in SUBSET Filings, NEW t \in Filings
  PROVE  /\ Raced(f, k, counted) \in [Filings -> Filed \cup {NoKind}]
         /\ Raced(f, k, counted)[t] # NoKind <=> f[t] # NoKind
         /\ f[t] # NoKind => /\ Raced(f, k, counted)[t].kind = f[t].kind
                            /\ Raced(f, k, counted)[t].queue = f[t].queue
         /\ f[t] # NoKind /\ ~Raced(f, k, counted)[t].raced =>
              ~f[t].raced /\ ~(f[t].kind = k /\ t \notin counted)
<1>1. ASSUME NEW u \in Filings, f[u] # NoKind
      PROVE  /\ [f[u] EXCEPT !.raced = TRUE] \in Filed
             /\ [f[u] EXCEPT !.raced = TRUE].kind = f[u].kind
             /\ [f[u] EXCEPT !.raced = TRUE].queue = f[u].queue
             /\ [f[u] EXCEPT !.raced = TRUE].raced = TRUE
  BY <1>1 DEF Filed
<1>2. \A u \in Filings : Raced(f, k, counted)[u] =
        IF f[u] # NoKind /\ f[u].kind = k /\ u \notin counted THEN [f[u] EXCEPT !.raced = TRUE]
                                                          ELSE f[u]
  BY DEF Raced
<1>3. \A u \in Filings : Raced(f, k, counted)[u] \in Filed \cup {NoKind}
  BY <1>1, <1>2
<1>4. Raced(f, k, counted) \in [Filings -> Filed \cup {NoKind}]
  BY <1>2, <1>3 DEF Raced
<1> QED
  BY <1>1, <1>2, <1>4, KindsAssumption

(* A row that takes the place of another: its tickets stay, unless they    *)
(* were not counted.                                                       *)
LEMMA MovingKeepsKinds ==
  ASSUME KindsInv, NEW k \in Kinds, NEW row \in KindRow, NEW counted \in SUBSET Filings,
         kind' = [kind EXCEPT ![k] = row], row.archivedAt = ~row.isActive,
         MoveKind(k, row.queueId, counted),
         kind[k] # NoKind /\ counted \cap FiledUnder(k) # {} => row.queueId = kind[k].queueId
  PROVE  /\ kind' \in [Kinds -> KindRow \cup {NoKind}]
         /\ filed' \in [Filings -> Filed \cup {NoKind}]
         /\ filing' \in [Filings -> Filed \cup {NoKind}]
         /\ \A j \in Kinds : kind'[j] # NoKind => kind'[j].archivedAt = ~kind'[j].isActive
         /\ InKind(filed)' /\ InKind(filing)'
         /\ \A j \in Kinds : FiledUnder(j)' = FiledUnder(j)
<1>1. /\ kind' \in [Kinds -> KindRow \cup {NoKind}] /\ kind'[k] = row /\ row # NoKind
      /\ \A j \in Kinds \ {k} : kind'[j] = kind[j]
      /\ \A j \in Kinds : kind'[j] # NoKind => kind'[j].archivedAt = ~kind'[j].isActive
  BY KindsAssumption DEF KindsInv
<1>2. CASE kind[k] # NoKind /\ row.queueId # kind[k].queueId
  <2>1. filed' = Raced(filed, k, counted) /\ filing' = Raced(filing, k, {})
    BY <1>2 DEF MoveKind
  <2>2. counted \cap FiledUnder(k) = {}
    BY <1>2
  <2>3. /\ filed \in [Filings -> Filed \cup {NoKind}]
        /\ filing \in [Filings -> Filed \cup {NoKind}]
        /\ InKind(filed) /\ InKind(filing) /\ {} \in SUBSET Filings
    BY DEF KindsInv
  <2>4. \A t \in Filings : /\ filed'[t] # NoKind <=> filed[t] # NoKind
                           /\ filed[t] # NoKind =>
                                filed'[t].kind = filed[t].kind /\ filed'[t].queue = filed[t].queue
    BY <2>1, <2>3, Racing
  <2>5. \A t \in Filings : filed[t] # NoKind /\ ~filed'[t].raced =>
           ~filed[t].raced /\ ~(filed[t].kind = k /\ t \notin counted)
    BY <2>1, <2>3, Racing
  <2>6. \A t \in Filings : /\ filing'[t] # NoKind <=> filing[t] # NoKind
                           /\ filing[t] # NoKind =>
                                filing'[t].kind = filing[t].kind /\ filing'[t].queue = filing[t].queue
    BY <2>1, <2>3, Racing
  <2>7. \A t \in Filings : filing[t] # NoKind /\ ~filing'[t].raced =>
           ~filing[t].raced /\ ~(filing[t].kind = k /\ t \notin {})
    BY <2>1, <2>3, Racing
  <2>8. /\ filed' \in [Filings -> Filed \cup {NoKind}]
        /\ filing' \in [Filings -> Filed \cup {NoKind}]
    <3>1. CASE Filings = {}
      BY <2>1, <2>3, <3>1 DEF Raced
    <3>2. CASE Filings # {}
      <4>1. PICK t : t \in Filings
        BY <3>2
      <4> QED
        BY <2>1, <2>3, <4>1, Racing
    <3> QED
      BY <3>1, <3>2
  <2>9. \A t \in Filings : filed[t] # NoKind => filed[t].kind \in Kinds
    BY <2>3 DEF Filed
  <2>10. \A t \in Filings : filing[t] # NoKind => filing[t].kind \in Kinds
    BY <2>3 DEF Filed
  <2>11. \A t \in Filings : filed[t] # NoKind /\ filed[t].kind = k => t \notin counted
    BY <2>2 DEF FiledUnder
  <2>12. InKind(filed)'
    <3>1. ASSUME NEW t \in Filings, filed'[t] # NoKind, ~filed'[t].raced
          PROVE  kind'[filed'[t].kind] # NoKind /\ filed'[t].queue = kind'[filed'[t].kind].queueId
      <4>1. filed[t] # NoKind /\ filed'[t].kind = filed[t].kind /\ filed'[t].queue = filed[t].queue
        BY <2>4, <3>1
      <4>2. ~filed[t].raced /\ filed[t].kind # k
        BY <2>2, <2>11, <2>5, <3>1, <4>1
      <4>3. kind[filed[t].kind] # NoKind /\ filed[t].queue = kind[filed[t].kind].queueId
        BY <2>3, <4>1, <4>2 DEF InKind
      <4>4. kind'[filed[t].kind] = kind[filed[t].kind]
        BY <1>1, <2>9, <4>1, <4>2
      <4> QED
        BY <4>1, <4>3, <4>4
    <3> QED
      BY <3>1 DEF InKind
  <2>13. InKind(filing)'
    <3>1. ASSUME NEW t \in Filings, filing'[t] # NoKind, ~filing'[t].raced
          PROVE  kind'[filing'[t].kind] # NoKind /\ filing'[t].queue = kind'[filing'[t].kind].queueId
      <4>1. filing[t] # NoKind /\ filing'[t].kind = filing[t].kind /\ filing'[t].queue = filing[t].queue
        BY <2>6, <3>1
      <4>2. ~filing[t].raced /\ filing[t].kind # k
        BY <2>7, <3>1, <4>1
      <4>3. kind[filing[t].kind] # NoKind /\ filing[t].queue = kind[filing[t].kind].queueId
        BY <2>3, <4>1, <4>2 DEF InKind
      <4>4. kind'[filing[t].kind] = kind[filing[t].kind]
        BY <1>1, <2>10, <4>1, <4>2
      <4> QED
        BY <4>1, <4>3, <4>4
    <3> QED
      BY <3>1 DEF InKind
  <2>14. \A t \in Filings, j \in Kinds :
           filed'[t] # NoKind /\ filed'[t].kind = j <=> filed[t] # NoKind /\ filed[t].kind = j
    BY <2>4
  <2>15. \A j \in Kinds : FiledUnder(j)' = FiledUnder(j)
    BY <2>14 DEF FiledUnder
  <2> QED
    BY <1>1, <2>8, <2>12, <2>13, <2>15
<1>3. CASE ~(kind[k] # NoKind /\ row.queueId # kind[k].queueId)
  <2>1. UNCHANGED <<filed, filing>>
    BY <1>3 DEF MoveKind
  <2>2. \A t \in Filings : /\ filed[t] # NoKind => filed[t].kind \in Kinds
                           /\ filing[t] # NoKind => filing[t].kind \in Kinds
    BY DEF KindsInv, Filed
  <2>3. InKind(filed)' /\ InKind(filing)'
    BY <1>1, <1>3, <2>1, <2>2 DEF KindsInv, InKind
  <2> QED
    BY <1>1, <2>1, <2>3 DEF KindsInv, FiledUnder
<1> QED
  BY <1>2, <1>3

(* The update: a row that had tickets stays where they are.                *)
LEMMA CommitKeepsKinds ==
  ASSUME KindsInv, CommitKind
  PROVE  KindsInv'
<1>1. PICK s \in KindSave : s = kindSave /\ s # NoKind /\ s.at = "judged"
  BY DEF CommitKind, KindIs, KindsInv
<1>2. PICK b \in KindValues : b = s.body
  BY DEF KindSave
<1>3. PICK row \in KindRow :
        /\ row = [queueId |-> b.queueId, templateId |-> b.templateId, isActive |-> b.isActive,
                  archivedAt |-> ~b.isActive]
        /\ row.archivedAt = ~row.isActive /\ row.queueId = b.queueId /\ row # NoKind
  <2>1. PICK archived \in BOOLEAN : archived = ~b.isActive
    BY DEF KindValues
  <2>2. PICK row \in KindRow : row = [queueId |-> b.queueId, templateId |-> b.templateId,
                                      isActive |-> b.isActive, archivedAt |-> archived]
    BY DEF KindRow, KindValues
  <2> QED
    BY <2>1, <2>2, KindsAssumption
<1>4. PICK k \in Kinds :
        /\ IF s.id = NoKind THEN kind[k] = NoKind ELSE k = s.id /\ kind[k] # NoKind
        /\ kind' = [kind EXCEPT ![k] = row]
        /\ MoveKind(k, s.body.queueId, s.counted)
  BY <1>1, <1>2, <1>3 DEF CommitKind, Archived
<1>5. PICK t \in KindSave : t = [s EXCEPT !.at = "stored"]
  BY DEF KindSave
<1>6. kindSave' = t /\ t.at = "stored" /\ kindForms' = kindForms /\ kindPage' = kindPage
  BY <1>1, <1>5 DEF CommitKind, KindSave
<1>7. s.counted \in SUBSET Filings /\ MoveKind(k, row.queueId, s.counted)
  BY <1>1, <1>2, <1>3, <1>4 DEF KindSave
<1>8. kind[k] # NoKind /\ s.counted \cap FiledUnder(k) # {} => row.queueId = kind[k].queueId
  BY <1>1, <1>2, <1>3, <1>4 DEF KindsInv, CountedStay, KindIs
<1>9. /\ kind' \in [Kinds -> KindRow \cup {NoKind}]
      /\ filed' \in [Filings -> Filed \cup {NoKind}]
      /\ filing' \in [Filings -> Filed \cup {NoKind}]
      /\ \A j \in Kinds : kind'[j] # NoKind => kind'[j].archivedAt = ~kind'[j].isActive
      /\ InKind(filed)' /\ InKind(filing)'
  BY <1>3, <1>4, <1>7, <1>8, MovingKeepsKinds
<1>10. ~KindIs("judged")'
  BY <1>6 DEF KindIs
<1> QED
  BY <1>6, <1>9, <1>10 DEF KindsInv, CountedStay

LEMMA OthersKeepKinds ==
  ASSUME KindsInv,
         \/ \E k \in Kinds :
              \/ ArchiveKind(k) \/ DeleteKind(k) \/ AssignKindForm(k) \/ MoveKindElsewhere(k)
              \/ \E t \in Filings : LookKindUp(t, k)
         \/ \E t \in Filings : FileUnder(t) \/ NotFiled(t)
         \/ ElsewhereInKinds
  PROVE  KindsInv'
<1>0. /\ kindSave # NoKind => kindSave \in KindSave /\ kindSave.id \in Kinds \cup {NoKind}
      /\ \A t \in Filings : /\ filed[t] # NoKind => filed[t].kind \in Kinds
                            /\ filing[t] # NoKind => filing[t].kind \in Kinds
  BY DEF KindsInv, KindSave, Filed
<1>1. ASSUME NEW k \in Kinds, NEW row \in KindRow, kind[k] # NoKind, kind' = [kind EXCEPT ![k] = row],
             row.archivedAt = ~row.isActive, MoveKind(k, row.queueId, FiledUnder(k)),
             FiledUnder(k) # {} => row.queueId = kind[k].queueId,
             UNCHANGED <<kindForms, kindPage, kindSave>>
      PROVE  KindsInv'
  <2>1. FiledUnder(k) \in SUBSET Filings
    BY DEF FiledUnder
  <2>2. /\ kind' \in [Kinds -> KindRow \cup {NoKind}]
        /\ filed' \in [Filings -> Filed \cup {NoKind}]
        /\ filing' \in [Filings -> Filed \cup {NoKind}]
        /\ \A j \in Kinds : kind'[j] # NoKind => kind'[j].archivedAt = ~kind'[j].isActive
        /\ InKind(filed)' /\ InKind(filing)'
        /\ \A j \in Kinds : FiledUnder(j)' = FiledUnder(j)
    BY <1>1, <2>1, MovingKeepsKinds
  <2>3. \A j \in Kinds : FiledUnder(j) # {} /\ kind'[j] # NoKind =>
          kind[j] # NoKind /\ kind'[j].queueId = kind[j].queueId
    BY <1>1 DEF KindsInv
  <2>4. CountedStay'
    BY <1>0, <1>1, <2>2, <2>3 DEF KindsInv, CountedStay, KindIs
  <2> QED
    BY <1>1, <2>2, <2>4 DEF KindsInv
<1>10. ASSUME NEW k \in Kinds, NEW row \in KindRow, row.queueId = kind[k].queueId,
              UNCHANGED <<filed, filing>>
       PROVE  MoveKind(k, row.queueId, FiledUnder(k))
  BY <1>10 DEF MoveKind
<1>2. ASSUME NEW k \in Kinds, ArchiveKind(k) PROVE KindsInv'
  <2>1. PICK r \in KindRow : r = kind[k]
    BY <1>2 DEF ArchiveKind, KindsInv
  <2>2. PICK row \in KindRow : row = [r EXCEPT !.isActive = FALSE, !.archivedAt = TRUE]
    BY DEF KindRow
  <2>3. row.queueId = r.queueId /\ row.archivedAt = TRUE /\ row.isActive = FALSE
    BY <2>2 DEF KindRow
  <2>4. kind' = [kind EXCEPT ![k] = row]
    BY <1>2, <2>1, <2>2 DEF ArchiveKind, KindsInv, KindRow
  <2> QED
    BY <1>1, <1>2, <1>10, <2>1, <2>3, <2>4 DEF ArchiveKind
<1>3. ASSUME NEW k \in Kinds, AssignKindForm(k) PROVE KindsInv'
  <2>1. PICK r \in KindRow : r = kind[k] /\ r.archivedAt = ~r.isActive
    BY <1>3 DEF AssignKindForm, KindsInv
  <2>2. PICK f \in KindForms \cup {NoKind} : kind' = [kind EXCEPT ![k].templateId = f]
    BY <1>3 DEF AssignKindForm, KindsInv
  <2>3. PICK row \in KindRow : row = [r EXCEPT !.templateId = f]
    BY DEF KindRow
  <2>4. row.queueId = r.queueId /\ row.archivedAt = r.archivedAt /\ row.isActive = r.isActive
    BY <2>3 DEF KindRow
  <2>5. kind' = [kind EXCEPT ![k] = row]
    BY <2>1, <2>2, <2>3 DEF KindsInv
  <2> QED
    BY <1>1, <1>3, <1>10, <2>1, <2>4, <2>5 DEF AssignKindForm
<1>4. ASSUME NEW k \in Kinds, DeleteKind(k) PROVE KindsInv'
  <2>1. /\ kind' \in [Kinds -> KindRow \cup {NoKind}] /\ kind'[k] = NoKind
        /\ \A j \in Kinds \ {k} : kind'[j] = kind[j]
    BY <1>4 DEF DeleteKind, KindsInv
  <2>2. /\ filing' \in [Filings -> Filed \cup {NoKind}]
        /\ \A t \in Filings : filing'[t] # NoKind => filing'[t] = filing[t] /\ filing[t].kind # k
    BY <1>4 DEF DeleteKind, KindsInv
  <2>3. UNCHANGED <<kindForms, filed, kindPage, kindSave>> /\ FiledUnder(k) = {}
    BY <1>4 DEF DeleteKind
  <2>4. InKind(filing)'
    BY <1>0, <2>1, <2>2 DEF KindsInv, InKind
  <2>5. InKind(filed)'
    BY <1>0, <2>1, <2>3 DEF KindsInv, InKind, FiledUnder
  <2>6. CountedStay'
    BY <1>0, <2>1, <2>3 DEF KindsInv, CountedStay, KindIs, FiledUnder
  <2> QED
    BY <2>1, <2>2, <2>3, <2>4, <2>5, <2>6 DEF KindsInv
<1>5. ASSUME NEW k \in Kinds, MoveKindElsewhere(k) PROVE KindsInv'
  <2>1. PICK r \in KindRow : r = kind[k] /\ r.archivedAt = ~r.isActive /\ r # NoKind
    BY <1>5 DEF MoveKindElsewhere, KindsInv
  <2>2. PICK q \in KindQueues :
          /\ MayMove(kind[k], FiledUnder(k), [OfRow(kind[k]) EXCEPT !.queueId = q])
          /\ kind' = [kind EXCEPT ![k].queueId = q] /\ MoveKind(k, q, FiledUnder(k))
    BY <1>5 DEF MoveKindElsewhere
  <2>3. PICK row \in KindRow : row = [r EXCEPT !.queueId = q]
    BY DEF KindRow
  <2>4. row.queueId = q /\ row.archivedAt = r.archivedAt /\ row.isActive = r.isActive
    BY <2>3 DEF KindRow
  <2>5. kind' = [kind EXCEPT ![k] = row]
    BY <2>1, <2>2, <2>3 DEF KindsInv
  <2>6. FiledUnder(k) # {} => q = r.queueId
    <3>1. OfRow(r) \in KindValues
      BY OfRowIsValues
    <3>2. [OfRow(r) EXCEPT !.queueId = q].queueId = q
      BY <3>1 DEF KindValues
    <3> QED
      BY <2>1, <2>2, <3>2 DEF MayMove
  <2>7. row.archivedAt = ~row.isActive /\ row.queueId = q
    BY <2>1, <2>4
  <2>8. MoveKind(k, row.queueId, FiledUnder(k))
    BY <2>2, <2>7
  <2>9. UNCHANGED <<kindForms, kindPage, kindSave>>
    BY <1>5 DEF MoveKindElsewhere
  <2> QED
    BY <1>1, <2>1, <2>5, <2>6, <2>7, <2>8, <2>9
<1>7. ASSUME NEW t \in Filings, NEW k \in Kinds, LookKindUp(t, k) PROVE KindsInv'
  <2>0. kind[k] \in KindRow /\ kind[k] # NoKind /\ kind[k].queueId \in KindQueues
    BY <1>7 DEF LookKindUp, KindsInv, KindRow
  <2>1. PICK f \in Filed : f = [kind |-> k, queue |-> kind[k].queueId, raced |-> FALSE]
    <3>1. PICK q \in KindQueues : q = kind[k].queueId
      BY <2>0
    <3>2. [kind |-> k, queue |-> q, raced |-> FALSE] \in Filed
      BY DEF Filed
    <3> QED
      BY <3>1, <3>2
  <2>2. f.kind = k /\ f.queue = kind[k].queueId
    BY <2>1
  <2>3. filing' = [filing EXCEPT ![t] = f] /\ UNCHANGED <<kind, kindForms, filed, kindPage, kindSave>>
    BY <1>7, <2>1 DEF LookKindUp
  <2>4. /\ filing' \in [Filings -> Filed \cup {NoKind}] /\ filing'[t] = f
        /\ \A u \in Filings \ {t} : filing'[u] = filing[u]
    BY <2>3 DEF KindsInv
  <2>5. InKind(filing)'
    BY <2>0, <2>2, <2>3, <2>4 DEF KindsInv, InKind
  <2> QED
    BY <2>3, <2>4, <2>5 DEF KindsInv, InKind, CountedStay, KindIs, FiledUnder
<1>8. ASSUME NEW t \in Filings, FileUnder(t) PROVE KindsInv'
  <2>1. PICK f \in Filed : f = filing[t] /\ f # NoKind
    BY <1>8 DEF FileUnder, KindsInv
  <2>2. /\ filed' \in [Filings -> Filed \cup {NoKind}] /\ filed'[t] = f
        /\ filing' \in [Filings -> Filed \cup {NoKind}] /\ filing'[t] = NoKind
        /\ \A u \in Filings \ {t} : filed'[u] = filed[u] /\ filing'[u] = filing[u]
    BY <1>8, <2>1 DEF FileUnder, KindsInv
  <2>3. UNCHANGED <<kind, kindForms, kindPage>>
    BY <1>8 DEF FileUnder
  <2>4. InKind(filed)' /\ InKind(filing)'
    BY <2>1, <2>2, <2>3 DEF KindsInv, InKind
  <2>5. CASE kindSave = NoKind
    <3>1. kindSave' = NoKind
      BY <1>8, <2>5 DEF FileUnder
    <3> QED
      BY <2>2, <2>3, <2>4, <3>1 DEF KindsInv, CountedStay, KindIs
  <2>6. CASE kindSave # NoKind
    <3>1. PICK s \in KindSave : s = kindSave
      BY <2>6 DEF KindsInv
    <3>2. PICK c \in SUBSET Filings : c = s.counted \ {t}
      BY DEF KindSave
    <3>3. PICK s2 \in KindSave : s2 = [s EXCEPT !.counted = c]
      BY DEF KindSave
    <3>4. s2.at = s.at /\ s2.id = s.id /\ s2.body = s.body /\ s2.counted = c
      BY <3>3 DEF KindSave
    <3>5. kindSave' = s2
      BY <1>8, <2>6, <3>1, <3>2, <3>3 DEF FileUnder, KindSave
    <3>6. \A j \in Kinds : c \cap FiledUnder(j)' \subseteq s.counted \cap FiledUnder(j)
      BY <2>2, <3>2 DEF FiledUnder
    <3>7. CountedStay'
      BY <1>0, <2>3, <2>6, <3>1, <3>4, <3>5, <3>6 DEF KindsInv, CountedStay, KindIs
    <3> QED
      BY <2>2, <2>3, <2>4, <3>5, <3>7 DEF KindsInv
  <2> QED
    BY <2>5, <2>6
<1>9. ASSUME NEW t \in Filings, NotFiled(t) PROVE KindsInv'
  <2>1. /\ filing' \in [Filings -> Filed \cup {NoKind}]
        /\ filed' \in [Filings -> Filed \cup {NoKind}]
        /\ \A u \in Filings : /\ filing'[u] \in {filing[u], NoKind}
                              /\ filed'[u] \in {filed[u], NoKind}
        /\ UNCHANGED <<kind, kindForms, kindPage, kindSave>>
    BY <1>9 DEF NotFiled, KindsInv
  <2>2. InKind(filed)' /\ InKind(filing)'
    BY <2>1 DEF KindsInv, InKind
  <2>3. CountedStay'
    BY <2>1 DEF KindsInv, CountedStay, KindIs, FiledUnder
  <2> QED
    BY <2>1, <2>2, <2>3 DEF KindsInv
<1>6. CASE ElsewhereInKinds
  <2>1. PICK p \in KindPage : p = kindPage
    BY DEF KindsInv
  <2>2. kindPage' \in KindPage
    BY <1>6, <2>1 DEF ElsewhereInKinds, KindPage
  <2>3. kindForms' \subseteq KindForms
    BY <1>6 DEF ElsewhereInKinds, KindsInv
  <2> QED
    BY <1>6, <2>2, <2>3 DEF ElsewhereInKinds, KindsInv, KindIs, InKind, CountedStay, FiledUnder
<1> QED
  BY <1>2, <1>3, <1>4, <1>5, <1>6, <1>7, <1>8, <1>9

LEMMA StepKeepsKinds ==
  ASSUME KindsInv, [KindsNext]_kindVars
  PROVE  KindsInv'
<1>1. CASE UNCHANGED kindVars
  BY <1>1 DEF kindVars, KindsInv, KindIs, InKind, CountedStay, FiledUnder
<1> QED
  BY <1>1, DialogKeepsKinds, SaveKeepsKinds, CommitKeepsKinds, OthersKeepKinds DEF KindsNext

LEMMA KindsAreTyped ==
  ASSUME KindsInv
  PROVE  KindsTypeOK /\ TicketsStayWithTheirCategory
BY DEF KindsInv, KindsTypeOK, KindPage, InKind, TicketsStayWithTheirCategory

-----------------------------------------------------------------------------
ApiPage ==
  [row : ApiClient \cup {NoApi}, queues : SUBSET ApiQueues, all : BOOLEAN,
   key : Nat \cup {NoApi}]
NamesNoneOrAll(all, queues) == ~(all /\ queues # {})

ClientsAreShaped ==
  /\ client \in ApiClient \cup {NoApi} /\ keys \in Nat /\ apisCrossed \in BOOLEAN
  /\ apiPage \in ApiPage /\ apiCall \in [ApiCalls -> ApiRequest \cup {NoApi}]
  /\ \A c \in ApiCalls : apiCall[c] # NoApi /\ apiCall[c].body.create =>
       LET body == apiCall[c].body IN
         body.all \in BOOLEAN /\ body.queues \in SUBSET ApiQueues
           /\ NamesNoneOrAll(body.all, body.queues)
  /\ \A c \in ApiCalls : apiCall[c] # NoApi /\ apiCall[c].at # "done" => apiCall[c].key = NoApi

(* While requests do not overlap, the row is the one that was judged, and  *)
(* its key is in the tab, in the answer that is under way or in one that   *)
(* was lost.                                                               *)
KeyArrives ==
  /\ \A c, d \in ApiCalls : apiCall[c] # NoApi /\ apiCall[d] # NoApi => c = d
  /\ client # NoApi => NamesNoneOrAll(client.all, client.queues)
  /\ \A c \in ApiCalls : client # NoApi /\ ApiCallIs(c, "judged") /\ ~apiCall[c].body.create =>
       AllowAllIsAlone(client, apiCall[c].body)
  /\ \A c \in ApiCalls : client # NoApi /\ ApiCallIs(c, "done") /\ apiCall[c].key # NoApi =>
       apiCall[c].key = client.key
  /\ client # NoApi =>
       \/ apiPage.key = client.key \/ client.key = lostKey
       \/ \E c \in ApiCalls : ApiCallIs(c, "done") /\ apiCall[c].key # NoApi

ClientsInv ==
  /\ ClientsAreShaped
  /\ keys = 0 => client = NoApi
  /\ ~apisCrossed => KeyArrives

LEMMA ClientsInitIsSound == ApiInit => ClientsInv
<1> SUFFICES ASSUME ApiInit PROVE ClientsInv
  OBVIOUS
<1>1. apiPage \in ApiPage
  BY DEF ApiInit, ApiPage
<1>2. client = NoApi /\ keys = 0 /\ apisCrossed = FALSE /\ \A c \in ApiCalls : apiCall[c] = NoApi
  BY DEF ApiInit
<1>3. ClientsAreShaped
  <2>1. apiCall \in [ApiCalls -> ApiRequest \cup {NoApi}]
    BY DEF ApiInit
  <2> QED
    BY <1>1, <1>2, <2>1 DEF ClientsAreShaped
<1> QED
  BY <1>2, <1>3 DEF ClientsInv, KeyArrives, ApiCallIs

LEMMA PageStepKeepsClients ==
  ASSUME ClientsInv, (\E q \in ApiQueues : PickApiQueue(q)) \/ PickAllQueues \/ RefreshApi
  PROVE  ClientsInv'
<1>1. PICK p \in ApiPage : p = apiPage
  BY DEF ClientsInv, ClientsAreShaped
<1>2. apiPage' \in ApiPage /\ apiPage'.key = p.key
  <2>1. ASSUME NEW q \in ApiQueues, PickApiQueue(q)
        PROVE  apiPage' \in ApiPage /\ apiPage'.key = p.key
    BY <1>1, <2>1 DEF PickApiQueue, ApiPage
  <2>2. CASE PickAllQueues
    <3>1. PICK all \in BOOLEAN, queues \in SUBSET ApiQueues :
            all = ~p.all /\ queues = IF p.all THEN p.queues ELSE {}
      BY DEF ApiPage
    <3>2. apiPage' = [p EXCEPT !.all = all, !.queues = queues]
      BY <1>1, <2>2, <3>1 DEF PickAllQueues
    <3> QED
      BY <3>2 DEF ApiPage
  <2>3. CASE RefreshApi
    BY <1>1, <2>3 DEF RefreshApi, ApiPage, ClientsInv, ClientsAreShaped
  <2> QED
    BY <2>1, <2>2, <2>3
<1>3. UNCHANGED <<client, apiCall, keys, lostKey, apisCrossed>>
  BY DEF PickApiQueue, PickAllQueues, RefreshApi
<1> QED
  BY <1>1, <1>2, <1>3 DEF ClientsInv, ClientsAreShaped, KeyArrives, ApiCallIs

LEMMA SendingKeepsClients ==
  ASSUME ClientsInv, NEW c \in ApiCalls, NEW body \in ApiBody, SendApi(c, body),
         body.create => /\ body.all \in BOOLEAN /\ body.queues \in SUBSET ApiQueues
                        /\ NamesNoneOrAll(body.all, body.queues)
  PROVE  ClientsInv'
<1>1. PICK k \in ApiRequest : k = [at |-> "sent", body |-> body, key |-> NoApi]
  BY DEF ApiRequest
<1>2. /\ apiCall[c] = NoApi /\ apiCall' = [apiCall EXCEPT ![c] = k]
      /\ UNCHANGED <<client, apiPage, keys, lostKey>>
      /\ apisCrossed' = (apisCrossed \/ \E other \in ApiCalls : apiCall[other] # NoApi)
  BY <1>1 DEF SendApi
<1>3. /\ apiCall' \in [ApiCalls -> ApiRequest \cup {NoApi}] /\ apiCall'[c] = k
      /\ \A d \in ApiCalls \ {c} : apiCall'[d] = apiCall[d]
  BY <1>2 DEF ClientsInv, ClientsAreShaped
<1>4. k.at = "sent" /\ k.body = body /\ k.key = NoApi
  BY <1>1
<1>5. ClientsAreShaped'
  BY <1>2, <1>3, <1>4 DEF ClientsInv, ClientsAreShaped
<1>6. ~apisCrossed' => KeyArrives'
  <2> SUFFICES ASSUME ~apisCrossed' PROVE KeyArrives'
    OBVIOUS
  <2>1. ~apisCrossed /\ \A d \in ApiCalls : apiCall[d] = NoApi
    BY <1>2
  <2>2. \A d \in ApiCalls : ~ApiCallIs(d, "judged")' /\ ~ApiCallIs(d, "done")'
    BY <1>3, <1>4, <2>1 DEF ApiCallIs
  <2>3. \A d \in ApiCalls : ~ApiCallIs(d, "done")
    BY <2>1 DEF ApiCallIs
  <2> QED
    BY <1>2, <1>3, <2>1, <2>2, <2>3 DEF ClientsInv, KeyArrives
<1> QED
  BY <1>2, <1>5, <1>6 DEF ClientsInv

LEMMA SendStepKeepsClients ==
  ASSUME ClientsInv, NEW c \in ApiCalls, CreateApiClient(c) \/ ToggleApi(c) \/ ScriptApi(c)
  PROVE  ClientsInv'
<1>1. PICK p \in ApiPage : p = apiPage
  BY DEF ClientsInv, ClientsAreShaped
<1>3. CASE CreateApiClient(c)
  <2>1. PICK queues \in SUBSET ApiQueues, all \in BOOLEAN :
          all = p.all /\ queues = IF p.all THEN {} ELSE p.queues
    BY DEF ApiPage
  <2>5. PICK body : body = [NothingAsked EXCEPT !.create = TRUE, !.all = all,
                              !.queues = queues, !.active = TRUE]
    OBVIOUS
  <2>2. body = [create |-> TRUE, all |-> all, queues |-> queues, active |-> TRUE,
                rotate |-> FALSE]
    BY <2>5 DEF NothingAsked
  <2>3. /\ body \in ApiBody /\ body.create = TRUE /\ body.all = all /\ body.queues = queues
    BY <2>2 DEF ApiBody
  <2>4. SendApi(c, body)
    BY <1>1, <1>3, <2>1, <2>5 DEF CreateApiClient
  <2> QED
    BY <2>1, <2>3, <2>4, SendingKeepsClients DEF NamesNoneOrAll
<1>4. CASE ToggleApi(c)
  <2>1. PICK row \in ApiClient : row = apiPage.row
    BY <1>1, <1>4 DEF ToggleApi, ApiPage
  <2>2. PICK shown \in SUBSET ApiQueues : shown = IF row.all THEN {} ELSE row.queues
    BY DEF ApiClient
  <2>3. CASE SendApi(c, [NothingAsked EXCEPT !.active = ~row.active])
    <3>1. PICK body : body = [NothingAsked EXCEPT !.active = ~row.active]
      OBVIOUS
    <3>2. body = [create |-> FALSE, all |-> NoApi, queues |-> NoApi, active |-> ~row.active,
                  rotate |-> FALSE]
      BY <3>1 DEF NothingAsked
    <3>3. body \in ApiBody /\ body.create = FALSE
      BY <3>2 DEF ApiBody
    <3> QED
      BY <2>3, <3>1, <3>3, SendingKeepsClients
  <2>4. CASE SendApi(c, [NothingAsked EXCEPT !.all = ~row.all, !.queues = {}])
    <3>1. PICK body : body = [NothingAsked EXCEPT !.all = ~row.all, !.queues = {}]
      OBVIOUS
    <3>2. body = [create |-> FALSE, all |-> ~row.all, queues |-> {}, active |-> NoApi,
                  rotate |-> FALSE]
      BY <3>1 DEF NothingAsked
    <3>3. body \in ApiBody /\ body.create = FALSE
      BY <3>2 DEF ApiBody
    <3> QED
      BY <2>4, <3>1, <3>3, SendingKeepsClients
  <2>5. ASSUME NEW q \in ApiQueues,
               SendApi(c, [NothingAsked EXCEPT !.all = FALSE,
                 !.queues = IF q \in shown THEN shown \ {q} ELSE shown \cup {q}])
        PROVE  ClientsInv'
    <3>1. PICK queues \in SUBSET ApiQueues :
            queues = IF q \in shown THEN shown \ {q} ELSE shown \cup {q}
      OBVIOUS
    <3>2. PICK body : body = [NothingAsked EXCEPT !.all = FALSE, !.queues = queues]
      OBVIOUS
    <3>3. body = [create |-> FALSE, all |-> FALSE, queues |-> queues, active |-> NoApi,
                  rotate |-> FALSE]
      BY <3>2 DEF NothingAsked
    <3>4. body \in ApiBody /\ body.create = FALSE
      BY <3>3 DEF ApiBody
    <3> QED
      BY <2>5, <3>1, <3>2, <3>4, SendingKeepsClients
  <2>6. CASE SendApi(c, [NothingAsked EXCEPT !.rotate = TRUE])
    <3>1. PICK body : body = [NothingAsked EXCEPT !.rotate = TRUE]
      OBVIOUS
    <3>2. body = [create |-> FALSE, all |-> NoApi, queues |-> NoApi, active |-> NoApi,
                  rotate |-> TRUE]
      BY <3>1 DEF NothingAsked
    <3>3. body \in ApiBody /\ body.create = FALSE
      BY <3>2 DEF ApiBody
    <3> QED
      BY <2>6, <3>1, <3>3, SendingKeepsClients
  <2> QED
    BY <1>4, <2>1, <2>2, <2>3, <2>4, <2>5, <2>6 DEF ToggleApi
<1>5. CASE ScriptApi(c)
  <2>1. CASE SendApi(c, [NothingAsked EXCEPT !.all = TRUE])
    <3>1. PICK body : body = [NothingAsked EXCEPT !.all = TRUE]
      OBVIOUS
    <3>2. body = [create |-> FALSE, all |-> TRUE, queues |-> NoApi, active |-> NoApi,
                  rotate |-> FALSE]
      BY <3>1 DEF NothingAsked
    <3>3. body \in ApiBody /\ body.create = FALSE
      BY <3>2 DEF ApiBody
    <3> QED
      BY <2>1, <3>1, <3>3, SendingKeepsClients
  <2>2. ASSUME NEW queues \in SUBSET ApiQueues,
               SendApi(c, [NothingAsked EXCEPT !.queues = queues])
        PROVE  ClientsInv'
    <3>1. PICK body : body = [NothingAsked EXCEPT !.queues = queues]
      OBVIOUS
    <3>2. body = [create |-> FALSE, all |-> NoApi, queues |-> queues, active |-> NoApi,
                  rotate |-> FALSE]
      BY <3>1 DEF NothingAsked
    <3>3. body \in ApiBody /\ body.create = FALSE
      BY <3>2 DEF ApiBody
    <3> QED
      BY <2>2, <3>1, <3>3, SendingKeepsClients
  <2> QED
    BY <1>5, <2>1, <2>2 DEF ScriptApi
<1> QED
  BY <1>3, <1>4, <1>5

LEMMA JudgeKeepsClients ==
  ASSUME ClientsInv, NEW c \in ApiCalls, JudgeApi(c)
  PROVE  ClientsInv'
<1>1. PICK k \in ApiRequest : k = apiCall[c] /\ k # NoApi /\ k.at = "sent"
  BY DEF JudgeApi, ApiCallIs, ClientsInv, ClientsAreShaped
<1>2. PICK j \in ApiRequest : j = [k EXCEPT !.at = "judged"]
  BY DEF ApiRequest
<1>3. j.at = "judged" /\ j.body = k.body /\ j.key = k.key
  BY <1>2 DEF ApiRequest
<1>4. /\ apiCall' = [apiCall EXCEPT ![c] = j]
      /\ UNCHANGED <<client, apiPage, keys, lostKey, apisCrossed>>
      /\ ~k.body.create => client # NoApi /\ AllowAllIsAlone(client, k.body)
  BY <1>1, <1>2 DEF JudgeApi
<1>5. /\ apiCall' \in [ApiCalls -> ApiRequest \cup {NoApi}] /\ apiCall'[c] = j
      /\ \A d \in ApiCalls \ {c} : apiCall'[d] = apiCall[d]
  BY <1>4 DEF ClientsInv, ClientsAreShaped
<1>6. ClientsAreShaped'
  BY <1>1, <1>3, <1>4, <1>5 DEF ClientsInv, ClientsAreShaped
<1>7. ~apisCrossed' => KeyArrives'
  <2> SUFFICES ASSUME ~apisCrossed PROVE KeyArrives'
    BY <1>4
  <2>1. KeyArrives
    BY DEF ClientsInv
  <2>2. /\ ~ApiCallIs(c, "done") /\ ~ApiCallIs(c, "done")'
        /\ \A d \in ApiCalls \ {c} : apiCall[d] = NoApi
    BY <1>1, <1>3, <1>5, <2>1 DEF ApiCallIs, KeyArrives
  <2>3. \A d \in ApiCalls : ~ApiCallIs(d, "done") /\ ~ApiCallIs(d, "done")'
    BY <1>5, <2>2 DEF ApiCallIs
  <2>4. \A d, e \in ApiCalls : apiCall'[d] # NoApi /\ apiCall'[e] # NoApi => d = e
    BY <1>5, <2>2
  <2>5. \A d \in ApiCalls : client # NoApi /\ ApiCallIs(d, "judged")' /\ ~apiCall'[d].body.create =>
          AllowAllIsAlone(client, apiCall'[d].body)
    BY <1>3, <1>4, <1>5, <2>2 DEF ApiCallIs
  <2>6. client # NoApi => /\ NamesNoneOrAll(client.all, client.queues)
                          /\ apiPage.key = client.key \/ client.key = lostKey
    BY <2>1, <2>3 DEF KeyArrives
  <2> QED
    BY <1>4, <2>3, <2>4, <2>5, <2>6 DEF KeyArrives, AllowAllIsAlone, NamesNoneOrAll
<1> QED
  BY <1>4, <1>6, <1>7 DEF ClientsInv

LEMMA EndOfRequestKeepsClients ==
  ASSUME ClientsInv, NEW c \in ApiCalls, RefuseApi(c) \/ AnswerApi(c)
  PROVE  ClientsInv'
<1>1. PICK k \in ApiRequest : k = apiCall[c] /\ k # NoApi
  BY DEF RefuseApi, AnswerApi, ApiCallIs, ClientsInv, ClientsAreShaped
<1>2. /\ apiCall' = [apiCall EXCEPT ![c] = NoApi] /\ UNCHANGED <<client, keys, apisCrossed>>
  BY DEF RefuseApi, AnswerApi
<1>3. /\ apiCall' \in [ApiCalls -> ApiRequest \cup {NoApi}] /\ apiCall'[c] = NoApi
      /\ \A d \in ApiCalls \ {c} : apiCall'[d] = apiCall[d]
  BY <1>2 DEF ClientsInv, ClientsAreShaped
<1>4. PICK p \in ApiPage : p = apiPage
  BY DEF ClientsInv, ClientsAreShaped
<1>5. PICK key \in Nat \cup {NoApi} : key = Asked(k.key, p.key)
  BY DEF Asked, ApiRequest, ApiPage
<1>6. /\ apiPage' \in ApiPage
      /\ \/ apiPage' = p /\ lostKey' = Asked(k.key, lostKey)
         \/ apiPage'.key = key /\ lostKey' = lostKey /\ ApiCallIs(c, "done")
  <2>1. CASE RefuseApi(c)
    BY <1>1, <1>4, <2>1 DEF RefuseApi
  <2>2. CASE AnswerApi(c)
    <3>1. PICK queues \in SUBSET ApiQueues, all \in BOOLEAN :
            /\ queues = IF k.body.create THEN {} ELSE p.queues
            /\ all = (~k.body.create /\ p.all)
      <4>1. (IF k.body.create THEN {} ELSE p.queues) \in SUBSET ApiQueues
        BY DEF ApiPage
      <4>2. (~k.body.create /\ p.all) \in BOOLEAN
        OBVIOUS
      <4> QED
        BY <4>1, <4>2
    <3>2. apiPage' = [p EXCEPT !.key = key, !.queues = queues, !.all = all]
      BY <1>1, <1>4, <1>5, <2>2, <3>1 DEF AnswerApi
    <3>3. apiPage' \in ApiPage /\ apiPage'.key = key
      BY <3>2 DEF ApiPage
    <3>4. ApiCallIs(c, "done") /\ lostKey' = lostKey
      BY <2>2 DEF AnswerApi
    <3> QED
      BY <3>3, <3>4
  <2> QED
    BY <2>1, <2>2
<1>7. ClientsAreShaped'
  BY <1>2, <1>3, <1>6 DEF ClientsInv, ClientsAreShaped
<1>8. ~apisCrossed' => KeyArrives'
  <2> SUFFICES ASSUME ~apisCrossed PROVE KeyArrives'
    BY <1>2
  <2>1. KeyArrives
    BY DEF ClientsInv
  <2>2. \A d \in ApiCalls : apiCall'[d] = NoApi
    BY <1>1, <1>3, <2>1 DEF KeyArrives
  <2>3. \A d \in ApiCalls \ {c} : ~ApiCallIs(d, "done")
    BY <1>3, <2>2 DEF ApiCallIs
  <2>4. k.key # NoApi => k.at = "done" /\ ApiCallIs(c, "done")
    BY <1>1 DEF ClientsInv, ClientsAreShaped, ApiCallIs
  <2>5. client # NoApi => \/ k.key # NoApi /\ k.key = client.key
                          \/ k.key = NoApi /\ (p.key = client.key \/ client.key = lostKey)
    BY <1>1, <1>4, <2>1, <2>3, <2>4 DEF KeyArrives
  <2>6. client # NoApi => apiPage'.key = client.key \/ client.key = lostKey'
    BY <1>5, <1>6, <2>5 DEF Asked
  <2> QED
    BY <1>2, <2>1, <2>2, <2>6 DEF KeyArrives, ApiCallIs
<1> QED
  BY <1>2, <1>7, <1>8 DEF ClientsInv

LEMMA DeletionKeepsClients ==
  ASSUME ClientsInv, DeleteApiClient
  PROVE  ClientsInv'
BY DEF DeleteApiClient, ClientsInv, ClientsAreShaped, KeyArrives, ApiCallIs

(* The update: the row stays as it was judged but for what is asked.       *)
LEMMA CommitKeepsClients ==
  ASSUME ClientsInv, NEW c \in ApiCalls, CommitApi(c)
  PROVE  ClientsInv'
<1>1. PICK k \in ApiRequest : k = apiCall[c] /\ k # NoApi /\ k.at = "judged"
  BY DEF CommitApi, ApiCallIs, ClientsInv, ClientsAreShaped
<1>2. PICK body \in ApiBody : body = k.body
  BY DEF ApiRequest
<1>3. PICK new \in Nat : new = keys + 1
  BY DEF ClientsInv, ClientsAreShaped
<1>4. PICK j \in ApiRequest :
        /\ j = [k EXCEPT !.at = "done", !.key = IF body.create \/ body.rotate THEN new ELSE NoApi]
        /\ j.at = "done" /\ j.body = body
        /\ j.key = IF body.create \/ body.rotate THEN new ELSE NoApi
  <2>1. PICK key \in Nat \cup {NoApi} : key = IF body.create \/ body.rotate THEN new ELSE NoApi
    OBVIOUS
  <2>2. PICK j \in ApiRequest : j = [k EXCEPT !.at = "done", !.key = key]
    BY DEF ApiRequest
  <2>3. j.at = "done" /\ j.body = body /\ j.key = key
    BY <1>2, <2>2 DEF ApiRequest
  <2> QED
    BY <2>1, <2>2, <2>3
<1>5. /\ apiCall' = [apiCall EXCEPT ![c] = j]
      /\ keys' = IF body.create \/ body.rotate THEN new ELSE keys
      /\ IF body.create THEN keys = 0 ELSE client # NoApi
      /\ UNCHANGED <<apiPage, lostKey, apisCrossed>>
  BY <1>1, <1>2, <1>3, <1>4 DEF CommitApi, NeedsNewKey, GivesKey
<1>6. /\ apiCall' \in [ApiCalls -> ApiRequest \cup {NoApi}] /\ apiCall'[c] = j
      /\ \A d \in ApiCalls \ {c} : apiCall'[d] = apiCall[d]
  BY <1>5 DEF ClientsInv, ClientsAreShaped
<1>7. PICK all \in BOOLEAN, queues \in SUBSET ApiQueues, active \in BOOLEAN, key \in Nat :
        /\ client' = [all |-> all, queues |-> queues, active |-> active, key |-> key]
        /\ body.create => all = body.all /\ queues = body.queues
        /\ ~body.create => all = Asked(body.all, client.all) /\ queues = Asked(body.queues, client.queues)
        /\ body.create \/ body.rotate => key = new
        /\ ~(body.create \/ body.rotate) => key = client.key
  <2>1. CASE body.create
    <3>1. body.all \in BOOLEAN /\ body.queues \in SUBSET ApiQueues
      BY <1>1, <1>2, <2>1 DEF ClientsInv, ClientsAreShaped
    <3>2. client' = [all |-> body.all, queues |-> body.queues, active |-> TRUE, key |-> new]
      BY <1>1, <1>2, <1>3, <2>1 DEF CommitApi
    <3> QED
      BY <2>1, <3>1, <3>2
  <2>2. CASE ~body.create
    <3>1. PICK r \in ApiClient : r = client
      BY <1>5, <2>2 DEF ClientsInv, ClientsAreShaped
    <3>2. PICK all \in BOOLEAN, queues \in SUBSET ApiQueues, active \in BOOLEAN, key \in Nat :
            /\ all = Asked(body.all, r.all) /\ queues = Asked(body.queues, r.queues)
            /\ active = Asked(body.active, r.active)
            /\ key = IF body.create \/ body.rotate THEN new ELSE r.key
      BY DEF Asked, ApiBody, ApiClient
    <3>3. client' = [r EXCEPT !.all = all, !.queues = queues, !.active = active, !.key = key]
      BY <1>1, <1>2, <1>3, <2>2, <3>1, <3>2 DEF CommitApi, NeedsNewKey
    <3>4. client' = [all |-> all, queues |-> queues, active |-> active, key |-> key]
      BY <3>3 DEF ApiClient
    <3> QED
      BY <2>2, <3>1, <3>2, <3>4
  <2> QED
    BY <2>1, <2>2
<1>8. /\ client' \in ApiClient /\ client'.all = all /\ client'.queues = queues
      /\ client'.key = key
  BY <1>7 DEF ApiClient
<1>9. ClientsAreShaped'
  BY <1>1, <1>2, <1>3, <1>4, <1>5, <1>6, <1>8 DEF ClientsInv, ClientsAreShaped
<1>10. (keys = 0 => client = NoApi)'
  BY <1>3, <1>5 DEF ClientsInv, ClientsAreShaped
<1>11. ~apisCrossed' => KeyArrives'
  <2> SUFFICES ASSUME ~apisCrossed PROVE KeyArrives'
    BY <1>5
  <2>1. KeyArrives
    BY DEF ClientsInv
  <2>2. \A d \in ApiCalls \ {c} : apiCall[d] = NoApi /\ apiCall'[d] = NoApi
    BY <1>1, <1>6, <2>1 DEF KeyArrives
  <2>3. NamesNoneOrAll(all, queues)
    <3>1. CASE body.create
      BY <1>1, <1>2, <1>7, <3>1 DEF ClientsInv, ClientsAreShaped
    <3>2. CASE ~body.create
      <4>1. AllowAllIsAlone(client, body)
        BY <1>1, <1>2, <1>5, <2>1, <3>2 DEF KeyArrives, ApiCallIs
      <4> QED
        BY <1>7, <3>2, <4>1 DEF AllowAllIsAlone, NamesNoneOrAll
    <3> QED
      BY <3>1, <3>2
  <2>4. \A d \in ApiCalls : ~ApiCallIs(d, "done")
    BY <1>1, <2>2 DEF ApiCallIs
  <2>5. ApiCallIs(c, "done")'
    BY <1>4, <1>6, NoApiAssumption DEF ApiCallIs
  <2>6. \A d \in ApiCalls : ~ApiCallIs(d, "judged")'
    BY <1>4, <1>6, <2>2 DEF ApiCallIs
  <2>7. \A d \in ApiCalls : ApiCallIs(d, "done")' /\ apiCall'[d].key # NoApi => apiCall'[d].key = key
    BY <1>4, <1>6, <1>7, <2>2 DEF ApiCallIs
  <2>8. \/ apiPage'.key = key \/ key = lostKey'
        \/ \E d \in ApiCalls : ApiCallIs(d, "done")' /\ apiCall'[d].key # NoApi
    <3>1. CASE body.create \/ body.rotate
      <4>1. apiCall'[c].key # NoApi
        BY <1>4, <1>6, <3>1, NoApiAssumption
      <4> QED
        BY <2>5, <4>1
    <3>2. CASE ~(body.create \/ body.rotate)
      BY <1>5, <1>7, <2>1, <2>4, <3>2 DEF KeyArrives
    <3> QED
      BY <3>1, <3>2
  <2>9. \A d, e \in ApiCalls : apiCall'[d] # NoApi /\ apiCall'[e] # NoApi => d = e
    BY <2>2
  <2> QED
    BY <1>8, <2>3, <2>6, <2>7, <2>8, <2>9 DEF KeyArrives
<1> QED
  BY <1>9, <1>10, <1>11 DEF ClientsInv

LEMMA StepKeepsClients ==
  ASSUME ClientsInv, [ApiNext]_apiVars
  PROVE  ClientsInv'
<1>1. CASE UNCHANGED apiVars
  BY <1>1 DEF apiVars, ClientsInv, ClientsAreShaped, KeyArrives, ApiCallIs
<1> QED
  BY <1>1, PageStepKeepsClients, SendStepKeepsClients, JudgeKeepsClients, CommitKeepsClients,
     EndOfRequestKeepsClients, DeletionKeepsClients DEF ApiNext

LEMMA ClientsAreAsShown ==
  ASSUME ClientsInv
  PROVE  ApiTypeOK /\ KeysAndAccessAreAsShown
<1>1. ApiTypeOK
  BY DEF ClientsInv, ClientsAreShaped, ApiTypeOK, ApiPage, ApiRequest
<1>2. KeysAndAccessAreAsShown
  BY DEF ClientsInv, KeyArrives, KeysAndAccessAreAsShown, NamesNoneOrAll, ApiCallIs
<1> QED
  BY <1>1, <1>2

-----------------------------------------------------------------------------
ArticleField == {"collectionId", "title", "content", "isPublished"}
HelpPage ==
  [articles : [Articles -> ArticleRow \cup {NoHelp}], isOpen : BOOLEAN,
   id : Articles \cup {NoHelp}, opened : ArticleRow, draft : ArticleRow,
   languages : SUBSET Lang, edited : SUBSET ArticleField, asked : Articles \cup {NoHelp},
   openedArticleId : Articles \cup {NoHelp}]
HelpSave ==
  [at : {"sent", "judged", "stored"}, id : Articles \cup {NoHelp}, body : ArticleRow,
   opened : ArticleRow]
HelpIsShaped ==
  /\ collection \in [Collections -> CollectionRow \cup {NoHelp}]
  /\ article \in [Articles -> ArticleRow \cup {NoHelp}]
  /\ helpPage \in HelpPage /\ helpSave \in HelpSave \cup {NoHelp}

(* A dialog shows every language its article had, and its save has them    *)
(* all; every article is complete and in a collection that is there.       *)
HelpInv ==
  /\ HelpIsShaped
  /\ helpPage.opened.title \subseteq helpPage.languages
  /\ helpSave # NoHelp => helpSave.opened.title \subseteq helpSave.body.title
  /\ HelpIs("judged") => ArticleInput(helpSave.body)
  /\ \A a \in HelpArticles :
       ArticleInput(article[a]) /\ collection[article[a].collectionId] # NoHelp

LEMMA HelpInitIsSound == HelpInit => HelpInv
<1> SUFFICES ASSUME HelpInit PROVE HelpInv
  OBVIOUS
<1>1. PICK row : row = [collectionId |-> FirstCollection, title |-> Lang,
                        content |-> Lang, isPublished |-> TRUE]
  OBVIOUS
<1>a. row \in ArticleRow
  BY <1>1, HelpAssumption DEF ArticleRow
<1>b. row.title = Lang /\ row.content = Lang /\ row.collectionId = FirstCollection
  BY <1>1
<1>2. PICK shelf : shelf = [title |-> {"en"}, isPublished |-> TRUE]
  OBVIOUS
<1>c. {"en"} \in (SUBSET Lang) \ {{}}
  <2>1. {"en"} \in SUBSET Lang /\ {"en"} # {}
    BY DEF Lang
  <2> QED
    BY <2>1
<1>d. shelf \in CollectionRow
  BY <1>2, <1>c DEF CollectionRow
<1>3. /\ collection = [c \in Collections |-> IF c = FirstCollection THEN shelf ELSE NoHelp]
      /\ collection[FirstCollection] # NoHelp
  BY <1>2, <1>d, HelpAssumption DEF HelpInit
<1>4. article = [a \in Articles |-> IF a = FirstArticle THEN row ELSE NoHelp]
  BY <1>1 DEF HelpInit
<1>5. helpPage = [articles |-> article, isOpen |-> FALSE, id |-> NoHelp,
                  opened |-> row, draft |-> row, languages |-> Lang, edited |-> {},
                  asked |-> NoHelp, openedArticleId |-> NoHelp]
  BY <1>1 DEF HelpInit
<1>6. article \in [Articles -> ArticleRow \cup {NoHelp}]
  BY <1>a, <1>4
<1>7. helpPage \in HelpPage
  BY <1>5, <1>6, <1>a DEF HelpPage
<1>8. HelpIsShaped /\ helpSave = NoHelp
  BY <1>3, <1>d, <1>6, <1>7 DEF HelpIsShaped, HelpInit
<1>9. helpPage.opened.title \subseteq helpPage.languages
  BY <1>b, <1>5
<1>10. \A a \in HelpArticles :
         ArticleInput(article[a]) /\ collection[article[a].collectionId] # NoHelp
  BY <1>b, <1>1, <1>3, <1>4 DEF HelpArticles, ArticleInput, Lang
<1> QED
  BY <1>8, <1>9, <1>10 DEF HelpInv, HelpIs

(* A step of the page alone keeps what it shows.                           *)
LEMMA PageStepKeepsHelp ==
  ASSUME HelpInv, OnHelpPage, helpSave' = helpSave, helpPage' \in HelpPage,
         helpPage'.opened.title \subseteq helpPage'.languages
  PROVE  HelpInv'
BY DEF HelpInv, HelpIsShaped, OnHelpPage, HelpIs, HelpArticles

(* The dialog of an article that the page lists.                           *)
LEMMA DialogIsPage ==
  ASSUME HelpInv, NEW a \in Articles, helpPage.articles[a] # NoHelp
  PROVE  /\ DialogOn(a) \in HelpPage
         /\ DialogOn(a).opened.title \subseteq DialogOn(a).languages
         /\ [DialogOn(a) EXCEPT !.openedArticleId = a] \in HelpPage
         /\ [DialogOn(a) EXCEPT !.openedArticleId = a].opened = DialogOn(a).opened
         /\ [DialogOn(a) EXCEPT !.openedArticleId = a].languages = DialogOn(a).languages
<1>1. PICK p \in HelpPage : p = helpPage
  BY DEF HelpInv, HelpIsShaped
<1>2. PICK row \in ArticleRow : row = p.articles[a]
  BY <1>1 DEF HelpPage
<1>3. PICK languages \in SUBSET Lang :
        languages = helpContentLanguages(row, "en") /\ row.title \subseteq languages
  BY DEF helpContentLanguages, ArticleRow, Lang
<1>4. DialogOn(a) = [p EXCEPT !.isOpen = TRUE, !.id = a, !.opened = row, !.draft = row,
                       !.edited = {}, !.languages = languages]
  BY <1>1, <1>2, <1>3 DEF DialogOn
<1>5. PICK d \in HelpPage : d = DialogOn(a) /\ d.opened = row /\ d.languages = languages
  BY <1>4 DEF HelpPage
<1>6. /\ [d EXCEPT !.openedArticleId = a] \in HelpPage
      /\ [d EXCEPT !.openedArticleId = a].opened = d.opened
      /\ [d EXCEPT !.openedArticleId = a].languages = d.languages
  BY DEF HelpPage
<1> QED
  BY <1>3, <1>5, <1>6

LEMMA DialogKeepsHelp ==
  ASSUME HelpInv,
         \/ \E a \in Articles : editArticle(a) \/ FollowLink(a) \/ OpenAsked(a)
         \/ LeaveLink \/ createArticle \/ TypeArticle \/ addLanguage \/ CloseArticle
         \/ RefreshHelp
  PROVE  HelpInv'
<1>1. PICK p \in HelpPage : p = helpPage /\ p.opened.title \subseteq p.languages
  BY DEF HelpInv, HelpIsShaped
<1> SUFFICES helpPage' \in HelpPage /\ helpPage'.opened.title \subseteq helpPage'.languages
  BY PageStepKeepsHelp DEF editArticle, FollowLink, OpenAsked, LeaveLink, createArticle,
     TypeArticle, addLanguage, CloseArticle, RefreshHelp
<1>2. ASSUME NEW q \in HelpPage, helpPage' = q, q.opened = p.opened, p.languages \subseteq q.languages
      PROVE  helpPage' \in HelpPage /\ helpPage'.opened.title \subseteq helpPage'.languages
  BY <1>1, <1>2
<1>3. ASSUME NEW a \in Articles, editArticle(a)
      PROVE  helpPage' \in HelpPage /\ helpPage'.opened.title \subseteq helpPage'.languages
  BY <1>3, DialogIsPage DEF editArticle
<1>4. ASSUME NEW a \in Articles, OpenAsked(a)
      PROVE  helpPage' \in HelpPage /\ helpPage'.opened.title \subseteq helpPage'.languages
  BY <1>4, DialogIsPage DEF OpenAsked
<1>5. ASSUME NEW a \in Articles, FollowLink(a)
      PROVE  helpPage' \in HelpPage /\ helpPage'.opened.title \subseteq helpPage'.languages
  BY <1>1, <1>2, <1>5 DEF FollowLink, HelpPage
<1>6. CASE LeaveLink \/ CloseArticle \/ RefreshHelp
  <2>1. article \in [Articles -> ArticleRow \cup {NoHelp}]
    BY DEF HelpInv, HelpIsShaped
  <2> QED
    BY <1>1, <1>2, <1>6, <2>1 DEF LeaveLink, CloseArticle, RefreshHelp, HelpPage
<1>7. CASE addLanguage
  BY <1>1, <1>2, <1>7 DEF addLanguage, HelpPage
<1>8. CASE createArticle
  <2>1. PICK c \in Collections, new \in ArticleRow :
          /\ new = [collectionId |-> c, title |-> {}, content |-> {}, isPublished |-> TRUE]
          /\ helpPage' = [p EXCEPT !.isOpen = TRUE, !.id = NoHelp, !.opened = new,
                           !.draft = new, !.languages = {"en"}, !.edited = {}]
    BY <1>1, <1>8 DEF createArticle, ArticleRow
  <2>2. helpPage' \in HelpPage /\ helpPage'.opened = new /\ new.title = {}
    BY <2>1 DEF HelpPage, Lang
  <2> QED
    BY <2>2
<1>9. CASE TypeArticle
  <2>1. PICK v \in ArticleRow :
          helpPage' = [p EXCEPT !.draft = v,
            !.edited = p.edited \cup {f \in DOMAIN v : v[f] # p.draft[f]}]
    BY <1>1, <1>9 DEF TypeArticle
  <2>2. DOMAIN v = ArticleField
    BY DEF ArticleRow, ArticleField
  <2>3. PICK edited \in SUBSET ArticleField :
          edited = p.edited \cup {f \in DOMAIN v : v[f] # p.draft[f]}
    BY <2>2 DEF HelpPage
  <2>4. helpPage' = [p EXCEPT !.draft = v, !.edited = edited]
    BY <2>1, <2>3
  <2> QED
    BY <1>1, <1>2, <2>4 DEF HelpPage
<1> QED
  BY <1>3, <1>4, <1>5, <1>6, <1>7, <1>8, <1>9

LEMMA SaveKeepsHelp ==
  ASSUME HelpInv, SaveArticle \/ JudgeArticle \/ ArticleSaved \/ ArticleRefused
  PROVE  HelpInv'
<1>1. PICK p \in HelpPage : p = helpPage /\ p.opened.title \subseteq p.languages
  BY DEF HelpInv, HelpIsShaped
<1>2. CASE SaveArticle
  <2>1. PICK s \in HelpSave :
          s = [at |-> "sent", id |-> p.id, body |-> p.draft, opened |-> p.opened]
    BY DEF HelpPage, HelpSave
  <2>2. p.languages \subseteq p.draft.title
    BY <1>1, <1>2 DEF SaveArticle, TranslationsValid
  <2>3. helpSave' = s /\ s.at = "sent" /\ s.opened.title \subseteq s.body.title
    BY <1>1, <1>2, <2>1, <2>2 DEF SaveArticle
  <2> QED
    BY <1>2, <2>3 DEF SaveArticle, HelpInv, HelpIsShaped, OnHelpPage, HelpIs, HelpArticles
<1>3. CASE JudgeArticle
  <2>1. PICK s \in HelpSave : s = helpSave /\ s # NoHelp
    BY <1>3 DEF JudgeArticle, HelpIs, HelpInv, HelpIsShaped
  <2>2. PICK t \in HelpSave : t = [s EXCEPT !.at = "judged"]
    BY DEF HelpSave
  <2>3. helpSave' = t /\ t.id = s.id /\ t.body = s.body /\ t.opened = s.opened
    BY <1>3, <2>1, <2>2 DEF JudgeArticle, HelpSave
  <2>4. ArticleInput(t.body) /\ t.opened.title \subseteq t.body.title
    BY <1>3, <2>1, <2>3 DEF JudgeArticle, HelpInv
  <2> QED
    BY <1>3, <2>3, <2>4 DEF JudgeArticle, HelpInv, HelpIsShaped, OnHelpPage, HelpArticles
<1>4. CASE ArticleSaved
  <2>1. helpPage' = [p EXCEPT !.articles = article, !.isOpen = FALSE]
    BY <1>1, <1>4 DEF ArticleSaved
  <2>2. article \in [Articles -> ArticleRow \cup {NoHelp}]
    BY DEF HelpInv, HelpIsShaped
  <2>3. helpPage' \in HelpPage /\ helpPage'.opened.title \subseteq helpPage'.languages
    BY <1>1, <2>1, <2>2 DEF HelpPage
  <2> QED
    BY <1>4, <2>3 DEF ArticleSaved, HelpInv, HelpIsShaped, OnHelpPage, HelpIs, HelpArticles
<1>5. CASE ArticleRefused
  BY <1>5 DEF ArticleRefused, HelpInv, HelpIsShaped, OnHelpPage, HelpIs, HelpArticles
<1> QED
  BY <1>2, <1>3, <1>4, <1>5

(* A complete text goes into a row whose collection is there.              *)
LEMMA StoringKeepsArticles ==
  ASSUME HelpInv, NEW id, NEW body \in ArticleRow, ArticleInput(body), StoreArticle(id, body),
         UNCHANGED collection
  PROVE  /\ article' \in [Articles -> ArticleRow \cup {NoHelp}]
         /\ \A a \in HelpArticles' :
              ArticleInput(article'[a]) /\ collection'[article'[a].collectionId] # NoHelp
<1>1. PICK a \in Articles : article' = [article EXCEPT ![a] = body]
  BY DEF StoreArticle
<1>2. /\ article' \in [Articles -> ArticleRow \cup {NoHelp}] /\ article'[a] = body
      /\ \A b \in Articles \ {a} : article'[b] = article[b]
  BY <1>1 DEF HelpInv, HelpIsShaped
<1>3. ASSUME NEW b \in HelpArticles'
      PROVE  ArticleInput(article'[b]) /\ collection'[article'[b].collectionId] # NoHelp
  <2>1. CASE b = a
    BY <1>2, <2>1 DEF StoreArticle
  <2>2. CASE b # a
    BY <1>2, <1>3, <2>2 DEF HelpArticles, HelpInv
  <2> QED
    BY <2>1, <2>2
<1> QED
  BY <1>2, <1>3

LEMMA RowsKeepHelp ==
  ASSUME HelpInv,
         \/ CommitArticle \/ OtherArticle \/ \E a \in Articles : DeleteArticle(a)
         \/ \E c \in Collections : SaveCollection(c) \/ CountArticles(c) \/ DeleteCollection(c)
  PROVE  HelpInv'
<1>1. CASE CommitArticle
  <2>1. PICK s \in HelpSave : s = helpSave /\ s # NoHelp /\ s.at = "judged"
    BY <1>1 DEF CommitArticle, HelpIs, HelpInv, HelpIsShaped
  <2>2. PICK t \in HelpSave : t = [s EXCEPT !.at = "stored"]
    BY DEF HelpSave
  <2>3. helpSave' = t /\ t.at = "stored" /\ t.body = s.body /\ t.opened = s.opened
    BY <1>1, <2>1, <2>2 DEF CommitArticle, HelpSave
  <2>4. s.body \in ArticleRow /\ ArticleInput(s.body)
    BY <2>1 DEF HelpSave, HelpInv, HelpIs
  <2>5. /\ article' \in [Articles -> ArticleRow \cup {NoHelp}]
        /\ \A a \in HelpArticles' :
             ArticleInput(article'[a]) /\ collection'[article'[a].collectionId] # NoHelp
    BY <1>1, <2>1, <2>4, StoringKeepsArticles DEF CommitArticle
  <2> QED
    BY <1>1, <2>1, <2>3, <2>5 DEF CommitArticle, HelpInv, HelpIsShaped, HelpIs
<1>2. CASE OtherArticle
  <2>1. /\ article' \in [Articles -> ArticleRow \cup {NoHelp}]
        /\ \A a \in HelpArticles' :
             ArticleInput(article'[a]) /\ collection'[article'[a].collectionId] # NoHelp
    BY <1>2, StoringKeepsArticles DEF OtherArticle
  <2> QED
    BY <1>2, <2>1 DEF OtherArticle, HelpInv, HelpIsShaped, HelpIs
<1>3. ASSUME NEW a \in Articles, DeleteArticle(a) PROVE HelpInv'
  <2>1. /\ article' \in [Articles -> ArticleRow \cup {NoHelp}] /\ article'[a] = NoHelp
        /\ \A b \in Articles \ {a} : article'[b] = article[b]
    BY <1>3 DEF DeleteArticle, HelpInv, HelpIsShaped
  <2> QED
    BY <1>3, <2>1 DEF DeleteArticle, HelpInv, HelpIsShaped, HelpIs, HelpArticles
<1>4. ASSUME NEW c \in Collections, SaveCollection(c) PROVE HelpInv'
  <2>1. PICK row \in CollectionRow : collection' = [collection EXCEPT ![c] = row]
    BY <1>4 DEF SaveCollection
  <2>2. /\ collection' \in [Collections -> CollectionRow \cup {NoHelp}]
        /\ \A d \in Collections : collection[d] # NoHelp => collection'[d] # NoHelp
    BY <2>1, HelpAssumption DEF HelpInv, HelpIsShaped
  <2>3. \A a \in HelpArticles : article[a].collectionId \in Collections
    BY DEF HelpInv, HelpIsShaped, HelpArticles, ArticleRow
  <2> QED
    BY <1>4, <2>2, <2>3 DEF SaveCollection, HelpInv, HelpIsShaped, HelpIs, HelpArticles
<1>5. ASSUME NEW c \in Collections, CountArticles(c) PROVE HelpInv'
  BY <1>5 DEF CountArticles, HelpInv, HelpIsShaped, HelpIs, HelpArticles
<1>6. ASSUME NEW c \in Collections, DeleteCollection(c) PROVE HelpInv'
  <2>1. UNCHANGED <<article, helpPage, helpSave>>
    BY <1>6 DEF DeleteCollection
  <2>2. CASE collection' = collection
    BY <2>1, <2>2 DEF HelpInv, HelpIsShaped, HelpIs, HelpArticles
  <2>3. CASE collection' # collection
    <3>1. InCollection(c) = {} /\ collection' = [collection EXCEPT ![c] = NoHelp]
      BY <1>6, <2>3 DEF DeleteCollection
    <3>2. /\ collection' \in [Collections -> CollectionRow \cup {NoHelp}]
          /\ \A d \in Collections \ {c} : collection'[d] = collection[d]
      BY <3>1 DEF HelpInv, HelpIsShaped
    <3>3. \A a \in HelpArticles : article[a].collectionId \in Collections \ {c}
      BY <3>1 DEF InCollection, HelpInv, HelpIsShaped, HelpArticles, ArticleRow
    <3> QED
      BY <2>1, <3>2, <3>3 DEF HelpInv, HelpIsShaped, HelpIs, HelpArticles
  <2> QED
    BY <2>2, <2>3
<1> QED
  BY <1>1, <1>2, <1>3, <1>4, <1>5, <1>6

LEMMA StepKeepsHelp ==
  ASSUME HelpInv, [HelpNext]_helpVars
  PROVE  HelpInv'
<1>1. CASE UNCHANGED helpVars
  BY <1>1 DEF helpVars, HelpInv, HelpIsShaped, HelpIs, HelpArticles
<1> QED
  BY <1>1, DialogKeepsHelp, SaveKeepsHelp, RowsKeepHelp DEF HelpNext

(* One language at a time: a complete text in the reader's or the other.   *)
LEMMA TextsAreLocalized ==
  ASSUME NEW texts \in SUBSET Lang, texts # {}, NEW lang \in Lang
  PROVE  Cardinality(Localized(texts, lang)) = 1
<1>1. PICK l : Localized(texts, lang) = {l}
  BY DEF Localized, Lang
<1> QED
  BY <1>1, FS_Singleton

LEMMA HelpIsReadable ==
  ASSUME HelpInv
  PROVE  HelpTypeOK /\ ArticlesCanBeRead
<1>1. HelpTypeOK
  BY DEF HelpInv, HelpIsShaped, HelpTypeOK, HelpPage
<1>2. \A a \in HelpArticles : collection[article[a].collectionId] # NoHelp
  BY DEF HelpInv
<1>3. ASSUME NEW a \in Articles, NEW lang \in Lang, AnswerTo(a, lang) # NoHelp
      PROVE  /\ AnswerTo(a, lang).title = AnswerTo(a, lang).content
             /\ \A b \in {a} \cup AnswerTo(a, lang).articles :
                  article[b].isPublished /\ collection[article[b].collectionId].isPublished
             /\ Cardinality(AnswerTo(a, lang).title) = 1
  <2>1. Published(a)
    BY <1>3 DEF AnswerTo
  <2>2. /\ AnswerTo(a, lang).title = Localized(article[a].title, lang)
        /\ AnswerTo(a, lang).content = Localized(article[a].content, lang)
        /\ AnswerTo(a, lang).articles
             = {b \in InCollection(article[a].collectionId) : article[b].isPublished}
    BY <2>1 DEF AnswerTo
  <2>3. /\ article[a].title \in SUBSET Lang /\ article[a].title # {}
        /\ article[a].title = article[a].content
    BY <2>1 DEF Published, HelpArticles, HelpInv, HelpIsShaped, ArticleRow, ArticleInput
  <2>4. \A b \in {a} \cup AnswerTo(a, lang).articles :
          article[b].isPublished /\ collection[article[b].collectionId].isPublished
    BY <2>1, <2>2 DEF Published, InCollection
  <2> QED
    BY <2>2, <2>3, <2>4, TextsAreLocalized
<1> QED
  BY <1>1, <1>2, <1>3 DEF ArticlesCanBeRead

LEMMA TranslationsAreKept ==
  ASSUME HelpInv, [HelpNext]_helpVars
  PROVE  TranslationsStay
<1>1. ASSUME HelpIs("judged"), article' # article, helpSave' # helpSave, helpSave.id # NoHelp
      PROVE  helpSave.opened.title \subseteq article'[helpSave.id].title
  <2>1. CommitArticle
    BY <1>1 DEF HelpNext, helpVars, OnHelpPage, LeaveLink, createArticle, TypeArticle, addLanguage,
       CloseArticle, RefreshHelp, SaveArticle, JudgeArticle, ArticleSaved, ArticleRefused,
       OtherArticle, editArticle, FollowLink, OpenAsked, DeleteArticle, SaveCollection,
       CountArticles, DeleteCollection
  <2>2. helpSave.id \in Articles /\ article' = [article EXCEPT ![helpSave.id] = helpSave.body]
    BY <1>1, <2>1 DEF CommitArticle, StoreArticle
  <2>3. article'[helpSave.id] = helpSave.body
    BY <2>2 DEF HelpInv, HelpIsShaped
  <2> QED
    BY <1>1, <2>3 DEF HelpInv, HelpIs
<1>2. ASSUME helpPage.isOpen, helpPage'.isOpen
      PROVE  helpPage.edited \subseteq helpPage'.edited
  <2>1. PICK p \in HelpPage : p = helpPage
    BY DEF HelpInv, HelpIsShaped
  <2>2. CASE helpPage' = helpPage
    BY <2>2
  <2>3. CASE helpPage' # helpPage
    <3>1. \/ \E a \in Articles : FollowLink(a)
          \/ LeaveLink \/ TypeArticle \/ addLanguage \/ CloseArticle \/ RefreshHelp \/ ArticleSaved
      BY <1>2, <2>3 DEF HelpNext, helpVars, OnHelpPage, createArticle, SaveArticle, JudgeArticle,
         CommitArticle, ArticleRefused, OtherArticle, editArticle, OpenAsked, LinkOpens,
         DeleteArticle, SaveCollection, CountArticles, DeleteCollection
    <3>2. ASSUME NEW a \in Articles, FollowLink(a) PROVE helpPage.edited \subseteq helpPage'.edited
      BY <2>1, <3>2 DEF FollowLink, HelpPage
    <3>3. CASE LeaveLink \/ addLanguage \/ CloseArticle \/ RefreshHelp \/ ArticleSaved
      BY <2>1, <3>3 DEF LeaveLink, addLanguage, CloseArticle, RefreshHelp, ArticleSaved, HelpPage
    <3>4. CASE TypeArticle
      BY <2>1, <3>4 DEF TypeArticle, HelpPage
    <3> QED
      BY <3>1, <3>2, <3>3, <3>4
  <2> QED
    BY <2>2, <2>3
<1> QED
  BY <1>1, <1>2 DEF TranslationsStay

-----------------------------------------------------------------------------
(* The timers and requests of tabs: a heartbeat is due at last when Beat   *)
(* ticks have passed, and a request is handled before that.                *)
PresenceRequest == [op : {"POST", "DELETE"}, tab : Views, at : Nat]
TimersRun ==
  /\ lastSeenAt \in Nat \cup {Nobody} /\ leftAt \in Nat \cup {Nobody}
  /\ lostAt \in Nat \cup {Nobody} /\ moments \in 0..MaxMoments
  /\ lastSeenAt # Nobody => lastSeenAt <= moments
  /\ viewing \in [Views -> Timer \cup {Nobody}] /\ sent \subseteq PresenceRequest
  /\ \A request \in sent : request.at <= moments /\ moments < request.at + Beat
  /\ \A v \in InView :
       LET t == viewing[v] IN
       /\ t.since <= moments /\ moments <= t.next /\ t.next <= moments + Beat
       /\ t.next = t.since \/ t.since + Beat <= t.next

(* Something has come of the heartbeat of a moment.                        *)
Since(when, from) == when # Nobody /\ from <= when
Answered(from) == Since(lastSeenAt, from) \/ Since(leftAt, from) \/ Since(lostAt, from)

(* The latest heartbeat of a tab is under way or something came of it, and *)
(* something came of the one before.                                       *)
HeartbeatsAreAnswered ==
  \A v \in InView :
    LET t == viewing[v] IN
    /\ t.next # t.since =>
         Answered(t.next - Beat) \/ [op |-> "POST", tab |-> v, at |-> t.next - Beat] \in sent
    /\ t.next # t.since /\ t.next # t.since + Beat => Answered(t.next - 2 * Beat)

(* Without a tab every heartbeat is older than the latest leaving.         *)
LeavingIsLast ==
  InView = {} =>
    /\ lastSeenAt # Nobody => leftAt # Nobody /\ lastSeenAt < leftAt + Beat
    /\ \A request \in sent :
         request.op = "POST" => leftAt # Nobody /\ request.at <= leftAt

PresenceInv == TimersRun /\ HeartbeatsAreAnswered /\ LeavingIsLast

LEMMA TimersAreTimers ==
  ASSUME TimersRun, NEW v \in InView
  PROVE  /\ v \in Views /\ viewing[v] \in Timer /\ viewing[v] # Nobody
         /\ viewing[v].since \in Nat /\ viewing[v].next \in Nat
BY DEF TimersRun, InView, Timer

LEMMA PresenceInitIsSound == PresenceInit => PresenceInv
BY PresenceAssumption
   DEF PresenceInit, PresenceInv, TimersRun, HeartbeatsAreAnswered, LeavingIsLast, InView

(* What has come of a heartbeat is not undone.                             *)
LEMMA StepKeepsAnswers ==
  ASSUME PresenceInv, PresenceNext, NEW from \in Int, Answered(from), from <= moments,
         moments <= from + 2 * Beat
  PROVE  Answered(from)'
<1> USE PresenceAssumption DEF PresenceInv, TimersRun, Answered, Since
<1>1. CASE PresenceTick
  BY <1>1 DEF PresenceTick
<1>2. CASE SweepRows
  BY <1>2 DEF SweepRows
<1>3. ASSUME NEW v \in Views, Open(v) \/ Heartbeat(v) \/ Leave(v) PROVE Answered(from)'
  BY <1>3 DEF Open, Heartbeat, Leave
<1>4. ASSUME NEW request \in sent, Handle(request) \/ Lose(request) PROVE Answered(from)'
  BY <1>4 DEF Handle, Lose, Upserted, PresenceRequest
<1> QED
  BY <1>1, <1>2, <1>3, <1>4 DEF PresenceNext

(* The moments of a tab's heartbeats are in reach of the lemma above.      *)
LEMMA HeartbeatsAreRecent ==
  ASSUME PresenceInv, NEW v \in InView, NEW next, NEW since,
         next = viewing[v].next, since = viewing[v].since
  PROVE  /\ next \in Nat /\ since \in Nat
         /\ next # since =>
              /\ next - Beat <= moments /\ moments <= next - Beat + 2 * Beat
              /\ \/ Answered(next - Beat)
                 \/ [op |-> "POST", tab |-> v, at |-> next - Beat] \in sent
         /\ next # since /\ next # since + Beat =>
              /\ next - 2 * Beat <= moments /\ moments <= next - 2 * Beat + 2 * Beat
              /\ Answered(next - 2 * Beat)
<1>1. next \in Nat /\ since \in Nat /\ Beat \in Nat \ {0} /\ moments \in Nat
  BY TimersAreTimers, PresenceAssumption DEF PresenceInv, TimersRun
<1>2. moments <= next /\ next <= moments + Beat
  BY DEF PresenceInv, TimersRun
<1>3. /\ next # since =>
           Answered(next - Beat) \/ [op |-> "POST", tab |-> v, at |-> next - Beat] \in sent
      /\ next # since /\ next # since + Beat => Answered(next - 2 * Beat)
  BY DEF PresenceInv, HeartbeatsAreAnswered
<1> QED
  BY <1>1, <1>2, <1>3

LEMMA TickKeepsPresence ==
  ASSUME PresenceInv, PresenceTick
  PROVE  PresenceInv'
<1> USE PresenceAssumption
<1>1. InView' = InView /\ viewing' = viewing /\ sent' = sent
  BY DEF PresenceTick, InView
<1>2. TimersRun'
  <2>1. \A v \in InView : /\ viewing[v].since \in Nat /\ viewing[v].next \in Nat
                          /\ viewing[v].next > moments
    BY TimersAreTimers DEF PresenceInv, PresenceTick
  <2>2. \A request \in sent : request.at \in Nat /\ moments + 1 < request.at + Beat
    BY DEF PresenceInv, PresenceTick, TimersRun, PresenceRequest
  <2> QED
    BY <1>1, <2>1, <2>2 DEF PresenceInv, PresenceTick, TimersRun
<1>3. HeartbeatsAreAnswered'
  BY <1>1 DEF PresenceInv, HeartbeatsAreAnswered, Answered, Since, PresenceTick
<1>4. LeavingIsLast'
  BY <1>1 DEF PresenceInv, LeavingIsLast, PresenceTick
<1> QED
  BY <1>2, <1>3, <1>4 DEF PresenceInv

LEMMA SweepKeepsPresence ==
  ASSUME PresenceInv, SweepRows
  PROVE  PresenceInv'
<1>1. /\ InView' = InView /\ viewing' = viewing /\ sent' = sent /\ moments' = moments
      /\ leftAt' = leftAt /\ lostAt' = lostAt /\ lastSeenAt' = Nobody
  BY DEF SweepRows, InView
<1>2. TimersRun'
  BY <1>1 DEF PresenceInv, TimersRun
<1>3. HeartbeatsAreAnswered'
  <2>1. ASSUME NEW v \in InView, NEW next, NEW since,
               next = viewing[v].next, since = viewing[v].since
        PROVE  /\ next # since => Answered(next - Beat)'
                    \/ [op |-> "POST", tab |-> v, at |-> next - Beat] \in sent
               /\ next # since /\ next # since + Beat => Answered(next - 2 * Beat)'
    BY <2>1, HeartbeatsAreRecent, StepKeepsAnswers, PresenceAssumption DEF PresenceNext
  <2> QED
    BY <1>1, <2>1 DEF HeartbeatsAreAnswered, Answered
<1>4. LeavingIsLast'
  BY <1>1 DEF PresenceInv, LeavingIsLast
<1> QED
  BY <1>2, <1>3, <1>4 DEF PresenceInv

LEMMA OpenKeepsPresence ==
  ASSUME PresenceInv, NEW v \in Views, Open(v)
  PROVE  PresenceInv'
<1> USE PresenceAssumption
<1>1. /\ sent' = sent /\ moments' = moments /\ leftAt' = leftAt /\ lostAt' = lostAt
      /\ lastSeenAt' = lastSeenAt /\ viewing[v] = Nobody /\ moments \in Nat
      /\ viewing' = [viewing EXCEPT ![v] = [since |-> moments, next |-> moments]]
      /\ viewing \in [Views -> Timer \cup {Nobody}]
  BY DEF Open, PresenceInv, TimersRun
<1>2. [since |-> moments, next |-> moments] \in Timer
  BY <1>1 DEF Timer
<1>3. /\ viewing' \in [Views -> Timer \cup {Nobody}] /\ InView' = InView \cup {v}
      /\ viewing'[v].since = moments /\ viewing'[v].next = moments
      /\ \A w \in InView : viewing'[w] = viewing[w]
  BY <1>1, <1>2 DEF InView
<1>4. TimersRun'
  BY <1>1, <1>3 DEF PresenceInv, TimersRun
<1>5. HeartbeatsAreAnswered'
  BY <1>1, <1>3 DEF PresenceInv, HeartbeatsAreAnswered, Answered, Since
<1>6. LeavingIsLast'
  BY <1>3 DEF LeavingIsLast
<1> QED
  BY <1>4, <1>5, <1>6 DEF PresenceInv

LEMMA HeartbeatKeepsPresence ==
  ASSUME PresenceInv, NEW v \in Views, Heartbeat(v)
  PROVE  PresenceInv'
<1> USE PresenceAssumption
<1> DEFINE beat == [op |-> "POST", tab |-> v, at |-> moments]
<1>1. /\ sent' = sent \cup {beat} /\ moments' = moments /\ leftAt' = leftAt /\ lostAt' = lostAt
      /\ lastSeenAt' = lastSeenAt /\ v \in InView /\ moments \in Nat
      /\ viewing \in [Views -> Timer \cup {Nobody}]
  BY DEF Heartbeat, Beats, PresenceInv, TimersRun, InView
<1>2. PICK t \in Timer : t = viewing[v] /\ t.next = moments /\ t # Nobody
  BY DEF Heartbeat, Beats, PresenceInv, TimersRun
<1>3. PICK u \in Timer : u = [t EXCEPT !.next = moments + Beat]
  <2>1. PICK n \in Nat : n = moments + Beat
    BY <1>1
  <2>2. [t EXCEPT !.next = n] \in Timer
    BY DEF Timer
  <2> QED
    BY <2>1, <2>2
<1>4. /\ t.since \in Nat /\ u.since = t.since /\ u.next = moments + Beat
      /\ viewing' = [viewing EXCEPT ![v] = u]
  BY <1>1, <1>2, <1>3 DEF Heartbeat, Beats, Timer
<1>5. /\ viewing' \in [Views -> Timer \cup {Nobody}] /\ InView' = InView
      /\ viewing'[v] = u /\ \A w \in InView \ {v} : viewing'[w] = viewing[w]
  BY <1>1, <1>3, <1>4 DEF InView
<1>6. beat \in PresenceRequest /\ beat.at = moments
  BY <1>1 DEF PresenceRequest
<1>7. TimersRun'
  <2>1. t.since <= moments /\ (t.next = t.since \/ t.since + Beat <= t.next)
    BY <1>1, <1>2 DEF PresenceInv, TimersRun
  <2>2. \A w \in InView' :
          LET r == viewing'[w] IN
          /\ r.since <= moments /\ moments <= r.next /\ r.next <= moments + Beat
          /\ r.next = r.since \/ r.since + Beat <= r.next
    BY <1>1, <1>2, <1>4, <1>5, <2>1 DEF PresenceInv, TimersRun
  <2> QED
    BY <1>1, <1>5, <1>6, <2>2 DEF PresenceInv, TimersRun
<1>8. HeartbeatsAreAnswered'
  <2>1. t.next # t.since => Answered(t.next - Beat)
    <3>1. \A request \in sent : request.at = t.next - Beat => moments < moments
      BY <1>1, <1>2 DEF PresenceInv, TimersRun, PresenceRequest
    <3>2. [op |-> "POST", tab |-> v, at |-> t.next - Beat] \notin sent
      BY <1>1, <3>1
    <3> QED
      BY <1>1, <1>2, <3>2 DEF PresenceInv, HeartbeatsAreAnswered
  <2>2. \A from : Answered(from)' <=> Answered(from)
    BY <1>1 DEF Answered, Since
  <2>3. /\ u.next - Beat = moments
        /\ u.next # u.since /\ u.next # u.since + Beat => Answered(u.next - 2 * Beat)
    BY <1>1, <1>2, <1>4, <2>1
  <2>4. [op |-> "POST", tab |-> v, at |-> u.next - Beat] \in sent'
    BY <1>1, <2>3
  <2>5. \A w \in InView' \ {v} : viewing'[w] = viewing[w] /\ w \in InView
    BY <1>5
  <2>6. sent \subseteq sent'
    BY <1>1
  <2> QED
    BY <1>5, <2>2, <2>3, <2>4, <2>5, <2>6 DEF PresenceInv, HeartbeatsAreAnswered
<1>9. LeavingIsLast'
  BY <1>1, <1>5 DEF LeavingIsLast
<1> QED
  BY <1>7, <1>8, <1>9 DEF PresenceInv

LEMMA LeaveKeepsPresence ==
  ASSUME PresenceInv, NEW v \in Views, Leave(v)
  PROVE  PresenceInv'
<1> USE PresenceAssumption
<1> DEFINE last == [op |-> "DELETE", tab |-> v, at |-> moments]
<1>1. /\ sent' = sent \cup {last} /\ moments' = moments /\ leftAt' = moments /\ lostAt' = lostAt
      /\ lastSeenAt' = lastSeenAt /\ viewing' = [viewing EXCEPT ![v] = Nobody]
      /\ viewing \in [Views -> Timer \cup {Nobody}] /\ moments \in Nat
  BY DEF Leave, PresenceInv, TimersRun
<1>2. /\ viewing' \in [Views -> Timer \cup {Nobody}] /\ InView' = InView \ {v}
      /\ \A w \in InView' : viewing'[w] = viewing[w]
  BY <1>1 DEF InView
<1>3. last \in PresenceRequest /\ last.at = moments
  BY <1>1 DEF PresenceRequest
<1>4. TimersRun'
  BY <1>1, <1>2, <1>3 DEF PresenceInv, TimersRun
<1>5. HeartbeatsAreAnswered'
  <2>1. ASSUME NEW w \in InView', NEW next, NEW since,
               next = viewing[w].next, since = viewing[w].since
        PROVE  /\ next # since => Answered(next - Beat)'
                    \/ [op |-> "POST", tab |-> w, at |-> next - Beat] \in sent
               /\ next # since /\ next # since + Beat => Answered(next - 2 * Beat)'
    BY <1>2, <2>1, HeartbeatsAreRecent, StepKeepsAnswers, PresenceAssumption DEF PresenceNext
  <2> QED
    BY <1>1, <1>2, <2>1 DEF HeartbeatsAreAnswered, Answered
<1>6. LeavingIsLast'
  <2>1. \A request \in sent' : request.at \in Nat /\ request.at <= moments
    BY <1>1, <1>3 DEF PresenceInv, TimersRun, PresenceRequest
  <2>2. lastSeenAt # Nobody => lastSeenAt \in Nat /\ lastSeenAt <= moments
    BY DEF PresenceInv, TimersRun
  <2> QED
    BY <1>1, <2>1, <2>2 DEF LeavingIsLast
<1> QED
  BY <1>4, <1>5, <1>6 DEF PresenceInv

LEMMA EndOfRequestKeepsPresence ==
  ASSUME PresenceInv, NEW request \in sent, Handle(request) \/ Lose(request)
  PROVE  PresenceInv'
<1> USE PresenceAssumption
<1>1. /\ sent' = sent \ {request} /\ moments' = moments /\ viewing' = viewing
      /\ moments \in Nat /\ InView' = InView
  BY DEF Handle, Lose, PresenceInv, TimersRun, InView
<1>2. /\ lastSeenAt' \in {moments, Nobody, lastSeenAt} /\ leftAt' \in {moments, leftAt}
      /\ lostAt' \in {moments, lostAt}
  BY DEF Handle, Lose, Upserted
<1>0. PresenceNext
  BY DEF PresenceNext
<1>3. TimersRun'
  BY <1>1, <1>2 DEF PresenceInv, TimersRun
<1>4. HeartbeatsAreAnswered'
  <2>1. request.op = "POST" => Answered(request.at)'
    <3>1. request.at \in Nat /\ request.at <= moments
      BY DEF PresenceInv, TimersRun, PresenceRequest
    <3>2. request.op = "POST" => Since(lastSeenAt, request.at)' \/ Since(lostAt, request.at)'
      BY <1>1, <3>1 DEF Handle, Lose, Upserted, Since
    <3> QED
      BY <3>2 DEF Answered, Since
  <2>2. ASSUME NEW w \in InView, NEW next, NEW since,
               next = viewing[w].next, since = viewing[w].since
        PROVE  /\ next # since => Answered(next - Beat)'
                    \/ [op |-> "POST", tab |-> w, at |-> next - Beat] \in sent'
               /\ next # since /\ next # since + Beat => Answered(next - 2 * Beat)'
    <3>0. next \in Nat
      BY <2>2, HeartbeatsAreRecent
    <3>6. next # since => next - Beat <= moments /\ moments <= next - Beat + 2 * Beat
      BY <2>2, HeartbeatsAreRecent
    <3>7. next # since /\ next # since + Beat =>
            /\ next - 2 * Beat <= moments /\ moments <= next - 2 * Beat + 2 * Beat
            /\ Answered(next - 2 * Beat)
      BY <2>2, HeartbeatsAreRecent
    <3>5. next - Beat \in Int /\ next - 2 * Beat \in Int
      BY <3>0
    <3>1. Answered(next - Beat) /\ next # since => Answered(next - Beat)'
      BY <1>0, <3>5, <3>6, StepKeepsAnswers
    <3>2. next # since /\ next # since + Beat => Answered(next - 2 * Beat)'
      BY <1>0, <3>5, <3>7, StepKeepsAnswers
    <3>3. [op |-> "POST", tab |-> w, at |-> next - Beat] \in sent =>
            \/ [op |-> "POST", tab |-> w, at |-> next - Beat] \in sent'
            \/ request = [op |-> "POST", tab |-> w, at |-> next - Beat]
      BY <1>1
    <3>4. request = [op |-> "POST", tab |-> w, at |-> next - Beat] => Answered(next - Beat)'
      BY <2>1
    <3> QED
      BY <2>2, <3>1, <3>2, <3>3, <3>4, HeartbeatsAreRecent
  <2> QED
    BY <1>1, <2>2 DEF HeartbeatsAreAnswered, Answered
<1>5. LeavingIsLast'
  <2>1. request.at \in Nat /\ request.at <= moments /\ moments < request.at + Beat
    BY DEF PresenceInv, TimersRun, PresenceRequest
  <2>2. \A other \in sent : other.at \in Nat /\ other.at <= moments
    BY DEF PresenceInv, TimersRun, PresenceRequest
  <2>3. leftAt # Nobody => leftAt \in Nat
    BY DEF PresenceInv, TimersRun
  <2>4. CASE Handle(request) /\ request.op = "POST"
    BY <1>1, <2>1, <2>3, <2>4 DEF Handle, Upserted, PresenceInv, LeavingIsLast
  <2>5. CASE Handle(request) /\ request.op = "DELETE"
    BY <1>1, <2>2, <2>5 DEF Handle, PresenceInv, LeavingIsLast
  <2>6. CASE Lose(request)
    BY <1>1, <2>6 DEF Lose, PresenceInv, LeavingIsLast
  <2>7. request.op \in {"POST", "DELETE"}
    BY DEF PresenceInv, TimersRun, PresenceRequest
  <2> QED
    BY <2>4, <2>5, <2>6, <2>7
<1> QED
  BY <1>3, <1>4, <1>5 DEF PresenceInv

LEMMA StepKeepsPresence ==
  ASSUME PresenceInv, [PresenceNext]_presenceVars
  PROVE  PresenceInv'
<1>1. CASE UNCHANGED presenceVars
  BY <1>1 DEF presenceVars, PresenceInv, TimersRun, HeartbeatsAreAnswered, Answered, Since,
     LeavingIsLast, InView
<1> QED
  BY <1>1, TickKeepsPresence, SweepKeepsPresence, OpenKeepsPresence, HeartbeatKeepsPresence,
     LeaveKeepsPresence, EndOfRequestKeepsPresence DEF PresenceNext

LEMMA PresenceIsTyped ==
  ASSUME PresenceInv
  PROVE  PresenceTypeOK
<1>1. \A v \in InView : viewing[v].since \in Nat /\ viewing[v].since <= moments
  BY TimersAreTimers DEF PresenceInv, TimersRun
<1> QED
  BY <1>1, PresenceAssumption DEF PresenceInv, TimersRun, PresenceTypeOK

(* Whatever has come of the heartbeats lists the viewer, or excuses it.    *)
LEMMA AnsweredIsListed ==
  ASSUME PresenceInv
  PROVE  ViewersAreListed
<1> USE PresenceAssumption
<1>1. /\ moments \in Nat /\ lastSeenAt \in Nat \cup {Nobody}
      /\ leftAt \in Nat \cup {Nobody} /\ lostAt \in Nat \cup {Nobody}
  BY DEF PresenceInv, TimersRun
<1>2. IsListed /\ InView = {} => Within(leftAt, Beat + Fade)
  BY <1>1 DEF IsListed, Seen, Within, PresenceInv, LeavingIsLast
<1>3. ASSUME NEW v \in InView
      PROVE  IsListed \/ Within(viewing[v].since, Beat) \/ Within(leftAt, 2 * Beat)
               \/ Within(lostAt, 2 * Beat)
  <2>1. PICK next \in Nat, since \in Nat : next = viewing[v].next /\ since = viewing[v].since
    BY TimersAreTimers DEF PresenceInv
  <2>2. /\ since <= moments /\ moments <= next /\ next <= moments + Beat /\ since # Nobody
    BY <2>1 DEF PresenceInv, TimersRun
  <2>3. ASSUME NEW from \in Int, Answered(from), moments < from + 2 * Beat
        PROVE  IsListed \/ Within(leftAt, 2 * Beat) \/ Within(lostAt, 2 * Beat)
    <3>1. CASE Since(lastSeenAt, from)
      BY <1>1, <2>3, <3>1 DEF Since, IsListed, Seen
    <3>2. CASE Since(leftAt, from)
      BY <1>1, <2>3, <3>2 DEF Since, Within
    <3>3. CASE Since(lostAt, from)
      BY <1>1, <2>3, <3>3 DEF Since, Within
    <3> QED
      BY <2>3, <3>1, <3>2, <3>3 DEF Answered
  <2>4. CASE next = since
    BY <1>1, <2>1, <2>2, <2>4 DEF Within
  <2>5. CASE next # since /\ Answered(next - Beat)
    <3>1. moments < next - Beat + 2 * Beat
      BY <1>1, <2>1, <2>2
    <3> QED
      BY <2>1, <2>3, <2>5, <3>1
  <2>6. CASE next # since /\ ~Answered(next - Beat)
    <3>1. [op |-> "POST", tab |-> v, at |-> next - Beat] \in sent
      BY <2>1, <2>6, HeartbeatsAreRecent
    <3>2. moments < next
      BY <1>1, <2>1, <3>1 DEF PresenceInv, TimersRun
    <3>3. CASE next = since + Beat
      BY <1>1, <2>1, <2>2, <3>2, <3>3 DEF Within
    <3>4. CASE next # since + Beat
      <4>1. Answered(next - 2 * Beat)
        BY <2>1, <2>6, <3>4, HeartbeatsAreRecent
      <4> QED
        BY <1>1, <2>1, <2>3, <3>2, <4>1
    <3> QED
      BY <3>3, <3>4
  <2> QED
    BY <2>4, <2>5, <2>6
<1> QED
  BY <1>2, <1>3 DEF ViewersAreListed

-----------------------------------------------------------------------------
(* An administrator can always sign in, and the target of a migration has  *)
(* a phase, however tasks, restarts and other administrators meet          *)
(* (sso-migration.mjs).                                                    *)
THEOREM SignInAlwaysStands ==
  SignInSpec => [](SomeoneCanSignIn /\ TargetHasPhase)
<1>1. SignInInit => SignInInv
  BY SignInInitIsSound
<1>2. SignInInv /\ [SignInNext]_signInVars => SignInInv'
  BY StepKeepsSignIn
<1>3. SignInInv => SomeoneCanSignIn /\ TargetHasPhase
  BY SomeoneSignsIn DEF SignInInv
<1> QED
  BY <1>1, <1>2, <1>3, PTL DEF SignInSpec

(* A task that no other one overlaps clears neither the slot in use nor    *)
(* the target, and makes active only a provider that is loaded.            *)
THEOREM MigrationsAreSound ==
  SignInSpec => [][MigrationIsSound]_signInVars
<1>1. SignInInit => SignInInv
  BY SignInInitIsSound
<1>2. SignInInv /\ [SignInNext]_signInVars => SignInInv'
  BY StepKeepsSignIn
<1>3. SignInInv /\ SignInInv' => MigrationIsSound
  BY StepMigratesSoundly
<1> QED
  BY <1>1, <1>2, <1>3, PTL DEF SignInSpec

(* Once nothing is in flight, the password that the users page shows is    *)
(* the user's, whatever requests about the user met.                       *)
THEOREM ShownPasswordsWork == UserSpec => []ShownPasswordWorks
<1>1. UserInit => UsersInv
  BY UsersInitIsSound
<1>2. UsersInv /\ [UserNext]_userVars => UsersInv'
  BY StepKeepsUsers
<1>3. UsersInv => ShownPasswordWorks
  BY UsersAreTruthful
<1> QED
  BY <1>1, <1>2, <1>3, PTL DEF UserSpec

(* A dialog of the users page changes what was edited in it, a field that  *)
(* was not keeps its value or goes back to the one the dialog opened with, *)
(* a tick changes one department, and a requester is left in none.         *)
THEOREM UserRequestsAreMeant ==
  UserSpec => [][RequestsChangeWhatWasMeant]_userVars
<1>1. UserInit => UsersInv
  BY UsersInitIsSound
<1>2. UsersInv /\ [UserNext]_userVars => UsersInv'
  BY StepKeepsUsers
<1>3. UsersInv /\ [UserNext]_userVars => [RequestsChangeWhatWasMeant]_userVars
  BY RequestsStayMeant
<1> QED
  BY <1>1, <1>2, <1>3, PTL DEF UserSpec

(* A field that was not edited in a dialog of the departments page keeps   *)
(* its value or goes back to the one the dialog was opened with.           *)
THEOREM DepartmentDialogsAreMeant ==
  DeptsSpec => [][DialogChangesWhatWasEdited]_deptVars
<1>1. DeptsInit => DeptsInv
  BY DeptsInitIsSound
<1>2. DeptsInv /\ [DeptsNext]_deptVars => DeptsInv'
  BY StepKeepsDepts
<1>3. DeptsInv /\ [DeptsNext]_deptVars => [DialogChangesWhatWasEdited]_deptVars
  BY DialogsStayMeant
<1> QED
  BY <1>1, <1>2, <1>3, PTL DEF DeptsSpec

(* A ticket is in its category's department, unless a save that had not    *)
(* counted it moved the category while the ticket was being filed; and a   *)
(* category is archived exactly when it is not active.                     *)
THEOREM TicketsStayInDepartment == KindsSpec => []TicketsStayWithTheirCategory
<1>1. KindsInit => KindsInv
  BY KindsInitIsSound
<1>2. KindsInv /\ [KindsNext]_kindVars => KindsInv'
  BY StepKeepsKinds
<1>3. KindsInv => TicketsStayWithTheirCategory
  BY KindsAreTyped
<1> QED
  BY <1>1, <1>2, <1>3, PTL DEF KindsSpec

(* As long as no two requests about a client crossed, a client with access *)
(* to all departments names none, and once the answers are there the key   *)
(* that the tab shows is the client's.                                     *)
THEOREM ClientsAreShown == ApiSpec => []KeysAndAccessAreAsShown
<1>1. ApiInit => ClientsInv
  BY ClientsInitIsSound
<1>2. ClientsInv /\ [ApiNext]_apiVars => ClientsInv'
  BY StepKeepsClients
<1>3. ClientsInv => KeysAndAccessAreAsShown
  BY ClientsAreAsShown
<1> QED
  BY <1>1, <1>2, <1>3, PTL DEF ApiSpec

(* Every article is in a collection that is there, and a reader is shown   *)
(* its title and text in one and the same language, and published rows.    *)
THEOREM ArticlesCanAlwaysBeRead == HelpSpec => []ArticlesCanBeRead
<1>1. HelpInit => HelpInv
  BY HelpInitIsSound
<1>2. HelpInv /\ [HelpNext]_helpVars => HelpInv'
  BY StepKeepsHelp
<1>3. HelpInv => ArticlesCanBeRead
  BY HelpIsReadable
<1> QED
  BY <1>1, <1>2, <1>3, PTL DEF HelpSpec

(* A save of an article drops none of the languages it was opened with,    *)
(* and an open dialog keeps what was edited in it.                         *)
THEOREM TranslationsAreNeverDropped == HelpSpec => [][TranslationsStay]_helpVars
<1>1. HelpInit => HelpInv
  BY HelpInitIsSound
<1>2. HelpInv /\ [HelpNext]_helpVars => HelpInv'
  BY StepKeepsHelp
<1>3. HelpInv /\ [HelpNext]_helpVars => [TranslationsStay]_helpVars
  BY TranslationsAreKept
<1> QED
  BY <1>1, <1>2, <1>3, PTL DEF HelpSpec

(* Who has a ticket open for a heartbeat is listed, but for a while after  *)
(* a tab was closed or a heartbeat lost, and who has left it is not for    *)
(* long; for every number of tabs and whatever order requests arrive in.   *)
THEOREM ViewersAreAlwaysListed == PresenceSpec => []ViewersAreListed
<1>1. PresenceInit => PresenceInv
  BY PresenceInitIsSound
<1>2. PresenceInv /\ [PresenceNext]_presenceVars => PresenceInv'
  BY StepKeepsPresence
<1>3. PresenceInv => ViewersAreListed
  BY AnsweredIsListed
<1> QED
  BY <1>1, <1>2, <1>3, PTL DEF PresenceSpec

-----------------------------------------------------------------------------
(* The part that takes steps keeps its invariant; the installation keeps   *)
(* what it starts with while another part does.                            *)
AccessInv ==
  /\ subject = "accounts" => SessionsInv
  /\ subject = "throttle" => ThrottleInv
  /\ subject = "signIn" => SignInInv
  /\ InstallationInv
PagesInv ==
  /\ subject = "users" => UsersInv
  /\ subject = "departments" => DeptsInv
  /\ subject = "categories" => KindsInv
  /\ subject = "clients" => ClientsInv
  /\ subject = "help" => HelpInv
  /\ subject = "presence" => PresenceInv
ManagementInv == AccessInv /\ PagesInv

managementVars == <<subject, administrationVars, pageVars>>

LEMMA ManagementInitIsSound == ManagementInit => ManagementInv
<1> SUFFICES ASSUME ManagementInit PROVE ManagementInv
  OBVIOUS
<1>1. AccessInv
  BY InitHasSoundSessions, InitCountsOverrun, SignInInitIsSound, InstallationInitIsTyped,
     InitIsSound DEF AccessInv, InstallationInv, ManagementInit, AdministrationStart
<1>2. PagesInv
  BY UsersInitIsSound, DeptsInitIsSound, KindsInitIsSound, ClientsInitIsSound,
     HelpInitIsSound, PresenceInitIsSound DEF PagesInv, ManagementInit
<1> QED
  BY <1>1, <1>2 DEF ManagementInv

(* The steps of the parts, each a step of its own or none.                 *)
LEMMA AccessSteps ==
  ASSUME [ManagementNext]_managementVars
  PROVE  /\ subject' = subject
         /\ subject = "accounts" => AccountsNext \/ UNCHANGED administrationVars
         /\ subject = "throttle" => ThrottleNext \/ UNCHANGED administrationVars
         /\ subject = "signIn" => SignInNext \/ UNCHANGED administrationVars
         /\ subject = "installation" => InstallationNext \/ UNCHANGED administrationVars
         /\ InstallationNext \/ UNCHANGED installationVars
<1>1. CASE UNCHANGED managementVars
  BY <1>1 DEF managementVars, administrationVars
<1>2. CASE AdministrationNext
  BY <1>2 DEF AdministrationNext
<1>3. CASE UNCHANGED <<subject, administrationVars>>
  BY <1>3 DEF administrationVars
<1> QED
  BY <1>1, <1>2, <1>3 DEF ManagementNext

LEMMA PageSteps ==
  ASSUME [ManagementNext]_managementVars
  PROVE  /\ subject = "users" => UserNext \/ UNCHANGED pageVars
         /\ subject = "departments" => DeptsNext \/ UNCHANGED pageVars
         /\ subject = "categories" => KindsNext \/ UNCHANGED pageVars
         /\ subject = "clients" => ApiNext \/ UNCHANGED pageVars
         /\ subject = "help" => HelpNext \/ UNCHANGED pageVars
         /\ subject = "presence" => PresenceNext \/ UNCHANGED pageVars
<1>1. CASE UNCHANGED managementVars
  BY <1>1 DEF managementVars
<1>2. CASE UNCHANGED pageVars
  BY <1>2
<1> QED
  BY <1>1, <1>2, Zenon DEF ManagementNext

LEMMA StepKeepsManagement ==
  ASSUME ManagementInv, [ManagementNext]_managementVars
  PROVE  ManagementInv'
<1>1. subject' = subject
  BY AccessSteps
<1>2. AccessInv'
  <2>1. subject = "accounts" => SessionsInv'
    BY AccessSteps, StepKeepsSessionsSound DEF ManagementInv, AccessInv, administrationVars
  <2>2. subject = "throttle" => ThrottleInv'
    BY AccessSteps, StepCountsOverrun DEF ManagementInv, AccessInv, administrationVars
  <2>3. subject = "signIn" => SignInInv'
    BY AccessSteps, StepKeepsSignIn DEF ManagementInv, AccessInv, administrationVars
  <2>4. InstallationInv'
    BY AccessSteps, StepIsTyped, StepIsSound DEF ManagementInv, AccessInv, InstallationInv
  <2> QED
    BY <1>1, <2>1, <2>2, <2>3, <2>4 DEF AccessInv
<1>3. PagesInv'
  <2>1. subject = "users" => UsersInv'
    BY PageSteps, StepKeepsUsers DEF ManagementInv, PagesInv, pageVars
  <2>2. subject = "departments" => DeptsInv'
    BY PageSteps, StepKeepsDepts DEF ManagementInv, PagesInv, pageVars
  <2>3. subject = "categories" => KindsInv'
    BY PageSteps, StepKeepsKinds DEF ManagementInv, PagesInv, pageVars
  <2>4. subject = "clients" => ClientsInv'
    BY PageSteps, StepKeepsClients DEF ManagementInv, PagesInv, pageVars
  <2>5. subject = "help" => HelpInv'
    BY PageSteps, StepKeepsHelp DEF ManagementInv, PagesInv, pageVars
  <2>6. subject = "presence" => PresenceInv'
    BY PageSteps, StepKeepsPresence DEF ManagementInv, PagesInv, pageVars
  <2> QED
    BY <1>1, <2>1, <2>2, <2>3, <2>4, <2>5, <2>6 DEF PagesInv
<1> QED
  BY <1>2, <1>3 DEF ManagementInv

(* The rows, the pages and what is in flight keep their shape.             *)
THEOREM ManagementIsTyped == ManagementSpec => []ManagementTypeOK
<1>1. ManagementInit => ManagementInv
  BY ManagementInitIsSound
<1>2. ManagementInv /\ [ManagementNext]_managementVars => ManagementInv'
  BY StepKeepsManagement
<1>3. ManagementInv => ManagementTypeOK
  <2> SUFFICES ASSUME ManagementInv PROVE ManagementTypeOK
    OBVIOUS
  <2>1. AdministrationTypeOK
    BY DEF ManagementInv, AccessInv, AdministrationTypeOK, SessionsInv, ThrottleInv,
       SignInInv, InstallationInv
  <2> QED
    BY <2>1, UsersAreTruthful, DeptsAreTyped, KindsAreTyped, ClientsAreAsShown,
       HelpIsReadable, PresenceIsTyped DEF ManagementInv, PagesInv, ManagementTypeOK
<1> QED
  BY <1>1, <1>2, <1>3, PTL DEF ManagementSpec, managementVars

(* A guessed password meets a lockout, and an administrator can sign in    *)
(* whatever became of the settings.                                        *)
THEOREM SignInIsGuarded == ManagementSpec => []SignInStands
<1>1. ManagementInit => ManagementInv
  BY ManagementInitIsSound
<1>2. ManagementInv /\ [ManagementNext]_managementVars => ManagementInv'
  BY StepKeepsManagement
<1>3. ManagementInv => SignInStands
  BY SomeoneSignsIn DEF ManagementInv, AccessInv, SignInStands, ThrottleInv, SignInInv
<1> QED
  BY <1>1, <1>2, <1>3, PTL DEF ManagementSpec, managementVars

(* What the pages show of users, categories, clients, articles and viewers *)
(* is what holds, as the theorems about each of them say.                  *)
THEOREM PagesShowWhatHolds == ManagementSpec => []PagesAreTruthful
<1>1. ManagementInit => ManagementInv
  BY ManagementInitIsSound
<1>2. ManagementInv /\ [ManagementNext]_managementVars => ManagementInv'
  BY StepKeepsManagement
<1>3. ManagementInv => PagesAreTruthful
  BY UsersAreTruthful, KindsAreTyped, ClientsAreAsShown, HelpIsReadable, AnsweredIsListed
     DEF ManagementInv, PagesInv, PagesAreTruthful
<1> QED
  BY <1>1, <1>2, <1>3, PTL DEF ManagementSpec, managementVars

(* Ended sessions stay ended, a migration spares what is in use, and what  *)
(* is installed stays installed.                                           *)
THEOREM AccessStaysDone == ManagementSpec => AccessIsNotUndone
<1>1. ManagementInit => ManagementInv
  BY ManagementInitIsSound
<1>2. ManagementInv /\ [ManagementNext]_managementVars => ManagementInv'
  BY StepKeepsManagement
<1>3. ManagementInv /\ ManagementInv' /\ [ManagementNext]_managementVars =>
        [/\ subject = "accounts" => SessionsStayEnded
         /\ subject = "signIn" => MigrationIsSound
         /\ subject = "installation" => InstalledForGood]_administrationVars
  <2> SUFFICES ASSUME ManagementInv, ManagementInv', [ManagementNext]_managementVars,
                      ~ UNCHANGED administrationVars
               PROVE  /\ subject = "accounts" => SessionsStayEnded
                      /\ subject = "signIn" => MigrationIsSound
                      /\ subject = "installation" => InstalledForGood
    OBVIOUS
  <2>1. subject = "accounts" => SessionsStayEnded
    BY AccessSteps, SessionsEndForGood, Zenon DEF ManagementInv, AccessInv
  <2>2. subject = "signIn" => MigrationIsSound
    BY AccessSteps, StepMigratesSoundly DEF ManagementInv, AccessInv
  <2>3. subject = "installation" => InstalledForGood
    BY AccessSteps, RecordStays, StartGoesOn, Zenon
       DEF ManagementInv, AccessInv, InstalledForGood
  <2> QED
    BY <2>1, <2>2, <2>3
<1> QED
  BY <1>1, <1>2, <1>3, PTL DEF ManagementSpec, managementVars, AccessIsNotUndone

(* Requests of the users, departments and help pages change what their     *)
(* administrator meant, as the theorems about each of them say.            *)
THEOREM RequestsAreMeant == ManagementSpec => ChangesAreAsMeant
<1>1. ManagementInit => ManagementInv
  BY ManagementInitIsSound
<1>2. ManagementInv /\ [ManagementNext]_managementVars => ManagementInv'
  BY StepKeepsManagement
<1>3. ManagementInv /\ [ManagementNext]_managementVars =>
        [/\ subject = "users" => RequestsChangeWhatWasMeant
         /\ subject = "departments" => DialogChangesWhatWasEdited
         /\ subject = "help" => TranslationsStay]_pageVars
  <2> SUFFICES ASSUME ManagementInv, [ManagementNext]_managementVars,
                      ~ UNCHANGED pageVars
               PROVE  /\ subject = "users" => RequestsChangeWhatWasMeant
                      /\ subject = "departments" => DialogChangesWhatWasEdited
                      /\ subject = "help" => TranslationsStay
    OBVIOUS
  <2>1. subject = "users" => RequestsChangeWhatWasMeant
    BY PageSteps, RequestsStayMeant DEF ManagementInv, PagesInv
  <2>2. subject = "departments" => DialogChangesWhatWasEdited
    BY PageSteps, DialogsStayMeant DEF ManagementInv, PagesInv
  <2>3. subject = "help" => TranslationsStay
    BY PageSteps, TranslationsAreKept DEF ManagementInv, PagesInv
  <2> QED
    BY <2>1, <2>2, <2>3
<1> QED
  BY <1>1, <1>2, <1>3, PTL DEF ManagementSpec, managementVars, ChangesAreAsMeant

LEMMA OtherPartsLeaveAccounts ==
  ASSUME [ManagementNext]_managementVars, subject # "accounts"
  PROVE  UNCHANGED account
<1>1. UNCHANGED accountVars
  <2>1. CASE UNCHANGED managementVars
    BY <2>1 DEF managementVars, administrationVars
  <2>2. CASE AdministrationNext
    BY <2>2 DEF AdministrationNext
  <2>3. CASE UNCHANGED <<subject, administrationVars>>
    BY <2>3 DEF administrationVars
  <2> QED
    BY <2>1, <2>2, <2>3 DEF ManagementNext
<1> QED
  BY <1>1 DEF accountVars

(* An active super administrator is left whichever part takes steps.       *)
THEOREM ManagementKeepsSuperAdmin ==
  ASSUME DemoUsers = {}
  PROVE  ManagementSpec => []SuperAdminRemains
<1> DEFINE Inv == /\ subject = "accounts" => AdminsInv
                  /\ SuperAdminRemains
<1>1. ManagementInit => Inv
  <2> SUFFICES ASSUME ManagementInit PROVE Inv
    OBVIOUS
  <2>1. CASE subject = "accounts"
    BY <2>1, InitHasSuperAdmin DEF ManagementInit, AdministrationStart, AdminsInv
  <2>2. CASE subject # "accounts"
    <3>1. account = [u \in Users |-> IF u = Founder THEN FreshAccount("SUPER_ADMIN") ELSE NoUser]
      BY <2>2 DEF ManagementInit, AdministrationStart, AccountsIdle
    <3>2. FreshAccount("SUPER_ADMIN") \in Account /\ Founder \in Users
      BY AccountsAssumption DEF FreshAccount, Account, Role
    <3>3. account[Founder] = FreshAccount("SUPER_ADMIN") /\ account[Founder] # NoUser
      BY <3>1, <3>2, AccountsAssumption
    <3>4. Founder \in ActiveSuperAdmins
      BY <3>2, <3>3
         DEF ActiveSuperAdmins, IsActiveUser, Exists, FreshAccount
    <3> QED
      BY <2>2, <3>4 DEF SuperAdminRemains
  <2> QED
    BY <2>1, <2>2
<1>2. Inv /\ [ManagementNext]_managementVars => Inv'
  <2> SUFFICES ASSUME Inv, [ManagementNext]_managementVars PROVE Inv'
    OBVIOUS
  <2>1. subject' = subject
    BY AccessSteps
  <2>2. CASE subject = "accounts"
    <3>1. [AccountsNext]_accountVars
      BY <2>2, AccessSteps DEF administrationVars
    <3> QED
      BY <2>1, <2>2, <3>1, StepKeepsSuperAdmin DEF AdminsInv
  <2>3. CASE subject # "accounts"
    <3>1. UNCHANGED account
      BY <2>3, OtherPartsLeaveAccounts
    <3> QED
      BY <2>1, <2>3, <3>1 DEF SuperAdminRemains, ActiveSuperAdmins, IsActiveUser, Exists
  <2> QED
    BY <2>2, <2>3
<1> QED
  BY <1>1, <1>2, PTL DEF ManagementSpec, managementVars

(* Installing beside the other parts is installing.                        *)
THEOREM ManagementInstalls == ManagementSpec => InstallationSpec
<1>1. ManagementInit => InstallationInit
  BY DEF ManagementInit, AdministrationStart
<1>2. [ManagementNext]_managementVars => [InstallationNext]_installationVars
  BY AccessSteps
<1> QED
  BY <1>1, <1>2, PTL DEF ManagementSpec, managementVars, InstallationSpec
=============================================================================
