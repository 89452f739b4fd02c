---------------------------- MODULE MCManagement ----------------------------
(***************************************************************************)
(* Small instances of the modules about installing, signing in and users,  *)
(* of the pages on which administrators keep users, departments,     *)
(* categories, clients and help articles, and of the presence on a ticket. *)
(* They share no variable, so that their interleavings show nothing that a *)
(* behaviour of one of them does not: subject says which one takes steps,  *)
(* and the variables of the others are 0 or keep what they start with.     *)
(***************************************************************************)
EXTENDS Accounts, LoginThrottle, SignInPolicy, Installation, UserPages,
  DepartmentPages, ApiClients, HelpCentre, Presence, TLC

VARIABLE subject

Subjects == {"accounts", "throttle", "signIn", "installation"}
Pages == {"users", "departments", "categories", "clients", "help", "presence"}

(* Bodies of PATCH /api/users that change one thing.                       *)
SingleChanges ==
  {NoBody, [NoBody EXCEPT !.newSecret = TRUE]}
    \cup {[NoBody EXCEPT !.role = {r}] : r \in Role}
    \cup {[NoBody EXCEPT !.isActive = {x}] : x \in BOOLEAN}

(* An installation with two OpenID Connect providers.                      *)
CONSTANTS i1, i2
MCFirstConfig ==
  [p \in Slot |-> CASE p = "oidc" -> i1 [] p = "oidc-next" -> i2 [] OTHER -> Nothing]

AccountsIdle ==
  /\ account = [u \in Users |-> IF u = Founder THEN FreshAccount("SUPER_ADMIN") ELSE NoUser]
  /\ invariantLock = 0 /\ call = 0 /\ signingIn = 0 /\ session = 0 /\ clock = 0
  /\ callsMade = 0
ThrottleIdle ==
  /\ throttle = 0 /\ attempting = 0 /\ time = 0 /\ overrun = 0
SignInIdle ==
  /\ setting = 0 /\ savedConfig = 0 /\ loadedConfig = 0 /\ links = 0
  /\ activeAdmins = 0 /\ task = 0 /\ tasksBegun = 0

AdministrationStart ==
  /\ InstallationInit
  /\ IF subject = "accounts" THEN AccountsInit ELSE AccountsIdle
  /\ IF subject = "throttle" THEN ThrottleInit ELSE ThrottleIdle
  /\ IF subject = "signIn" THEN SignInInit ELSE SignInIdle

AdministrationNext ==
  /\ UNCHANGED subject
  /\ \/ /\ subject = "accounts" /\ AccountsNext
        /\ UNCHANGED <<throttleVars, signInVars, installationVars>>
     \/ /\ subject = "throttle" /\ ThrottleNext
        /\ UNCHANGED <<accountVars, signInVars, installationVars>>
     \/ /\ subject = "signIn" /\ SignInNext
        /\ UNCHANGED <<accountVars, throttleVars, installationVars>>
     \/ /\ subject = "installation" /\ InstallationNext
        /\ UNCHANGED <<accountVars, throttleVars, signInVars>>

administrationVars ==
  <<accountVars, throttleVars, signInVars, installationVars>>

AdministrationTypeOK ==
  /\ subject = "accounts" => AccountsTypeOK
  /\ subject = "installation" => InstallationTypeOK
  /\ subject = "throttle" => ThrottleTypeOK
  /\ subject = "signIn" => SignInTypeOK

-----------------------------------------------------------------------------
(* One of two departments has an administrator.                            *)
CONSTANTS d1, d2, deputy
MCFirstDepts == (d1 :> [NewDept EXCEPT !.admins = {deputy}]) @@ (d2 :> NewDept)

UserIdle ==
  /\ person = 0 /\ openQueues = 0 /\ userPage = 0 /\ userCall = 0
  /\ lastCall = 0 /\ newPasswords = 0 /\ userChanges = 0
DeptsIdle ==
  /\ dept = 0 /\ eligible = 0 /\ activeForms = 0 /\ filedIn = 0 /\ deptPage = 0
  /\ deptSave = 0 /\ deptChanges = 0
KindsIdle ==
  /\ kind = 0 /\ kindForms = 0 /\ filed = 0 /\ filing = 0 /\ kindPage = 0
  /\ kindSave = 0 /\ kindChanges = 0
ApiIdle ==
  /\ client = 0 /\ apiPage = 0 /\ apiCall = 0 /\ keys = 0 /\ lostKey = 0
  /\ apisCrossed = 0 /\ apiCalls = 0
HelpIdle ==
  /\ collection = 0 /\ article = 0 /\ helpPage = 0 /\ helpSave = 0
  /\ emptied = 0 /\ helpChanges = 0
PresenceIdle ==
  /\ lastSeenAt = 0 /\ viewing = 0 /\ sent = 0 /\ leftAt = 0 /\ lostAt = 0
  /\ moments = 0 /\ visits = 0 /\ lost = 0

ManagementInit ==
  /\ subject \in Subjects \cup Pages
  /\ AdministrationStart
  /\ IF subject = "users" THEN UserInit ELSE UserIdle
  /\ IF subject = "departments" THEN DeptsInit ELSE DeptsIdle
  /\ IF subject = "categories" THEN KindsInit ELSE KindsIdle
  /\ IF subject = "clients" THEN ApiInit ELSE ApiIdle
  /\ IF subject = "help" THEN HelpInit ELSE HelpIdle
  /\ IF subject = "presence" THEN PresenceInit ELSE PresenceIdle

pageVars ==
  <<userVars, deptVars, kindVars, apiVars, helpVars, presenceVars>>

ManagementNext ==
  \/ AdministrationNext /\ UNCHANGED pageVars
  \/ /\ UNCHANGED <<subject, administrationVars>>
     /\ \/ /\ subject = "users" /\ UserNext
           /\ UNCHANGED <<deptVars, kindVars, apiVars, helpVars, presenceVars>>
        \/ /\ subject = "departments" /\ DeptsNext
           /\ UNCHANGED <<userVars, kindVars, apiVars, helpVars, presenceVars>>
        \/ /\ subject = "categories" /\ KindsNext
           /\ UNCHANGED <<userVars, deptVars, apiVars, helpVars, presenceVars>>
        \/ /\ subject = "clients" /\ ApiNext
           /\ UNCHANGED <<userVars, deptVars, kindVars, helpVars, presenceVars>>
        \/ /\ subject = "help" /\ HelpNext
           /\ UNCHANGED <<userVars, deptVars, kindVars, apiVars, presenceVars>>
        \/ /\ subject = "presence" /\ PresenceNext
           /\ UNCHANGED <<userVars, deptVars, kindVars, apiVars, helpVars>>

ManagementSpec ==
  ManagementInit /\ [][ManagementNext]_<<subject, administrationVars, pageVars>>

(* The shape of the rows, of the pages and of what is in flight.           *)
ManagementTypeOK ==
  /\ AdministrationTypeOK
  /\ subject = "users" => UserPagesTypeOK
  /\ subject = "departments" => DeptsTypeOK
  /\ subject = "categories" => KindsTypeOK
  /\ subject = "clients" => ApiTypeOK
  /\ subject = "help" => HelpTypeOK
  /\ subject = "presence" => PresenceTypeOK

(* A password that is guessed meets a lockout, and settings or restarts    *)
(* never take the last way in from all administrators: see the parts.      *)
SignInStands ==
  /\ subject = "throttle" => LockoutsHold
  /\ subject = "signIn" => SomeoneCanSignIn /\ TargetHasPhase

(* A session that has ended stays ended, a migration takes no credentials  *)
(* that are in use, and what is installed stays installed: see the parts.  *)
AccessIsNotUndone ==
  [][/\ subject = "accounts" => SessionsStayEnded
     /\ subject = "signIn" => MigrationIsSound
     /\ subject = "installation" => InstalledForGood]_administrationVars

(* What a page shows is what holds: a key and the access of its client, a  *)
(* new password, the department of a category and of its tickets, the text *)
(* of an article, the viewers of a ticket: see the parts.                  *)
PagesAreTruthful ==
  /\ subject = "users" => ShownPasswordWorks
  /\ subject = "categories" => TicketsStayWithTheirCategory
  /\ subject = "clients" => KeysAndAccessAreAsShown
  /\ subject = "help" => ArticlesCanBeRead
  /\ subject = "presence" => ViewersAreListed

(* A request changes what its administrator meant and may change, however  *)
(* old the page that sent it: see the parts.                               *)
ChangesAreAsMeant ==
  [][/\ subject = "users" => RequestsChangeWhatWasMeant
     /\ subject = "departments" => DialogChangesWhatWasEdited
     /\ subject = "help" => TranslationsStay]_pageVars

(* The slots of the modules are the same model values.                    *)
Symmetry == Permutations(Calls) \cup Permutations(Browsers)
=============================================================================
