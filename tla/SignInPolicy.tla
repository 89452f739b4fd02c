---------------------------- MODULE SignInPolicy ----------------------------
(***************************************************************************)
(* Which ways to sign in are open: the settings of local login and single  *)
(* sign-on (src/lib/login-policy.ts, scripts/auth-policy.mjs), the mode    *)
(* that migrates from one provider to another (src/lib/sso-migration.ts)   *)
(* and PATCH /api/settings.                                                *)
(*                                                                         *)
(* Every task reads the settings, judges them together with the loaded     *)
(* configuration and the accounts that are linked, and writes later, from  *)
(* what it read.  The credentials of a provider are saved in a file that   *)
(* the application loads when it starts.                                   *)
(***************************************************************************)
EXTENDS Naturals, FiniteSets

CONSTANTS
  Admins,        \* super administrators
  WithPassword,  \* those with a local password
  Options,       \* the providers to choose from
  Entra,         \* the one of them that is no OpenID Connect provider
  FirstOption,   \* the provider at first, an OpenID Connect one
  Issuers,       \* issuers, or Entra tenants
  FirstConfig,   \* the credentials saved and loaded at first
  Tasks,         \* slots for requests in flight
  Nothing,       \* no target, phase, credentials or task
  MaxTasks       \* bound: requests

ASSUME SignInAssumption ==
  /\ WithPassword \subseteq Admins /\ WithPassword # {}
  /\ Entra \in Options /\ FirstOption \in Options \ {Entra}
  /\ FirstConfig \in [{"microsoft-entra-id", "oidc", "oidc-next"} -> Issuers \cup {Nothing}]
  /\ Nothing \notin Options \cup Issuers
  /\ MaxTasks \in Nat

VARIABLES
  setting,      \* the app_settings of authentication
  savedConfig,  \* savedConfig[p]: the issuer in the file of the slot p
  loadedConfig, \* that of the running process
  links,        \* the accounts linked: admin, stored provider and issuer
  activeAdmins, \* the administrators with isActive
  task,         \* task[t]: the request in slot t, or Nothing
  tasksBegun

configVars == <<savedConfig, loadedConfig>>
signInVars ==
  <<setting, configVars, links, activeAdmins, task, tasksBegun>>

Slot == {"microsoft-entra-id", "oidc", "oidc-next"}
Phase == {"staging", "rollback"}

ASSUME NothingAssumption == Nothing \notin Slot \cup Phase \cup {"active", "migration"}

Setting ==
  [provider : Options, oidcSlot : {"oidc", "oidc-next"},
   target : Options \cup {Nothing}, phase : Phase \cup {Nothing},
   localEnabled : BOOLEAN, ssoEnabled : BOOLEAN]

Operation ==
  {"start", "cancel", "cutover", "rollback", "finish", "prune",
   "policy", "switch", "save"}

(* arg is the provider to start or switch to, who cuts over, the switches  *)
(* of the policy, or the slot and issuer to save.                          *)
(* alone: no other task overlaps.                                          *)
Arg ==
  {[option |-> o] : o \in Options} \cup {[actor |-> a] : a \in Admins}
    \cup {[local |-> l, sso |-> s] : l, s \in BOOLEAN}
    \cup {[slot |-> p, issuer |-> i] : p \in Slot, i \in Issuers}

Task ==
  [op : Operation, arg : Arg, seen : Setting,
   stage : {"read", "judged", "ended"}, alone : BOOLEAN]

(* Both OpenID Connect slots store accounts as oidc.                       *)
StoredAccountProvider(p) == IF p = "oidc-next" THEN "oidc" ELSE p
Link == [admin : Admins, provider : {"microsoft-entra-id", "oidc"}, issuer : Issuers]

SignInTypeOK ==
  /\ setting \in Setting
  /\ savedConfig \in [Slot -> Issuers \cup {Nothing}]
  /\ loadedConfig \in [Slot -> Issuers \cup {Nothing}]
  /\ links \subseteq Link
  /\ activeAdmins \subseteq Admins
  /\ \A t \in Tasks : task[t] # Nothing => task[t] \in Task
  /\ tasksBegun \in 0..MaxTasks

SignInInit ==
  /\ setting = [provider |-> FirstOption, oidcSlot |-> "oidc", target |-> Nothing,
                phase |-> Nothing, localEnabled |-> TRUE, ssoEnabled |-> TRUE]
  /\ savedConfig = FirstConfig /\ loadedConfig = FirstConfig
  /\ links = {}
  /\ activeAdmins = Admins
  /\ task = [t \in Tasks |-> Nothing]
  /\ tasksBegun = 0

-----------------------------------------------------------------------------
(* Providers and links.                                                    *)

ActiveProviderId(s) == IF s.provider = Entra THEN "microsoft-entra-id" ELSE s.oidcSlot

OtherSlot(slot) == IF slot = "oidc" THEN "oidc-next" ELSE "oidc"

(* Entra to Entra is not supported.                                        *)
TargetProviderId(s) ==
  CASE s.target = Nothing -> Nothing
    [] s.target = Entra -> IF s.provider = Entra THEN Nothing ELSE "microsoft-entra-id"
    [] OTHER -> IF s.provider = Entra THEN s.oidcSlot ELSE OtherSlot(s.oidcSlot)

(* getSsoState: a phase without a usable target counts as no migration.    *)
SsoState ==
  IF setting.phase # Nothing /\ TargetProviderId(setting) # Nothing THEN setting
  ELSE [setting EXCEPT !.target = Nothing, !.phase = Nothing]

IsRuntimeProviderConfigured(p) == loadedConfig[p] # Nothing
IsRuntimeConfigOutdated(p) == savedConfig[p] # loadedConfig[p]

LinkedTo(p) ==
  {a \in activeAdmins :
     IsRuntimeProviderConfigured(p) /\
     [admin |-> a, provider |-> StoredAccountProvider(p), issuer |-> loadedConfig[p]]
       \in links}

LocalAdmins == activeAdmins \cap WithPassword

-----------------------------------------------------------------------------
(* The policy.                                                             *)

(* evaluateAuthenticationPolicy: may local login be closed?                *)
MayCloseLocal(s) ==
  /\ s.ssoEnabled
  /\ IsRuntimeProviderConfigured(ActiveProviderId(s))
  /\ LinkedTo(ActiveProviderId(s)) # {}

PolicyOK(s) == s.localEnabled \/ MayCloseLocal(s)

LocalAsSet == SsoState.localEnabled  \* mutant: the setting is taken at its word
EffectiveLocal == SsoState.localEnabled \/ ~MayCloseLocal(SsoState)
SsoAvailable ==
  SsoState.ssoEnabled /\ IsRuntimeProviderConfigured(ActiveProviderId(SsoState))

(* assertProviderSwitch.                                                   *)
MaySwitch(s) == s.localEnabled /\ LocalAdmins # {}

(* assertProposedAuthentication: a cut-over has checks of its own.         *)
AssertProposed(s, migrationCutover) ==
  /\ PolicyOK(s)
  /\ ~migrationCutover /\ s.provider # SsoState.provider => MaySwitch(s)

(* resolveSsoSignInRole: the active provider, or the target of a migration *)
(* for those who are linked to it or link it while signed in.              *)
SignInRole(p) ==
  CASE ActiveProviderId(SsoState) = p -> IF SsoAvailable THEN "active" ELSE Nothing
    [] TargetProviderId(SsoState) = p /\ IsRuntimeProviderConfigured(p) -> "migration"
    [] OTHER -> Nothing

(* Administrators who can sign in as things are.                           *)
CanSignIn ==
  (IF EffectiveLocal THEN LocalAdmins ELSE {})
    \cup UNION {LinkedTo(p) : p \in {q \in Slot : SignInRole(q) # Nothing
                                          /\ SsoState.ssoEnabled}}

-----------------------------------------------------------------------------
(* Requests.                                                               *)

Idle(t) == task[t] = Nothing
AtStage(t, stage) == ~Idle(t) /\ task[t].stage = stage

(* What a request is refused for when it has read the settings.            *)
Accepts(op, arg, s) ==
  CASE op = "start" ->
         /\ s.target = Nothing /\ arg.option # s.provider
         /\ TargetProviderId([s EXCEPT !.target = arg.option]) # Nothing
    [] op \in {"cancel", "cutover"} -> s.phase = "staging"
    [] op = "rollback" ->
         /\ s.phase = "rollback"
         /\ IsRuntimeProviderConfigured(TargetProviderId(s))
         /\ ~IsRuntimeConfigOutdated(TargetProviderId(s))
    [] op \in {"finish", "prune"} ->
         s.phase = "rollback" /\ ~IsRuntimeConfigOutdated(ActiveProviderId(s))
    [] op = "switch" -> arg.option # s.provider /\ s.target = Nothing
    [] OTHER -> TRUE

ArgsOf(op) ==
  {arg \in Arg :
     CASE op \in {"start", "switch"} -> DOMAIN arg = {"option"}
       [] op = "cutover" -> arg \in {[actor |-> a] : a \in activeAdmins}
       [] op = "policy" -> DOMAIN arg = {"local", "sso"}
       [] op = "save" -> DOMAIN arg = {"slot", "issuer"}
       [] OTHER -> arg = [option |-> Entra]}

ReadState(t, op, arg) ==
  /\ Idle(t) /\ tasksBegun < MaxTasks
  /\ Accepts(op, arg, SsoState)
  /\ task' = [u \in Tasks |->
       IF u = t THEN [op |-> op, arg |-> arg, seen |-> SsoState,
                      stage |-> "read", alone |-> \A v \in Tasks : Idle(v)]
       ELSE IF Idle(u) THEN Nothing ELSE [task[u] EXCEPT !.alone = FALSE]]
  /\ tasksBegun' = tasksBegun + 1
  /\ UNCHANGED <<setting, configVars, links, activeAdmins>>

UnblockedOnceSaved(actor) ==  \* mutant: saved credentials are enough
  SsoState.phase = "staging" => savedConfig[TargetProviderId(SsoState)] # Nothing

(* The blockers of a cut-over, of the state as it is by now.               *)
Unblocked(actor) ==
  LET s == SsoState
      next == TargetProviderId(s)
  IN /\ s.phase = "rollback" => ~IsRuntimeConfigOutdated(ActiveProviderId(s))
     /\ s.phase = "staging" =>
       /\ IsRuntimeProviderConfigured(next) /\ ~IsRuntimeConfigOutdated(next)
       /\ actor \in LinkedTo(next)
       /\ next = "microsoft-entra-id" \/ ActiveProviderId(s) = "microsoft-entra-id"
            \/ loadedConfig[next] # loadedConfig[ActiveProviderId(s)]

(* swap: the target becomes the provider.                                  *)
Swapped(s) ==
  [s EXCEPT !.provider = s.target,
            !.oidcSlot = IF s.target = Entra THEN @ ELSE TargetProviderId(s)]

(* A new issuer of the active provider orphans the links to the old one.   *)
OrphansLinks(p, issuer) ==
  LET old == IF p = "microsoft-entra-id" THEN loadedConfig[p] ELSE savedConfig[p] IN
  /\ p = ActiveProviderId(SsoState)
  /\ old # Nothing /\ issuer # old
  /\ \E l \in links : l.provider = StoredAccountProvider(p) /\ l.issuer = old

Proposed(k) ==
  CASE k.op = "policy" -> [SsoState EXCEPT !.localEnabled = k.arg.local, !.ssoEnabled = k.arg.sso]
    [] k.op = "switch" -> [SsoState EXCEPT !.provider = k.arg.option]
    [] k.op \in {"cutover", "rollback"} ->
         [SsoState EXCEPT !.provider = Swapped(k.seen).provider,
                          !.oidcSlot = Swapped(k.seen).oidcSlot]
    [] OTHER -> SsoState

(* Pruning needs to know the previous provider's links from the active's.  *)
MayPrune(s) ==
  LET previous == TargetProviderId(s) IN
  /\ IsRuntimeProviderConfigured(previous) \/ previous = "microsoft-entra-id"
  /\ previous = "microsoft-entra-id" \/ ActiveProviderId(s) = "microsoft-entra-id"
       \/ loadedConfig[previous] # loadedConfig[ActiveProviderId(s)]

Passes(k) ==
  CASE k.op = "cutover" -> Unblocked(k.arg.actor) /\ AssertProposed(Proposed(k), TRUE)
    [] k.op = "rollback" -> AssertProposed(Proposed(k), TRUE)
    [] k.op \in {"policy", "switch"} -> AssertProposed(Proposed(k), FALSE)
    [] k.op = "save" -> OrphansLinks(k.arg.slot, k.arg.issuer) => MaySwitch(SsoState)
    [] k.op = "prune" -> MayPrune(k.seen)
    [] OTHER -> TRUE

(* All of Entra's accounts, or those of the issuer that the slot has loaded. *)
AccountsOf(p) ==
  {l \in links : /\ l.provider = StoredAccountProvider(p)
                 /\ p = "microsoft-entra-id" \/ l.issuer = loadedConfig[p]}

Judge(t) ==
  /\ AtStage(t, "read")
  /\ task' = [task EXCEPT ![t] =
       IF Passes(task[t]) THEN [@ EXCEPT !.stage = "judged"] ELSE Nothing]
  /\ links' = IF Passes(task[t]) /\ task[t].op = "prune"
              THEN links \ AccountsOf(TargetProviderId(task[t].seen)) ELSE links
  /\ UNCHANGED <<setting, configVars, activeAdmins, tasksBegun>>

Ended == [setting EXCEPT !.target = Nothing, !.phase = Nothing]

(* What a task writes to app_settings: whole values from what it saw.      *)
Written(k) ==
  CASE k.op = "start" -> [setting EXCEPT !.target = k.arg.option, !.phase = "staging"]
    [] k.op \in {"cancel", "finish", "prune"} -> Ended
    [] k.op \in {"cutover", "rollback"} ->
         [setting EXCEPT !.provider = Swapped(k.seen).provider,
                         !.oidcSlot = Swapped(k.seen).oidcSlot,
                         !.target = k.seen.provider,
                         !.phase = IF k.op = "cutover" THEN "rollback" ELSE "staging"]
    [] k.op = "policy" -> [setting EXCEPT !.localEnabled = k.arg.local, !.ssoEnabled = k.arg.sso]
    [] k.op = "switch" -> [setting EXCEPT !.provider = k.arg.option]
    [] OTHER -> setting

Finishes(k) == k.op \in {"finish", "prune"}

WriteState(t) ==
  /\ AtStage(t, "judged")
  /\ setting' = Written(task[t])
  /\ savedConfig' = IF task[t].op = "save"
                    THEN [savedConfig EXCEPT ![task[t].arg.slot] = task[t].arg.issuer]
                    ELSE savedConfig
  /\ task' = [task EXCEPT ![t] =
       IF Finishes(@) THEN [@ EXCEPT !.stage = "ended"] ELSE Nothing]
  /\ UNCHANGED <<loadedConfig, links, activeAdmins, tasksBegun>>

(* finishMigration: the credentials of the previous provider go last.      *)
PreviousSlot(t) == TargetProviderId(task[t].seen)

ClearOidcSlot(t) ==
  /\ AtStage(t, "ended")
  /\ savedConfig' = IF PreviousSlot(t) = "microsoft-entra-id" THEN savedConfig
                    ELSE [savedConfig EXCEPT ![PreviousSlot(t)] = Nothing]
  /\ task' = [task EXCEPT ![t] = Nothing]
  /\ UNCHANGED <<setting, loadedConfig, links, activeAdmins, tasksBegun>>

-----------------------------------------------------------------------------
(* The application stops, whatever it was doing, and loads the file.       *)
Restart ==
  /\ loadedConfig' = savedConfig
  /\ task' = [t \in Tasks |-> Nothing]
  /\ <<loadedConfig, task>> # <<loadedConfig, task>>'
  /\ UNCHANGED <<setting, savedConfig, links, activeAdmins, tasksBegun>>

(* An administrator who is signed in links an account.                     *)
LinkAccount(a, p) ==
  /\ a \in activeAdmins /\ SignInRole(p) # Nothing
  /\ links' = links \cup {[admin |-> a, provider |-> StoredAccountProvider(p),
                           issuer |-> loadedConfig[p]]}
  /\ links' # links
  /\ UNCHANGED <<setting, configVars, activeAdmins, task, tasksBegun>>

(* Administrators come and go, and one with a password is left.            *)
ToggleAdmin(a) ==
  /\ activeAdmins' = IF a \in activeAdmins THEN activeAdmins \ {a} ELSE activeAdmins \cup {a}
  /\ activeAdmins' \cap WithPassword # {}
  /\ UNCHANGED <<setting, configVars, links, task, tasksBegun>>

SignInNext ==
  \/ \E t \in Tasks, op \in Operation : \E arg \in ArgsOf(op) : ReadState(t, op, arg)
  \/ \E t \in Tasks : Judge(t) \/ WriteState(t) \/ ClearOidcSlot(t)
  \/ Restart
  \/ \E a \in Admins, p \in Slot : LinkAccount(a, p)
  \/ \E a \in Admins : ToggleAdmin(a)

SignInSpec == SignInInit /\ [][SignInNext]_signInVars

-----------------------------------------------------------------------------
(* Whatever the settings say, an administrator can sign in: neither tasks  *)
(* that overlap, nor an administrator who leaves, nor a restart that loads *)
(* other credentials locks everyone out (getEffectiveLoginPolicy).         *)
SomeoneCanSignIn == CanSignIn # {}

(* The settings of a migration change together, also when the tasks of two *)
(* administrators overlap: there is a target while there is a phase.       *)
TargetHasPhase == setting.target = Nothing <=> setting.phase = Nothing

(* A task that no other one overlaps never removes the credentials of a    *)
(* provider that signs users in or is about to (finishMigration), and      *)
(* makes none active that is not loaded (getMigrationProgress).            *)
MigrationIsSound ==
  \A t \in Tasks :
    /\ ClearOidcSlot(t) /\ task[t].alone =>
         PreviousSlot(t) \notin {ActiveProviderId(SsoState), TargetProviderId(SsoState)}
    /\ WriteState(t) /\ task[t].alone /\ task[t].op \in {"cutover", "rollback"} =>
         IsRuntimeProviderConfigured(ActiveProviderId(SsoState))'
=============================================================================
