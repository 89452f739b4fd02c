---------------------------- MODULE Installation ----------------------------
(***************************************************************************)
(* First-run setup and the start of the container, for the Compose         *)
(* deployment with its own PostgreSQL (scripts/setup-bootstrap.mjs,        *)
(* orchestrator.mjs, config-store.mjs).  What was installed is told by     *)
(* three places that no transaction covers: the files of /config, the      *)
(* password that PostgreSQL was initialised with, and the row of           *)
(* installation_records.  The process may die between any two writes, and  *)
(* files of /config may be lost while nothing runs.                        *)
(***************************************************************************)
EXTENDS Integers, FiniteSets

CONSTANTS
  Installs,   \* slots for requests to install
  Openers,    \* browsers that ask for a setup session
  Origins,    \* application URLs
  NotThere,   \* no file, no row, a free slot
  Malformed,  \* a receipt that does not parse
  MaxMinted,  \* bound: secrets made
  MaxMishaps  \* bound: crashes, lost files and answers, failed stages

VARIABLES
  password, identity, runtimeEnv, receipt,  \* the files of /config
  pgPassword, \* the password in pgdata, or NotThere
  record,     \* the row of installation_records, or NotThere
  stage,      \* what the containers are doing
  tokenValid, \* the bootstrap token has not expired
  sessions,   \* setup sessions that have not expired
  opening,    \* requests for a session whose body is on its way
  install,    \* install[i]: the request in slot i, or NotThere
  minted, mishaps

fileVars == <<password, identity, runtimeEnv, receipt>>
sessionVars == <<tokenValid, sessions, opening>>
installationVars ==
  <<fileVars, pgPassword, record, stage, sessionVars, install, minted, mishaps>>

Secret == 1..MaxMinted
RuntimeEnv == [password : Secret, key : Secret, url : Origins]
Stage ==
  {"stopped", "secrets", "database", "reconcile", "setup", "closing",
   "validate", "migrate", "schema", "attachments", "serving"}

Install ==
  [step : {"asked", "begun", "tested", "written", "migrated", "committed"},
   url : Origins, local : BOOLEAN]

InstallationRecord == [url : Origins, key : Secret, local : BOOLEAN]

ASSUME InstallationAssumption ==
  /\ NotThere \notin Origins /\ Malformed \notin Origins \cup {NotThere}
  /\ NotThere \notin Secret \cup RuntimeEnv \cup Install \cup InstallationRecord
  /\ MaxMinted \in Nat /\ MaxMishaps \in Nat

InstallationTypeOK ==
  /\ password \in Secret \cup {NotThere} /\ identity \in BOOLEAN
  /\ runtimeEnv \in RuntimeEnv \cup {NotThere}
  /\ receipt \in Origins \cup {NotThere, Malformed}
  /\ pgPassword \in Secret \cup {NotThere}
  /\ record \in InstallationRecord \cup {NotThere}
  /\ stage \in Stage
  /\ tokenValid \in BOOLEAN /\ sessions \subseteq Openers /\ opening \subseteq Openers
  /\ install \in [Installs -> Install \cup {NotThere}]
  /\ minted \in 0..MaxMinted /\ mishaps \in 0..MaxMishaps

InstallationInit ==
  /\ password = NotThere /\ identity = FALSE
  /\ runtimeEnv = NotThere /\ receipt = NotThere
  /\ pgPassword = NotThere /\ record = NotThere
  /\ stage = "stopped"
  /\ tokenValid = FALSE /\ sessions = {} /\ opening = {}
  /\ install = [i \in Installs |-> NotThere]
  /\ minted = 0 /\ mishaps = 0

Mishap == mishaps < MaxMishaps /\ mishaps' = mishaps + 1
Mint == minted < MaxMinted /\ minted' = minted + 1

(* What a process keeps in its memory ends with it.                        *)
Enter(s) ==
  /\ stage' = s
  /\ tokenValid' = (s = "setup") /\ sessions' = {} /\ opening' = {}
  /\ install' = [i \in Installs |-> NotThere]

-----------------------------------------------------------------------------
(* config-init, and PostgreSQL.                                            *)

HasSecretPair == password # NotThere /\ identity

InitializeConfig ==
  /\ stage = "stopped"
  /\ \/ /\ HasSecretPair
        /\ Enter("database")
        /\ UNCHANGED <<password, minted>>
     \/ /\ ~HasSecretPair /\ receipt = NotThere /\ pgPassword = NotThere
        /\ Mint /\ password' = minted'
        /\ Enter("secrets")
  /\ UNCHANGED <<identity, runtimeEnv, receipt, pgPassword, record, mishaps>>

WriteIdentity ==
  /\ stage = "secrets"
  /\ identity' = TRUE
  /\ Enter("database")
  /\ UNCHANGED <<password, runtimeEnv, receipt, pgPassword, record, minted, mishaps>>

StartDatabase ==
  /\ stage = "database"
  /\ pgPassword' = IF pgPassword = NotThere THEN password ELSE pgPassword
  /\ Enter("reconcile")
  /\ UNCHANGED <<fileVars, record, minted, mishaps>>

(* Docker starts the container alone: config-init does not run again.      *)
RestartContainer ==
  /\ stage = "stopped" /\ pgPassword # NotThere
  /\ Enter("reconcile")
  /\ UNCHANGED <<fileVars, pgPassword, record, minted, mishaps>>

-----------------------------------------------------------------------------
(* The orchestrator.                                                       *)

EnvConnects == runtimeEnv # NotThere /\ runtimeEnv.password = pgPassword

\* Mutant: the receipt alone tells whether setup was finished.
ReconciledByReceipt(found, queryFailed) ==
  IF receipt # NotThere /\ runtimeEnv # NotThere THEN "INSTALLED" ELSE "UNINSTALLED"

Reconciled(found, queryFailed) ==
  LET installed == receipt # NotThere IN
  IF runtimeEnv = NotThere THEN IF installed THEN "FAILED" ELSE "UNINSTALLED"
  ELSE IF installed THEN
    IF receipt # Malformed /\ ~queryFailed /\ found # NotThere /\ found.url = receipt
    THEN "INSTALLED" ELSE "FAILED"
  ELSE IF found # NotThere THEN "RECOVER" ELSE "UNINSTALLED"

StageAfter(decision) ==
  CASE decision = "FAILED" -> "stopped"
    [] decision = "UNINSTALLED" -> "setup"
    [] OTHER -> "validate"

Reconcile(answered) ==
  /\ stage = "reconcile"
  /\ IF answered THEN EnvConnects /\ UNCHANGED mishaps
     ELSE IF EnvConnects THEN Mishap ELSE UNCHANGED mishaps
  /\ LET found == IF answered THEN record ELSE NotThere
         decision == Reconciled(found, runtimeEnv # NotThere /\ ~answered)
     IN /\ Enter(StageAfter(decision))
        /\ receipt' = IF decision = "RECOVER" THEN found.url ELSE receipt
  /\ UNCHANGED <<password, identity, runtimeEnv, pgPassword, record, minted>>

NextStage ==
  [validate |-> "migrate", migrate |-> "schema", schema |-> "attachments",
   attachments |-> "serving"]

(* One child process after the other; the first that fails ends the start. *)
RunStage ==
  /\ stage \in DOMAIN NextStage
  /\ \/ EnvConnects /\ Enter(NextStage[stage]) /\ UNCHANGED mishaps
     \/ Mishap /\ Enter("stopped")
  /\ UNCHANGED <<fileVars, pgPassword, record, minted>>

-----------------------------------------------------------------------------
(* Setup sessions.                                                         *)

SetupAnswers == stage \in {"setup", "closing"}

AskForSession(b) ==
  /\ stage = "setup" /\ receipt = NotThere
  /\ tokenValid /\ sessions = {}
  /\ opening' = opening \cup {b}
  /\ UNCHANGED <<fileVars, pgPassword, record, stage, tokenValid, sessions, install, minted, mishaps>>

(* The checks are made again once the body has arrived.                    *)
AnswerSession(b) ==
  /\ SetupAnswers /\ b \in opening
  /\ opening' = opening \ {b}
  /\ \/ tokenValid /\ sessions = {} /\ sessions' = {b}
     \/ UNCHANGED sessions
  /\ UNCHANGED <<fileVars, pgPassword, record, stage, tokenValid, install, minted, mishaps>>

PassSetupTime ==
  /\ SetupAnswers
  /\ \/ tokenValid /\ tokenValid' = FALSE /\ UNCHANGED sessions
     \/ sessions # {} /\ sessions' = {} /\ UNCHANGED tokenValid
  /\ UNCHANGED <<fileVars, pgPassword, record, stage, opening, install, minted, mishaps>>

-----------------------------------------------------------------------------
(* POST /setup/api/install.                                                *)

InstallAt(i, step) == SetupAnswers /\ install[i] # NotThere /\ install[i].step = step
InstallRunning ==
  \E i \in Installs : install[i] # NotThere /\ install[i].step # "asked"
StepInstall(i, step) == install' = [install EXCEPT ![i].step = step]

(* The receipt and the session are judged before the body is read.         *)
AskToInstall(i, url, local) ==
  /\ stage = "setup" /\ receipt = NotThere /\ sessions # {}
  /\ install[i] = NotThere
  /\ install' = [install EXCEPT ![i] = [step |-> "asked", url |-> url, local |-> local]]
  /\ UNCHANGED <<fileVars, pgPassword, record, stage, sessionVars, minted, mishaps>>

(* Nobody has linked an identity yet: a local password is needed.          *)
AcceptsLogin(k) == k.local

BeginInstall(i) ==
  /\ InstallAt(i, "asked") /\ ~InstallRunning /\ AcceptsLogin(install[i])
  /\ StepInstall(i, "begun")
  /\ UNCHANGED <<fileVars, pgPassword, record, stage, sessionVars, minted, mishaps>>

\* Mutant: the database is reached, and not asked whether it is installed.
TestDatabaseReached(i) ==
  /\ InstallAt(i, "begun")
  /\ password # NotThere /\ password = pgPassword
  /\ StepInstall(i, "tested")
  /\ UNCHANGED <<fileVars, pgPassword, record, stage, sessionVars, minted, mishaps>>

TestDatabase(i) ==
  /\ InstallAt(i, "begun")
  /\ password # NotThere /\ password = pgPassword /\ record = NotThere
  /\ StepInstall(i, "tested")
  /\ UNCHANGED <<fileVars, pgPassword, record, stage, sessionVars, minted, mishaps>>

WriteEnvironment(i) ==
  /\ InstallAt(i, "tested")
  /\ Mint
  /\ runtimeEnv' = [password |-> password, key |-> minted', url |-> install[i].url]
  /\ StepInstall(i, "written")
  /\ UNCHANGED <<password, identity, receipt, pgPassword, record, stage, sessionVars, mishaps>>

MigrateDatabase(i) ==
  /\ InstallAt(i, "written")
  /\ StepInstall(i, "migrated")
  /\ UNCHANGED <<fileVars, pgPassword, record, stage, sessionVars, minted, mishaps>>

(* The answer of COMMIT may be lost: then the request fails all the same.  *)
CommitInstallation(i) ==
  /\ InstallAt(i, "migrated") /\ record = NotThere
  /\ record' = [url |-> install[i].url, key |-> runtimeEnv.key, local |-> install[i].local]
  /\ \/ StepInstall(i, "committed") /\ UNCHANGED mishaps
     \/ Mishap /\ install' = [install EXCEPT ![i] = NotThere]
  /\ UNCHANGED <<fileVars, pgPassword, stage, sessionVars, minted>>

(* Refused by a check, by a test, by the migrations or by the transaction. *)
FailInstall(i) ==
  /\ SetupAnswers /\ install[i] # NotThere /\ install[i].step # "committed"
  /\ install' = [install EXCEPT ![i] = NotThere]
  /\ UNCHANGED <<fileVars, pgPassword, record, stage, sessionVars, minted, mishaps>>

WriteReceipt(i) ==
  /\ InstallAt(i, "committed")
  /\ receipt' = install[i].url
  /\ sessions' = {}
  /\ install' = [install EXCEPT ![i] = NotThere]
  /\ stage' = "closing"
  /\ UNCHANGED <<password, identity, runtimeEnv, pgPassword, record, tokenValid, opening, minted, mishaps>>

(* The server closes once the requests that it holds are answered.         *)
CloseSetup ==
  /\ stage = "closing" /\ opening = {} /\ \A i \in Installs : install[i] = NotThere
  /\ Enter("migrate")
  /\ UNCHANGED <<fileVars, pgPassword, record, minted, mishaps>>

-----------------------------------------------------------------------------
(* The environment.                                                        *)

StopContainers ==
  /\ stage # "stopped" /\ Mishap
  /\ Enter("stopped")
  /\ UNCHANGED <<fileVars, pgPassword, record, minted>>

LoseFile ==
  /\ stage = "stopped" /\ Mishap
  /\ \/ password' = NotThere /\ UNCHANGED <<identity, runtimeEnv, receipt>>
     \/ identity' = FALSE /\ UNCHANGED <<password, runtimeEnv, receipt>>
     \/ runtimeEnv' = NotThere /\ UNCHANGED <<password, identity, receipt>>
     \/ /\ receipt # NotThere /\ receipt' \in {NotThere, Malformed}
        /\ UNCHANGED <<password, identity, runtimeEnv>>
  /\ UNCHANGED <<pgPassword, record, stage, sessionVars, install, minted>>

InstallationNext ==
  \/ InitializeConfig \/ WriteIdentity \/ StartDatabase \/ RestartContainer
  \/ (\E answered \in BOOLEAN : Reconcile(answered)) \/ RunStage
  \/ \E b \in Openers : AskForSession(b) \/ AnswerSession(b)
  \/ PassSetupTime
  \/ \E i \in Installs :
       \/ \E url \in Origins, local \in BOOLEAN : AskToInstall(i, url, local)
       \/ BeginInstall(i) \/ TestDatabase(i) \/ WriteEnvironment(i)
       \/ MigrateDatabase(i) \/ CommitInstallation(i) \/ WriteReceipt(i)
       \/ FailInstall(i)
  \/ CloseSetup \/ StopContainers \/ LoseFile

InstallationSpec == InstallationInit /\ [][InstallationNext]_installationVars

-----------------------------------------------------------------------------
(* Whatever was lost, repeated or interrupted, the files that are there    *)
(* belong to the installation in the database: the environment holds the   *)
(* key that its settings are encrypted with (setup-bootstrap.mjs:364), the *)
(* passwords are the one of pgdata, the receipt names its address, its     *)
(* first administrator can sign in, and one setup session is open at most. *)
InstallationStands ==
  /\ record # NotThere =>
       /\ runtimeEnv # NotThere =>
            runtimeEnv.key = record.key /\ runtimeEnv.password = pgPassword
       /\ password # NotThere => password = pgPassword
       /\ record.local
  /\ receipt \in Origins => record # NotThere /\ record.url = receipt
  /\ Cardinality(sessions) <= 1

(* An installation is never made again, and a start that has its           *)
(* environment, no broken receipt and an answer of the database goes on to *)
(* production, even when the process died before it wrote the receipt      *)
(* (orchestrator-core.mjs:140).                                            *)
InstalledForGood ==
  record # NotThere =>
    /\ record' = record
    /\ receipt # Malformed => (Reconcile(TRUE) => stage' = "validate")
=============================================================================
