# CompDesk: a TLA+ verification project

CompDesk is a self-hosted help desk: a Next.js application (route handlers under
`src/src/app/api`, services under `src/src/lib`) on PostgreSQL through Prisma,
with two background workers (webhooks, reminders) started by
`instrumentation.ts`, and installation and start scripts under `src/scripts`.
Several replicas of the application may run on one database. Handlers share
nothing but that database, the private file store and, for a few things, the
environment file of the deployment: every handler reads rows, awaits, decides
and writes, and any other handler may run at each `await`. The pages keep copies
of what they read, refresh them at their own time, and send requests whose
answers come back in any order. That is what these modules are about.

Paths below are relative to the repository (`lib/` is `src/src/lib/`, `api/` is
`src/src/app/api/`). `PROJECT.json` lists the components, the runs, which lines
each definition models, the hazards and the theorems.

## 1. Inventory

Modules are named in the last column; section 3 says how they correspond to the
code.

### The server

| component | state | hard behaviour | what makes it correct | module |
|---|---|---|---|---|
| Ticket mutations: `api/tickets/[id]/route.ts`, `assignees/**`, `escalate`, `comments` POST, `lib/tickets/*`, `lib/permissions.ts` | the ticket row with its version, assignees, timeline rows, memberships | guards judged on rows read before the transaction; two tables guarded by one version | every accepted mutation behaves as if it ran alone at its commit | `TicketRules`, `TicketContract`, `TicketHandlers` |
| Webhook outbox: `lib/webhooks.ts`, `api/webhooks/**` | deliveries, the webhook | leases that pass under an attempt, crashed workers, late answers, manual retry at any moment | one attempt at a time unless one is overtaken, bounded attempts, truthful status, settled in the end | `WebhookDelivery` |
| Timeline entries: `comments/route.ts` PATCH, DELETE | one entry | check, await, unconditional update by id | a deleted entry stays deleted and attributed | `TimelineEntries` |
| Reminders: `lib/ticket-reminders.ts`, `api/tickets/[id]/reminders` | reminders, leases of batches | edit and cancel against delivery, crash after mail | bounded mails, nothing mailed after a cancel, what is recorded happened | `Reminders` |
| Ticket creation: `lib/tickets/create-ticket.ts`, `ticket-counter.ts` | keys, yearly counter, uploads | lost answers and retries, races for a key, rollover, files moved before the rows commit, moves back that fail | one ticket per key, unique numbers, no lost file | `TicketCreation` |
| Attachments: `api/upload/**`, `lib/attachment-*` | rows and files of two stores | no common transaction, locks on counts, crash in between, failing writes and unlinks | quotas hold, a row has its file | `Attachments`, `AttachmentMigration` |
| Forms, departments, categories: `lib/ticket-form/*`, `api/queues`, `api/categories`, `api/ticket-form-templates` | templates, versions, taxonomy | check-then-act against filing a ticket, on both sides | a ticket keeps one whole version of the form it was filed with | `Forms` |
| Validation and privacy of answers: `lib/ticket-form/{validation,conditions,privacy}.ts` | answers | conditions on other answers, outdated forms | no answer that its author may not give, none shown to those who may not see it | `FormSubmission` |
| Tags: `api/tags`, `lib/tag-scope.ts` | tags with scopes | scopes judged, then replaced whole | a limited administrator never spreads a tag beyond its departments | `Tags` |
| Users and sessions: `api/users`, `lib/auth.ts`, `lib/session-security.ts`, `demo-data.mjs` | accounts, session versions, tokens | concurrent demotions, tokens older than a change | a super administrator remains; a revoked session stays revoked | `Accounts` |
| Login throttle: `lib/login-throttle.ts` | counters with windows | attempts that overlap | never more tries than allowed; a lockout is not shortened | `LoginThrottle` |
| Sign-in policy, SSO migration: `lib/login-policy.ts`, `lib/sso-migration.ts`, `scripts/auth-policy.mjs` | settings of authentication, links | tasks that judge old settings; a restart with new credentials | somebody can always sign in | `SignInPolicy` |
| Managed sign-in settings: `lib/managed-env.ts`, `lib/sso-settings.ts` | the file of the next start, its lock file | stale locks, crashes, reads that fail, judged by the running environment | the next start finds complete credentials | `ManagedEnv` |
| Branding: `api/branding/**`, `lib/branding.ts` | one row, two switches, image files | read (or answer the default), compute all, write all; old files removed | the logo has its file; a save of the look leaves the switches alone | `Branding` |
| Mail: `api/settings` (SMTP), `api/settings/mail`, `lib/email.ts`, `lib/graph-mail.ts` | settings; tokens shared by sends | partial saves; a token asked for once and awaited by many | what is stored works; a send tells the truth; a refused token is not used again | `Mail` |
| External API and rate limits: `api/v1/**`, `lib/database-rate-limit.ts` | windows, clients, people | overlapping requests at the limit; a note's signer found by several queries while people change | a window grants at most its limit; who signs was entitled to | `ExternalApi` |
| Secrets at rest: `lib/settings-secret.ts`, `api/webhooks`, `migrate-smtp-secret` | sealed rows | rotation, migration and delivery at once; a replaced key | no secret is sealed twice or lost | `StoredSecrets` |
| Update checks: `lib/update-service.ts` | cached manifest, gate | replicas that fetch, fail and stop | checks go through the gate; a newer answer is kept | `UpdateChecks` |
| Presence: `api/tickets/[id]/presence` | one row per viewer | requests that overtake each other | who looks is listed, who left fades | `Presence` |
| Installation and start: `scripts/setup-bootstrap.mjs`, `orchestrator.mjs`, `config-store.mjs` | files of /config, the password of PostgreSQL, the installation record | crash between any two writes, lost files | never installed twice; what is there belongs together | `Installation` |

### The pages

| component | what it holds | hard behaviour | module |
|---|---|---|---|
| Ticket page and conversation | an old read of the ticket, drafts | changes sent with the version shown; a rule copied from the server | `TicketPage`, `Conversation` |
| Ticket lists, filters and dashboard | filters, a delayed search, the address bar | one predicate in several places; two states that follow each other | `TicketLists` |
| Filing a ticket | a cached form, answers, uploads in flight | forms exchanged under the answers | `FormSubmission` |
| Settings: cards, quick links | drafts on one shared copy | inputs stay open while a save is in flight | `SettingsCards`, `QuickLinks` |
| Departments, categories, users, API clients, help centre | dialogs of old rows | a dialog that sends more than was edited | `DepartmentPages`, `UserPages`, `ApiClients`, `HelpCentre` |

Not modelled: notifications, webhook networking, health probes, audit and logs,
backup and release scripts, other pages and wording, the schema and demo data by
themselves. Section 7 says why.

## 2. How the project is built

Modules are parameterised by constants with named assumptions no stronger than
what the code needs, use functions instead of `RECURSIVE` operators, and have
one action per operation or step between two awaits.

| layer | modules |
|---|---|
| abstract specification | `TicketContract` (over `TicketRules`) |
| detailed specification that implements it | `TicketHandlers` |
| components with a specification of their own | all the others |
| instances for TLC | `MCTickets`, `MCTicketHandlers`, `MCTicketContent`, `MCReminders`, `MCSettings`, `MCManagement`; `WebhookDelivery` runs as it is |
| proofs | `TicketRulesProofs`, `TicketContractProofs`, `TicketHandlersProofs`, `WebhookDeliveryProofs`, `RemindersProofs`, `TicketContentProofs`, `AdministrationProofs`, `SettingsProofs` |

**Compositions.** `MCTickets`, `MCTicketContent`, `MCSettings` and
`MCManagement` put modules together that share no variable. Their interleavings
show nothing that a behaviour of one of them does not, so a variable `subject`
says which one takes steps and the variables of the others do not move (in
`MCSettings` and `MCManagement` they are mostly 0). The state space is a sum
instead of a product. The properties of such a run are pooled under one name,
each part guarded by its subject:

- `MCTickets`: `PagesAgree` (`TalkIsPermitted`, `ListsAgree`,
  `SearchesWhatIsShown`, `AddressTellsFilters`), `PagesLoseNothing`
  (`NothingUnseenIsUndone`, `SentAsWritten`, `AcknowledgmentsChangeNothing`).
- `MCTicketContent`: `FilesAreSafe` (`FilesMatchRows`, `NoBytesAreLost`).
- `MCSettings`: `CreationIsSound` (`AnswersAgree`, `FilesFollowTheOutcome`),
  `SettingsAreSound` (`LogoHasItsFile`, `IconsHaveTheirFile`,
  `StoredMailWorks`, `NextStartIsComplete`, `OneWriterUnlessStolen`,
  `SendsAnswerTruthfully`, `RejectedStaysOut`, `LimitHolds`, `SignersSee`,
  `SecretsAreKept`, `ChecksAreGated`), `SavesChangeWhatWasAsked` (`OthersKeepTheirSettings`,
  `SavesKeepTheRest`, `BrandingKeepsSwitches`, `NotificationsNeedMail`,
  `ClientsAreServed`, `KnownReleaseStays`, `TagsSpreadByRight`),
  `PagesKeepEdits` (`RefreshesKeepEdits`, `FormsKeepEdits`,
  `IconLandsOnItsRow`).
- `MCManagement`: `SignInStands` (`LockoutsHold`, `SomeoneCanSignIn`,
  `TargetHasPhase`), `AccessIsNotUndone` (`SessionsStayEnded`,
  `MigrationIsSound`, `InstalledForGood`), `PagesAreTruthful`
  (`ShownPasswordWorks`, `TicketsStayWithTheirCategory`,
  `KeysAndAccessAreAsShown`, `ArticlesCanBeRead`, `ViewersAreListed`),
  `ChangesAreAsMeant` (`RequestsChangeWhatWasMeant`,
  `DialogChangesWhatWasEdited`, `TranslationsStay`).

Every safety property of these runs is also proved (section 5); liveness is
model-checked only.

## 3. How the modules correspond to the code

All of them follow one discipline: an action is what a handler does between two
`await`s that other processes can observe. A transaction that takes its row
locks or an advisory lock is one action (or, where it touches the file system on
the way, several actions with the lock held). A read whose result is used later
puts what it read into the request's record, never into the global state. A page
is a copy of what it read, the inputs, and requests in flight; an answer or a
refresh comes at any later time. Counters named `Max...` only bound the runs.

### Tickets

`TicketRules` holds the pure part: roles, queue access, transitions
(`lib/utils.ts`), assignability, dates after a status change, SLA deadline, and
the row and timeline rows that each operation writes. `TicketContract` applies
these atomically. `TicketHandlers` splits each route at its queries: `Load...`
reads the row and judges the guards, `Read...` reads the assignees, `Commit...`
is the transaction whose first statement is
`UPDATE ... WHERE version = expectedVersion`.

- A client's `expectedVersion` that differs from the row answers 409 without
  effect, so a request that goes on has `expectedVersion = row.version`.
- The row and the memberships are read by successive queries but appear as one
  load: a commit goes through only if the version still matches, and memberships
  only matter when they were asked for. `members` is the relation in force,
  `Membership` every pair that was ever granted; the contract promises the
  weaker one, because the code checks memberships only at the start.
- A comment carries no version: it is the one operation whose first public
  response date is decided on a stale row.
- `replaceAssignmentSet` is exported but no route calls it; it is modelled
  because it is the API of the assignment service.

`TicketPage` is the page of a ticket (its picker of tags, status, assignees, the
withdrawal) against a server where others work: every change is sent with the
version shown, and the read takes the row before what hangs on it.
`Conversation` is its box for replies and notes and one entry being edited.
`TicketLists` states the scope of a list, the filters of `lib/ticket-search.ts`
and the dashboard's numbers as predicates over one ticket in any state; its
second part is the filters and the address bar, which follow each other.

### Webhook outbox

One attempt is one run of `processWebhookDelivery`: claim, read again, post,
record by id, disable the webhook. Dates are reduced to whether `nextAttemptAt`
has passed; backoff and lease are the same date. `crashes` counts attempts that
died with their process. Enable, deactivate, delete, test and manual retry are
actions. The lease is 15 seconds: the HTTP timeout of 10 and 5 more. Name
resolution and the queries around the post have no bound, and the retry route
has no condition on the status. A lease may therefore pass, or a retry come,
under an attempt, which goes on all the same and writes by id. Such an attempt is
`late`, one that claims while another works is `shared`, and `overtaken[d]`
counts; the properties say what holds of everybody else, and `MaxOvertaken`
bounds it in a run.

### Reminders

A tick claims a batch with one `UPDATE ... RETURNING`, and then, row by row,
renews the claim, asks whether the owner may still see an open ticket, publishes
the bell, mails, and records the outcome. The owner creates, edits and cancels
meanwhile. A token "Lost" is the token of a tick that is over; `attempts`
saturates one above the limit, which is exact because the code only compares it.
The lease is five minutes and renewed for each row; mail times out after 10 or
15 seconds; that the lease covers one row is `LeaseCoversRow`.

### What a ticket holds

`TicketCreation`: a request looks its key up, checks the rows and then the files
of its uploads, opens a transaction (and reads the date), reserves a number
under the advisory lock, renames its files one by one, and commits; every
failure renames them back, and a failed unique index looks the key up once more.
Renaming back is best effort (`FailRestore`): a file for which it fails is
`stranded` with the refused ticket. The unlinks of the cleanup may fail, too
(`FailToUnlink`). The verdict of the form is `Refuse`, a storage limit or the 15
seconds of the transaction `RollBack`. The cleanup of expired uploads takes three steps per
file. `Attachments` has the uploads themselves with the locks of the quotas: a
write that fails leaves part of a file which nothing removes (`FailWrite`), the
unlink that undoes a whole one may fail (`FailUndo`), as may the sweep of expired
uploads and the renaming back of a refused ticket's files (`StrandFiles`), and a
commit's answer may be lost (`lostCommit`). `leftBehind` names the files whose
clean-up failed or never came. `AttachmentMigration` is the script that moves
public files at start.

`TimelineEntries`: read the entry, read the ticket and judge, update by id
without a condition; metadata is spread from the row that was read.

`Forms` has templates with versions, their assignment, moves and deletion, and
the resolution of a new ticket's form, query by query; foreign keys (`Restrict`,
`SetNull`) are part of the actions. `FormSubmission` has the page with its
cached form, the fixed point of hidden answers (`SubmissionValues`), the
server's validation and what each role is shown. A value is its type and items;
a word stands for text that trimming and sanitizing leave as it is.

`Tags` reads the tag, the departments, the categories and replaces all scopes.

### Users, sign-in, installation

`Accounts`: a call is authorised by its session and acts later under the
advisory lock of the super administrators; tokens are issued in whole seconds
after the account was read. `LoginThrottle`: three rows per attempt, read before
the password and counted after it. `SignInPolicy`: tasks read the settings,
judge them with the loaded configuration and linked accounts, and write what
they computed; credentials are loaded at a restart. `Installation`: the files of
`/config`, the password of PostgreSQL and the record, with a death between any
two writes and files lost while nothing runs.

### Settings and administration

`ManagedEnv`: a save judges, waits for the lock file, reads again, renames; a
lock file 30 seconds old is taken over. A read that fails is answered by the
backup or by an empty file where a save judges, and by an empty file under the
lock (`FailRead`; the save goes on `blind`, and `misread` remembers it); writes
may fail before the rename (`FailEnvWrite`), and the lock file may stay
(`FailRelease`). `Branding`: one row
and two switches, read, computed and written together, with the image files. A
row that cannot be read or parsed is answered with the default look, the switches
are read separately, and if that fails are those last known or the environment's.
`Mail`: saves that judge in several reads and write what they submit, and sends
that share one token request. `StoredSecrets`: a row counts how often it was
sealed and with which key; the answer of a committed rotation may be lost
(`unheard`). `ExternalApi`: one statement counts a request in its window; the
signer of a note is found query by query (`ReadAuthor`, `ListAdministrators`,
`AskAdministrator`, `SignNote`) while roles and departments change, and `steady`
names the people whose rows stayed since the request began.
`UpdateChecks`: cache, gate, fetch, store; tabs share a dismissal. `Presence`:
the beats of several tabs on one row. The pages: `SettingsCards` (drafts by
`syncDraft` and `changedValues`), `QuickLinks` (a list stored whole; `seen` and
`linksStored` tell how old the list of a page is), `DepartmentPages`,
`UserPages`, `ApiClients` and `HelpCentre` (a dialog opened on an old row, what
it sends, what others stored meanwhile). In `DepartmentPages` a ticket is filed as
the code files it: its category is looked up (`LookKindUp`), and awaits later the
ticket is stored with what was found (`FileUnder`) or not (`NotFiled`), whatever
became of the category; `raced` marks a ticket that the move of its category had
not counted. In `ApiClients` the answer of a committed rotation may be lost
(`lostKey`).

## 4. The runs

| run | instance | question |
|---|---|---|
| `TicketChanges` (`MCTickets`) | requester, agent of one department, super administrator; 2 departments; 2 requests of all operations; versions to 3; pages with 1 label, 2 phrases, 1 search | dates, deadline, assignees, history and versions under interleaving; is a matching version proof of a fresh read; do the pages agree with the server and lose nothing |
| `TicketContract` (`MCTicketHandlers`) | requester and super administrator; the rest as above | do the handlers implement the atomic contract |
| `WebhookOutbox` | 1 delivery, 2 attempts, 1 crash, 2 changes, 1 attempt overtaken, limit 2 | one post at a time, bounded posts, truthful status, settled in the end |
| `WebhookCrash` (violated) | the same with crashes | "at most eight attempts" |
| `TicketContent` (`MCTicketContent`) | 3 users, 2 requests on an entry; 3 files (one too large), 2 accidents; 2 legacy files in 2 directories, 2 starts; 2 forms, 2 departments, 1 category; 3 fields in 3 versions, 2 routes | history of an entry, quotas, files and rows, migration, snapshots of forms, allowed answers, page and server |
| `TimelineTombstone` (violated) | the same | "Deleted timeline entries are immutable" |
| `ReminderDelivery` (`MCReminders`) | 3 reminders, 2 workers with batches of 2, 2 requests, room for 2, 1 fault, 3 saves | who mails holds; bounded mails; the limit of pending reminders |
| `ReminderProgress` (`MCReminders`) | 1 reminder, 2 workers, leases that may end at any time, 2 faults, 2 attempts | what is recorded is true, and everything is settled |
| `Settings` (`MCSettings`) | 2 requests, 1 key, 2 uploads, 1 fault, 2 years; 1 fault of the environment file; two of each: administrators, savers, images, sends, applications, tabs, replicas | one ticket per key and no file lost; what is stored can be used; saves change what was asked; pages keep edits |
| `CounterRollover` (violated) | 3 requests, 2 years | "allocations remain unique" over a change of year |
| `Administration` (`MCManagement`) | 2 users, 2 calls, 2 browsers; 2 attempts to sign in; 2 tasks over 3 providers; 2 installations, 2 mishaps; two calls on a user, a department, a category (2 tickets filed), a client, an article; 2 tabs | who remains, who can sign in, what is installed; do the pages of administrators tell the truth and change only what was meant |
| `DemoAdministrator` (violated) | one super administrator is a demo account | "At least one active super administrator is required" |

**Bounds.** Every bound is a constant with a name. Two requests in flight are
enough for a check-then-act race, since each handler conflicts with one other at
a time; versions up to 3 allow two or three effective commits in a row, so that a
request can meet a ticket that changed and changed back. Two departments let a
ticket move and return. Two workers, attempts, tabs or administrators are the
smallest number that can overlap; three reminders with batches of two and room
for two reach the batch, the queue behind it and the limit. The counter needs
three requests: one that set it in the old year, one that moved it on and the
late one. Code values (8 attempts, 10 failures, 5 mails, batches of 10, 20
pending reminders, 16 links) only appear in comparisons with counters, so that
smaller ones reach the same branches sooner. Times (`Minute`, `Day`, `Beat`,
`Fade`, `Window`, `MaxLockout`) are small numbers in the order the code has them.
Where a bound could hide something, the theorems of section 5 do not have it.

**Symmetry** is used over request slots, workers, files, reminders, applications
and departments where a module treats them alike, and never in a run that checks
a liveness property (`WebhookOutbox`, `ReminderProgress`).

**Deadlock** is not checked where the system is meant to come to rest: every
request answered, every delivery settled and no change left. The configurations
that switch it off say so.

**Fairness.** Safety runs use none. The two liveness runs assume what the code
provides: time passes; a step of an attempt or of a tick that can run is run
(weak); and a due row is claimed again and again as long as it is due (strong),
because the worker is started every 15 seconds (webhooks) or every 60
(reminders) and takes the rows that have waited longest. Nothing is assumed of
users, administrators, crashes or the receiver.

Every property has a mutant: a plausible bug of the code, written next to the
definition it changes, that makes the run find the property violated.


## 5. What is proved

`PROJECT.json` lists the theorems with what each establishes. They hold for every
value of the constants; the runs check the same formulas on small instances.

| module | theorem | invariant of the run it states |
|---|---|---|
| `TicketContractProofs` | `ContractInvariant`, `ContractTimeline` | (the abstract specification) |
| `TicketHandlersProofs` | `TypeCorrect`, `HandlersKeepInvariants`, `VersionCheckIsSound`, `HandlersWithdrawal`, `HandlersTimeline` | `TypeOK`, `TicketIsConsistent`, `MatchingVersionMeansCurrent`, `WithdrawalIsGuarded`, `ChangesAreRecorded` |
| | `Refinement` | `ImplementsContract` |
| | `PagesAreTyped`, `PagesAlwaysAgree`, `PagesNeverLose`; `PagesLeaveHandlersAlone` | `PagesTypeOK`, `PagesAgree`, `PagesLoseNothing`; carries the rows above over to `TicketsSpec` |
| `WebhookDeliveryProofs` | `TypesAreKept`, `LeaseExcludes`, `DeliveredForGood`, `AttemptsAreBounded`, `RowsTellTheAnswer` | `TypeOK`, `OneAttemptAtATime`, `DeliveredStays`, `BoundedByCrashes`, `StatusIsTruthful` |
| `RemindersProofs` | `TypesAreKept`, `ResultsAreTruthful`, `LeaseGuardsTheRow`, `LimitHolds` | `TypeOK`, `SettledIsTruthful`, `HandledIsOwned`, `PendingWithinLimit` |
| `TicketContentProofs` | `ContentIsTyped` from `AttachmentsAreTyped`, `FormsAreTyped`, `PageIsTyped` and the types of the migration and the timeline | `ContentTypeOK` |
| | `QuotasAlwaysHold` | `QuotasHold` |
| | `FilesStaySafe` from `FilesAlwaysMatchRows` and `BytesAreNeverLost` | `FilesAreSafe` |
| | `SnapshotsStayWhole` | `SnapshotsAreWhole` |
| | `AnswersAreAlwaysAllowed`; `PageAlwaysAgreesWithServer` from `SubmissionsSettle` | `AnswersAreAllowed`, `ClientAgreesWithServer` |
| | `EntriesKeepTheirHistory` | `HistoryIsKept` |
| `AdministrationProofs` | `SuperAdminAlwaysRemains`, `InstallationAlwaysStands`; `ManagementKeepsSuperAdmin`, `ManagementInstalls` carry them over to `ManagementSpec` | `SuperAdminRemains`, `InstallationStands` |
| | `SignInIsGuarded` from the lemmas of `LockoutsAlwaysHold`, `SignInAlwaysStands` | `SignInStands` |
| | `AccessStaysDone` from those of `EndedSessionsStayEnded`, `MigrationsAreSound`, `InstalledStaysInstalled` | `AccessIsNotUndone` |
| | `PagesShowWhatHolds` from those of `ShownPasswordsWork`, `TicketsStayInDepartment`, `ClientsAreShown`, `ArticlesCanAlwaysBeRead`, `ViewersAreAlwaysListed` | `PagesAreTruthful` |
| | `RequestsAreMeant` from those of `UserRequestsAreMeant`, `DepartmentDialogsAreMeant`, `TranslationsAreNeverDropped` | `ChangesAreAsMeant` |
| | `ManagementIsTyped` | `ManagementTypeOK` |
| `SettingsProofs` | `SettingsAreTyped`, `CreationStaysSound`, `SettingsStaySound`, `SavesDoAsAsked`, `EditsAreKept` | `SettingsTypeOK`, `CreationIsSound`, `SettingsAreSound`, `SavesChangeWhatWasAsked`, `PagesKeepEdits` |

**The argument.** None of the invariants is inductive as the runs state it. Each
is strengthened by what the requests in flight are known to hold: an `...Inv`
that starts with the types, is kept by every action (one step per action, one
below it per conjunct the action can disturb) and implies the property. What the
strengthenings say is the reason why the code is right:

- *Tickets.* `RequestGuard`: what a handler judged was true of the row with the
  version it read. `CurrentIfMatching`: if that version is still the row's, so
  are the row and the assignees. A commit therefore repeats on present rows what
  was judged, which is a step of `TicketContract`; every other step stutters, and
  the contract's own invariant is inherited.
- *Webhooks.* `OwnInv`: who is not late owns the row (its lease is the one
  stored), and who is `Alone` has it to itself. `CountInv`: claims, posts and
  attempts overtaken balance: who posts was counted by its claim, and the rows
  nobody works on have attempts left. `TruthInv`: what a running attempt heard is
  what the receiver answered (`AnswersStand`), an answer that was heard is
  recorded or about to be (`AnswersArrive`), and failures in a row disable
  (`FailuresDisable`).
- *Reminders.* `ResultInv`: a worker holds the row it has in hand (`HoldsItsRow`)
  and a row tells what was published and mailed (`RowStands`). `HandlingInv` adds
  that mails are claimed before they go out, which needs the lease. `LimitInv`:
  the holder of the owner's lock still finds the room that it counted.
- *Attachments.* `QuotaInv`: who holds which lock, that a file is in one place,
  and that the holder still finds its room; sums over files are cardinalities of
  sets of bytes, so that no induction over files is needed. `FilesInv`: which
  row goes with which file while a request is between the two.
- *Migration.* `MigrationInv`: each file derives from its original
  (`FilesDerive`), the running script knows its phase (`RunIsRight`), and an
  application that serves has nothing left in public (`NothingIsPublic`).
- *Forms.* `FormsInv`: versions are immutable and complete, and a submission that
  has resolved half of its query chain knows what the rest will find or refuse.
- *Answers.* `PageInv`: `FiledInv` about what is stored, `SendingInv` about what
  is on its way. `SubmissionsSettle` says that hiding answers until nothing
  changes ends within as many passes as there are fields: it is proved by the
  least pass after which an answer is left (`Least`), since each pass but the
  last removes a field that no earlier one removed.
- *Timeline.* `TimelineInv`: a deleted entry is attributed and a changed text is
  marked (`EntryIsMarked`), whichever row the last request had read.
- *Users.* `AdminsInv`: a call that was judged under the lock is backed by an
  active super administrator other than the one it demotes.
- *Sessions.* `TokensAreNotAhead`: no token has a later version than its user, nor
  the version of a user who is deactivated. `JudgedStands`: a row that was judged
  under the lock was at most deactivated since. Versions only grow
  (`RowsMoveOn`), so that a token left behind stays behind.
- *Lockouts.* `OverrunIsCounted`: while a key is locked, the attempts compared
  since and those that may still be are fewer than all that can be in flight,
  since the attempt whose failure began the lockout is neither.
- *Sign-in policy.* `TasksAreMeant`: a task carries arguments that its request may
  have and has seen a phase that it may act on. `LoneTasksAreSure`: what a task
  saw and judged still stands if no other one overlapped it. A way in remains
  because local sign-in is closed in effect only while the active provider is
  configured and linked to an administrator (`EffectiveLocal`), judged anew at
  every read, and an administrator with a password stays (`LocalAdmins`).
- *Users page.* `UserRequestIsMeant`: the body of a request follows from its
  operation and from the row it was made of. `PasswordArrives`: one reset is in
  flight at a time, and the latest password is in the tab or in the one answer
  that is under way.
- *Departments, categories.* `DeptsInv`: what was not edited is as it was opened.
  `KindsInv`: a save that will move a category counted no ticket that is under it
  (`CountedStay`), and a ticket is in another department than its category only
  if the move had not counted it, which marks it `raced` (`InKind`).
- *API clients.* `KeyArrives`: while requests do not overlap, the row is the one
  judged and its key is in the tab or on its way, or the answer with it was lost.
- *Help centre.* `HelpInv`: a dialog knows every language its article had, and
  every article is in a collection that is there.
- *Presence.* `HeartbeatsAreAnswered`: of a tab's latest heartbeat something came
  (a row, a leaving or a loss) or it is under way, and something came of the one
  before; two heartbeats fit into `Fade`. `LeavingIsLast`: without tabs no
  heartbeat is younger than the latest leaving.
- *Ticket page.* `TicketPageInv`: what is shown, read or sent under a version is
  the ticket of that version (`IsOf`), and one assignment is in flight.
- *Conversation.* `TalkInv`: what is internal, written, attached or sent, is an
  agent's; a reply that is being sent is the one composed.
- *Lists.* No invariant: `ListsAgree` and `SearchesWhatIsShown` follow from the
  rules of access alone, for every reader, ticket, form and query.
- *Filters.* `FiltersInv`: of the addresses that are on their way, the page's own
  are known as such (`OwnAreKnown`), and without one of its own the filters are
  those of the address.
- *Installation.* `Sound`: the files that are there belong to one installation
  and to the password of PostgreSQL (`FilesMatch`), the record to its files
  (`RecordMatches`), and what a running installation has not yet written is not
  yet needed (`InstallIsSound`); one installation and one session at a time.
- *Ticket creation.* `FilesAreHeld`, `CleaningIsLate`, `TicketsAreAsked`,
  `AnswersAreRight`, `LockIsHeld`, `OneTicketPerKey`: every file not with its
  ticket is where it was, or in the hands of exactly one request that will
  commit it or bring it back, or it is where a failed rename left it.
- *Settings.* `CardsInv`: a request of a card carries what was typed or shown
  there, and an input that was touched holds what was typed. `EnvInv`: who writes
  holds the lock or lost it to a takeover, and what it read the file holds still,
  unless the read failed.
  `BrandingInv`: unless changes crossed, an image about to be stored has its file
  and no request removes it or the logo.
  `MailInv`: what a save will store was judged together with what is stored.
  `DeliveryInv`: those who wait for a token wait for a request that runs.
  `LinksInv`: a list that would remove an icon is newer than its row. `ExtInv`:
  what was granted was counted, and what the queries found about a person still
  holds if the row stayed (`AuthorsAreJudged`). `SecretsInv`: a row is sealed
  once, and a rotation alone stores what its answer shows, if the answer comes. `UpdatesInv`: one replica at
  the source at a time, within the minute of the gate. `TagsInv`: a request that
  was judged is in its editor's reach. `SettingsInv` joins them by `subject`.

**Assumptions.** The theorems rest on the modules' named `ASSUME`s, which only
say that sets are finite where they are counted, that bounds are numbers, that
sentinels are outside their sets, that what the code never confuses is distinct,
in `SnapshotsAssumption` that a form has a key and a built-in meaning once at
most (`ticket-form/schemas.ts:64`, the unique index of the schema), in
`PresenceAssumption` that a row outlasts two heartbeats and is listed no longer
than it is kept (45 and 90 seconds, 5 minutes), and in `UpdatesAssumption` that
two of the longest checks fit into the minute of the gate (a fetch is cut off
after seconds). TLC evaluates each of them in a run. Some theorems have a premise
of their own:

- `LeaseCoversRow` (reminders, `LeaseGuardsTheRow` only): a lease covers the work
  on one row. Where leases may end at any time, what is recorded is still true
  (`ResultsAreTruthful`) and the limit still holds.
- `DemoUsers = {}` (`SuperAdminAlwaysRemains`, `ManagementKeepsSuperAdmin`): once
  the demo accounts are gone; the run `DemoAdministrator` shows that with them it
  fails.

Three assumptions are in the models themselves. `SignInPolicy` has an
administrator with a password who stays, and a deployment whose credentials the
application may edit. `Presence` handles a request within one beat.
`OneMembership` fixes the memberships at the start in the run `TicketContract`
(not in the theorem).

**What proving changed.** `IconsHaveTheirFile` excuses lists that were stored
from an older one (`bySurprise`), and `QuickLinks` once recognised them by
value. The proof failed on a list that was stored, replaced and stored again:
three saves could remove an icon that a row still named, though no list looked
outdated. Lists are now told apart by how often one was stored (`seen`,
`linksStored`). Several modules used sentinels without assuming them to be
outside the sets they were added to; the assumptions now say so, and TLC checks
them. `SearchesWhatIsShown` holds only because a form has a key and a meaning once:
of two fields with one key, one of them hidden from a role, the column would be
searched for that role and left out of the answer.

**Only model-checked.** Liveness (`EventuallySettled` in two runs) and whatever
needs `ENABLED` are out of the prover's reach. Induction over data is, too,
except through a least counterexample as for `SubmissionsSettle`. All other
properties of the passing runs are stated by a theorem.

## 6. Findings

Each is a run that TLC ends with a counterexample (`PROJECT.json`, "findings").

- `WebhookCrash`. `docs/WEBHOOKS_AND_EXTERNAL_API.md:29` promises at most eight
  attempts. The limit is applied when an attempt records its failure, never when
  it is claimed: an attempt whose process dies in between is posted again.
- `TimelineTombstone`. "Deleted timeline entries are immutable"
  (`comments/route.ts:118`), but the update by id has no condition: an edit that
  read the entry before its deletion takes the tombstone back.
- `CounterRollover`. The year is read (`create-ticket.ts:249`) before the
  counter's lock is taken (`ticket-counter.ts:4`), whose comment promises that
  it covers the yearly rollover: a creation of the old year that gets the lock
  late sets the counter back.
- `DemoAdministrator`. The removal of demo data takes neither the lock nor the
  count of the super administrators (`demo-data.mjs:143`), so that two calls can
  leave none.

Worth knowing, seen while modelling, though they contradict no sentence of the
repository or lie outside the modelled part:

*Tickets.* A PATCH that resolves a resolved ticket fires its webhook again. A
repeated creation that arrives while the first one holds its files is refused
for missing files instead of waiting for the answer. Files of a ticket whose
COMMIT was answered by a broken connection are moved back. A draft of tags is
sent with whatever version the page has by then, so that it replaces tags set
meanwhile (`docs/TICKET_LIFECYCLE.md:30` speaks of stale versions). A saved
comment closes whichever entry is being edited by then. A list left on a page
beyond its last one says "No tickets".

*Webhooks.* Replicas are said to compete safely for rows; they do so while a
lease lasts. A failure that is late, or the retry of a row in flight, can turn a
delivered row into a pending one, and the receiver sees the delivery again.

*Files.* A write that fails leaves a partial file outside of every quota
(`upload/route.ts:114`). A creation whose rename back fails leaves the file in the
directory of a ticket that does not exist (`create-ticket.ts:145`).

*Forms.* A template saved from an old copy takes a concurrent change back. A
category that moves leaves rows of tag scopes behind. "A category with tickets
cannot be moved or hard-deleted" (`docs/USER_GUIDE.md:102`), but a ticket whose
category was looked up before the move (`create-ticket.ts:210`,
`tickets/[id]/route.ts:260`) is stored with the old department after it. Deleting for good can clear references of tickets filed meanwhile.
White space satisfies "required" (`validation.ts:169`). Conditions are judged
on raw input. A default value is stored without validation (`schemas.ts:40`) and
used for an empty answer. An upload may finish after its form was exchanged. Two
requests for one tag name race (`tags/route.ts:49`).

*Sign-in.* A takeover of a stale lock file can let two writers in. Two
overlapping single sign-on saves can leave an incomplete configuration, since
each is judged by the running process and an Entra save writes all its fields
(`sso-settings.ts:53`); a removed secret still counts until the restart. `finishMigration` judges a state that a rollback may change before it writes
(`sso-migration.ts:152`), so that both can succeed. Two installations in flight
may name two databases; a copy of an attachment cut short stops the next start.
The windows of the rate limits are fixed ones. Values that a save leaves empty
"are kept" (`managed-env.ts:93`), but a file that cannot be read counts as empty
(`managed-env.ts:111`) and is replaced by the submitted values alone.

*Settings.* What is typed while a save of the same key runs is dropped at the
refresh (`settings-draft.ts:4` speaks of keeping edits). Uploading or removing a
brand image stores the login switch when it was unset, and so overrides the
environment; a save of the look sends the form's old `showLocalLogin`. An
outdated form or list can bring back a logo or an icon whose file is gone; a
quick link's edits give way to a refetch with other settings; an icon is placed
by the row's index. Turning notifications on is judged by stored credentials
even when the same request removes them (`settings/route.ts:218`); overlapping
SMTP saves can store a port, TLS mode or certificate pair that neither asked for.
While the look cannot be read, an upload or a save of texts stores the default
look instead of the one that was set (`branding.ts:106`). A rotation whose answer
is lost leaves the old secret, or the old API key, on the page although it is
dead. Of two administrators who could sign a note, one who is promoted between the
two queries is not found, and the note is refused if the one who was found first
loses the department between the checks (`notes/route.ts:59`).

*Pages of administrators.* A department whose administrator lost the role
refuses every save of its dialog and shows no box to untick. A save that
succeeds closes whichever dialog is open. A second quick change of a role before
the list is read again drops the first; an outdated tick makes a requester a
member; answers to creation and reset overwrite each other's password. Answers
to two rotations out of order show a dead key; concurrent partial changes of an
API client can join allow-all with a list. Migrating a webhook secret overwrites
a rotation. An article saved from an old dialog takes a new translation back, and
no translation can be removed there. Closing one of two tabs removes the viewer
until the next beat. A stalled update check that fails can store an older
manifest over a newer one.

## 7. Not modelled

Components with status `not_modelled` in `PROJECT.json`: notifications (rows that
only their owner reads and marks; publishing them is in `Reminders`), the
network side of webhooks and the health probes (the modules take every answer
they can give), audit and logs (best effort by design), backup, migration and
release scripts (operator tools that run while the application is stopped),
presentation and wording, the schema (its keys are modelled where they bite) and
the content of the demo data. What a component with status `partly` leaves out
is in its note there: mostly formats and wording, the diagnostics of mail and
sign-in, filters and orders that only narrow what is shown, and the launchers
without Docker.
