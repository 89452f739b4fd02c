--------------------------- MODULE StoredSecrets ---------------------------
(***************************************************************************)
(* Secrets at rest: src/lib/settings-secret.ts, the signing secret of a    *)
(* webhook (src/app/api/webhooks/route.ts, resolveSecret of                *)
(* src/lib/webhooks.ts and WebhooksTab of                                  *)
(* src/app/(dashboard)/admin/settings/page.tsx) and the SMTP password      *)
(* (src/app/api/settings/migrate-smtp-secret/route.ts).  A secret stored   *)
(* in plain by an earlier version is sealed by whoever comes first.        *)
(***************************************************************************)
EXTENDS Naturals

CONSTANTS
  Tasks,      \* requests and deliveries
  NoTask,     \* nothing in flight, nothing shown
  MaxSecrets, MaxKeys, MaxTasks  \* bounds: secrets, encryption keys, tasks

VARIABLES
  secretRow,   \* secretRow[r]: the secret that is stored, and how
  given,       \* given[r]: the secret that was given last
  sealKey,     \* APP_SETTINGS_ENCRYPTION_KEY; the one before is ..._PREVIOUS
  task,        \* task[t]: what is in flight, or NoTask
  shownSecret, \* the signing secret that the tab shows, or NoTask
  hookOn,      \* the webhook is active
  replacedAny, \* replacedAny[r]: a migration sealed a secret that was gone,
               \* or rotations overlapped
  unheard,     \* the signing secret whose answer was lost last, or 0
  secrets, tasks

secretVars ==
  <<secretRow, given, sealKey, task, shownSecret, hookOn, replacedAny, unheard, secrets,
    tasks>>

SecretRows == {"hook", "smtp"}
Envelope == [secret : Nat, layers : Nat, key : Nat]
Task ==
  [at : {"sent", "read", "answer"}, op : {"rotate", "migrate", "deliver"}, row : SecretRows,
   read : Envelope, new : Nat \cup {NoTask}]

ASSUME SecretsAssumption ==
  {MaxSecrets, MaxKeys, MaxTasks} \subseteq Nat /\ NoTask \notin Nat \cup Task

(* An envelope in an envelope would be read as a secret.                   *)
Plain(s) == [secret |-> s, layers |-> 0, key |-> 0]
Seal(row) == [row EXCEPT !.layers = @ + 1, !.key = sealKey]

SecretsInit ==
  /\ secretRow = [r \in SecretRows |-> Plain(0)] /\ given = [r \in SecretRows |-> 0]
  /\ sealKey = 1 /\ task = [t \in Tasks |-> NoTask] /\ shownSecret = NoTask
  /\ hookOn = TRUE /\ replacedAny = [r \in SecretRows |-> FALSE]
  /\ unheard = 0 /\ secrets = 0 /\ tasks = 0

TaskIs(t, stage) == task[t] # NoTask /\ task[t].at = stage
Rotating == \E t \in Tasks : task[t] # NoTask /\ task[t].op = "rotate" /\ task[t].row = "hook"

CurrentKeyOnly == {sealKey}  \* mutant: the key before is not tried
KeysTried == {sealKey, sealKey - 1}
Readable(row) == row.layers = 0 \/ (row.layers = 1 /\ row.key \in KeysTried)

-----------------------------------------------------------------------------
(* The buttons of the tab (none waits for another), the save and the       *)
(* migration of the password, and a delivery, which needs an active hook.  *)
StartTask(t) ==
  /\ task[t] = NoTask /\ tasks < MaxTasks /\ tasks' = tasks + 1
  /\ \E r \in SecretRows, op \in {"rotate", "migrate", "deliver"} :
       /\ op = "deliver" => hookOn /\ r = "hook"
       /\ task' = [task EXCEPT ![t] =
            [at |-> "sent", op |-> op, row |-> r, read |-> Plain(0), new |-> NoTask]]
       /\ replacedAny' = [replacedAny EXCEPT ![r] =
            @ \/ (op = "rotate" /\ r = "hook" /\ Rotating)]
  /\ UNCHANGED <<secretRow, given, sealKey, shownSecret, hookOn, unheard, secrets>>

(* A sealed secret is not sealed again.                                    *)
AlwaysSeals(row) == TRUE  \* mutant: the prefix is not looked at
NeedsSealing(row) == row.layers = 0
ReadSecret(t) ==
  /\ TaskIs(t, "sent")
  /\ LET row == secretRow[task[t].row] IN
       task' = [task EXCEPT ![t] =
         CASE task[t].op = "rotate" -> [@ EXCEPT !.at = "read"]
           [] task[t].op # "rotate" /\ NeedsSealing(row) -> [@ EXCEPT !.at = "read", !.read = row]
           [] OTHER -> NoTask]
  /\ UNCHANGED <<secretRow, given, sealKey, shownSecret, hookOn, replacedAny, unheard, secrets, tasks>>

(* A rotation makes a secret, a migration stores what it read, a delivery  *)
(* only if it is still there.                                              *)
Rotate(t) ==
  /\ TaskIs(t, "read") /\ task[t].op = "rotate" /\ secrets < MaxSecrets
  /\ LET r == task[t].row
         new == secrets + 1
     IN /\ secretRow' = [secretRow EXCEPT ![r] = Seal(Plain(new))]
        /\ given' = [given EXCEPT ![r] = new]
        /\ task' = [task EXCEPT ![t] =
             IF r = "hook" THEN [@ EXCEPT !.at = "answer", !.new = new] ELSE NoTask]
        /\ secrets' = new
  /\ UNCHANGED <<sealKey, shownSecret, hookOn, replacedAny, unheard, tasks>>

Migrate(t) ==
  /\ TaskIs(t, "read") /\ task[t].op = "migrate"
  /\ LET r == task[t].row IN
       /\ secretRow' = [secretRow EXCEPT ![r] = Seal(task[t].read)]
       /\ replacedAny' = [replacedAny EXCEPT ![r] = @ \/ task[t].read # secretRow[r]]
  /\ task' = [task EXCEPT ![t] = NoTask]
  /\ UNCHANGED <<given, sealKey, shownSecret, hookOn, unheard, secrets, tasks>>

StoresUnseen(t) == TRUE  \* mutant: whatever is stored by then
IsAsRead(t) == secretRow[task[t].row] = task[t].read
SealForDelivery(t) ==
  /\ TaskIs(t, "read") /\ task[t].op = "deliver"
  /\ secretRow' = IF IsAsRead(t)
                  THEN [secretRow EXCEPT ![task[t].row] = Seal(task[t].read)] ELSE secretRow
  /\ task' = [task EXCEPT ![t] = NoTask]
  /\ UNCHANGED <<given, sealKey, shownSecret, hookOn, replacedAny, unheard, secrets, tasks>>

AnswerRotation(t) ==
  /\ TaskIs(t, "answer")
  /\ shownSecret' = task[t].new
  /\ task' = [task EXCEPT ![t] = NoTask]
  /\ UNCHANGED <<secretRow, given, sealKey, hookOn, replacedAny, unheard, secrets, tasks>>

(* No key, a refused destination, a lost connection: also with the answer  *)
(* of a rotation that is stored, so that the tab shows the secret before.  *)
TaskFails(t) ==
  /\ task[t] # NoTask
  /\ task' = [task EXCEPT ![t] = NoTask]
  /\ unheard' = IF task[t].at = "answer" THEN task[t].new ELSE unheard
  /\ UNCHANGED <<secretRow, given, sealKey, shownSecret, hookOn, replacedAny, secrets, tasks>>

SwitchHook ==
  /\ tasks < MaxTasks /\ tasks' = tasks + 1
  /\ hookOn' = ~hookOn
  /\ UNCHANGED <<secretRow, given, sealKey, task, shownSecret, replacedAny, unheard, secrets>>

(* The deployment gets a new key while nothing runs.                       *)
ReplaceKey ==
  /\ sealKey < MaxKeys /\ (\A t \in Tasks : task[t] = NoTask)
  /\ sealKey' = sealKey + 1
  /\ UNCHANGED <<secretRow, given, task, shownSecret, hookOn, replacedAny, unheard, secrets, tasks>>

SecretsNext ==
  \/ \E t \in Tasks :
       \/ StartTask(t) \/ ReadSecret(t) \/ Rotate(t) \/ Migrate(t) \/ SealForDelivery(t)
       \/ AnswerRotation(t) \/ TaskFails(t)
  \/ SwitchHook \/ ReplaceKey

SecretsSpec == SecretsInit /\ [][SecretsNext]_secretVars

-----------------------------------------------------------------------------
SecretsTypeOK ==
  /\ secretRow \in [SecretRows -> Envelope] /\ sealKey \in Nat \ {0}
  /\ given \in [SecretRows -> 0..MaxSecrets] /\ secrets \in 0..MaxSecrets
  /\ task \in [Tasks -> Task \cup {NoTask}] /\ shownSecret \in Nat \cup {NoTask}
  /\ replacedAny \in [SecretRows -> BOOLEAN] /\ unheard \in Nat

(* The stored secret is the one given last, sealed at most once, and can   *)
(* be read until the key was replaced twice, unless an administrator's     *)
(* migration met a rotation (it stores the secret that it read); and the   *)
(* signing secret that is shown is the stored one once no rotation is in   *)
(* flight, unless the answer with the stored one is what was lost.         *)
SecretsAreKept ==
  /\ \A r \in SecretRows : ~replacedAny[r] =>
       /\ secretRow[r].secret = given[r]
       /\ Readable(secretRow[r]) \/ sealKey > secretRow[r].key + 1
  /\ shownSecret # NoTask /\ ~replacedAny["hook"] /\ ~Rotating =>
       shownSecret = given["hook"] \/ given["hook"] = unheard
=============================================================================
