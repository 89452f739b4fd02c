----------------------------- MODULE ManagedEnv -----------------------------
(***************************************************************************)
(* The file of the sign-in settings that the next start will load:         *)
(* src/lib/managed-env.ts and the two saves of src/lib/sso-settings.ts.    *)
(* A save judges what the file held, waits for the lock file, reads the    *)
(* file again, and replaces it by renaming.  What the file lacks is judged *)
(* by the environment the process was started with.  A crash ends every    *)
(* save and leaves the lock file, taken over once it is 30 seconds old.    *)
(* A read that fails is answered by the backup or by an empty file, and a  *)
(* lock file that cannot be removed stays.                                 *)
(***************************************************************************)
EXTENDS Naturals, FiniteSets

CONSTANTS
  Savers,       \* requests in flight
  MaxSaved,     \* bound: requests
  MaxCrashed,   \* bound: crashes
  MaxEnvFaults  \* bound: calls of the file system that fail

VARIABLES
  envFile,      \* the values in the file
  backup,       \* those in the copy beside it
  running,      \* the values the process was started with
  lockFile,     \* the saver that made the lock file, Free or Abandoned
  lockOld,      \* it was made more than 30 seconds ago
  saver,        \* saver[w]: how far save w is
  stolen,       \* the lock of a save in progress was removed by another
  overtaken,    \* a save has replaced a file that is not the one it judged
  misread,      \* a save that could not read the file has replaced it
  borrowed,     \* a save was judged complete by a value only the process has
  savedCount, crashedCount, envFaults

envVars ==
  <<envFile, backup, running, lockFile, lockOld, saver, stolen, overtaken, misread, borrowed,
    savedCount, crashedCount, envFaults>>

Free == "free"
Abandoned == "abandoned"

(* An OpenID Connect slot and the Entra application.  Values stand for     *)
(* texts, "" for no line in the file.                                      *)
OidcFields == {"method", "secret", "key"}
EntraFields == {"client", "tenant"}
EnvField == OidcFields \cup EntraFields
Texts(f) == CASE f = "method" -> {"", "client_secret", "private_key_jwt"}
              [] f \in {"secret", "key"} -> {"", "x"}
              [] OTHER -> {"", "x", "y"}
EnvFile == {e \in [EnvField -> {"client_secret", "private_key_jwt", "", "x", "y"}] :
              \A f \in EnvField : e[f] \in Texts(f)}
EmptyFile == [f \in EnvField |-> ""]

(* What an administrator submits: one or two fields, "null" to remove one. *)
Submissions ==
  {[f \in {"method"} |-> "private_key_jwt"], [f \in {"method"} |-> "client_secret"],
   [f \in {"secret"} |-> "null"], [f \in {"key"} |-> "null"],
   [f \in {"method", "key"} |-> IF f = "key" THEN "x" ELSE "private_key_jwt"],
   [f \in {"client"} |-> "y"], [f \in {"tenant"} |-> "y"]}
ForEntra(values) == DOMAIN values \subseteq EntraFields

-----------------------------------------------------------------------------
(* sso-settings.ts.                                                        *)

With(file, values) ==
  [f \in EnvField |-> IF f \notin DOMAIN values THEN file[f]
                      ELSE IF values[f] = "null" THEN "" ELSE values[f]]

Managed(file) == [f \in EnvField |-> IF file[f] # "" THEN file[f] ELSE running[f]]

\* Mutant: what is removed is taken to be there still.
CandidateKeepsRemoved(file, values) ==
  With(Managed(file), [f \in {x \in DOMAIN values : values[x] # "null"} |-> values[f]])
BuildOidcCandidate(file, values) == With(Managed(file), values)

ReadOidcConfig(file) ==
  IF file.method = "private_key_jwt" THEN file.key # "" ELSE file.secret # ""

(* Of an OpenID Connect slot only what was submitted is written; of Entra  *)
(* all values, submitted or not, as they were when they were judged.       *)
ApplyOidcSettings(values) == values
ApplyEntraSettings(file, values) ==
  [f \in EntraFields |-> With(Managed(file), values)[f]]
Writes(file, values) ==
  IF ForEntra(values) THEN ApplyEntraSettings(file, values) ELSE ApplyOidcSettings(values)

OnlyTheProcessHas(file, values) ==
  ReadOidcConfig(With(Managed(file), values)) /\ ~ReadOidcConfig(With(file, values))

(* OpenID Connect needs a complete slot, Entra every field.                *)
Complete(file, values) ==
  IF ForEntra(values) THEN \A f \in EntraFields : ApplyEntraSettings(file, values)[f] # ""
  ELSE ReadOidcConfig(BuildOidcCandidate(file, values))

-----------------------------------------------------------------------------
SaverAt(w, step) == saver[w].at = step
Going(w, step) == saver' = [saver EXCEPT ![w].at = step]
NoSave == [at |-> "idle"]
Edits == UNION {[D -> {"client_secret", "private_key_jwt", "", "x", "y", "null"}] :
                  D \in SUBSET EnvField}
Save ==
  [at : {"judged", "locked", "read", "blind", "renamed", "stale"}, submitted : SUBSET EnvField,
   judged : EnvFile, writes : Edits, contents : EnvFile]
Writing == {w \in Savers : saver[w].at \in {"locked", "read", "blind", "renamed"}}

ASSUME EnvAssumption ==
  {Free, Abandoned} \cap Savers = {} /\ {MaxSaved, MaxCrashed, MaxEnvFaults} \subseteq Nat

EnvInit ==
  /\ envFile = [f \in EnvField |-> IF f = "method" THEN "client_secret" ELSE "x"]
  /\ running = envFile /\ backup = EmptyFile
  /\ lockFile = Free /\ lockOld = FALSE
  /\ saver = [w \in Savers |-> NoSave]
  /\ stolen = FALSE /\ overtaken = FALSE /\ misread = FALSE /\ borrowed = FALSE
  /\ savedCount = 0 /\ crashedCount = 0 /\ envFaults = 0

(* A call of the file system fails.                                        *)
Fails == envFaults < MaxEnvFaults /\ envFaults' = envFaults + 1

(* readManagedEnvironment: the file, else the backup, else nothing.        *)
JudgeSave(w, values, file) ==
  /\ saver[w] = NoSave /\ savedCount < MaxSaved
  /\ \/ file = envFile /\ UNCHANGED envFaults
     \/ file \in {backup, EmptyFile} /\ Fails
  /\ Complete(file, values)
  /\ saver' = [saver EXCEPT ![w] =
                 [at |-> "judged", submitted |-> DOMAIN values, judged |-> file,
                  writes |-> Writes(file, values), contents |-> file]]
  /\ borrowed' = (borrowed \/ OnlyTheProcessHas(file, values))
  /\ savedCount' = savedCount + 1
  /\ UNCHANGED <<envFile, backup, running, lockFile, lockOld, stolen, overtaken, misread,
                 crashedCount>>

AcquireLock(w) ==
  /\ SaverAt(w, "judged") /\ lockFile = Free
  /\ lockFile' = w /\ lockOld' = FALSE
  /\ Going(w, "locked")
  /\ UNCHANGED <<envFile, backup, running, stolen, overtaken, misread, borrowed,
                 savedCount, crashedCount, envFaults>>

(* The age is read first and the lock file, whichever it is by then, is    *)
(* removed after that; if that fails, it is found again.                   *)
FindLockOld(w) ==
  /\ SaverAt(w, "judged") /\ lockFile # Free /\ lockOld
  /\ Going(w, "stale")
  /\ UNCHANGED <<envFile, backup, running, lockFile, lockOld, stolen, overtaken,
                 misread, borrowed, savedCount, crashedCount, envFaults>>
UnlinkLock(w) ==
  /\ SaverAt(w, "stale")
  /\ stolen' = (stolen \/ lockFile \in Savers)
  /\ lockFile' = Free /\ lockOld' = FALSE
  /\ Going(w, "judged")
  /\ UNCHANGED <<envFile, backup, running, overtaken, misread, borrowed, savedCount,
                 crashedCount, envFaults>>

(* The lock is held for too long, or its directory cannot be used.         *)
GiveUpLock(w) ==
  /\ SaverAt(w, "judged")
  /\ saver' = [saver EXCEPT ![w] = NoSave]
  /\ UNCHANGED <<envFile, backup, running, lockFile, lockOld, stolen, overtaken,
                 misread, borrowed, savedCount, crashedCount, envFaults>>

ContentsJudged(w) == saver[w].judged  \* mutant: the file is not read again
ContentsNow(w) == envFile
ReadContents(w) ==
  /\ SaverAt(w, "locked")
  /\ saver' = [saver EXCEPT ![w].at = "read", ![w].contents = ContentsNow(w)]
  /\ UNCHANGED <<envFile, backup, running, lockFile, lockOld, stolen, overtaken,
                 misread, borrowed, savedCount, crashedCount, envFaults>>

(* A read that fails is an empty file.                                     *)
FailRead(w) ==
  /\ SaverAt(w, "locked") /\ Fails
  /\ saver' = [saver EXCEPT ![w].at = "blind", ![w].contents = EmptyFile]
  /\ UNCHANGED <<envFile, backup, running, lockFile, lockOld, stolen, overtaken,
                 misread, borrowed, savedCount, crashedCount>>

(* A temporary file is written, the old one copied, the new one renamed.   *)
WriteAtomically(w) ==
  /\ SaverAt(w, "read") \/ SaverAt(w, "blind")
  /\ backup' = envFile
  /\ envFile' = With(saver[w].contents, saver[w].writes)
  /\ overtaken' = (overtaken \/ saver[w].judged # envFile)
  /\ misread' = (misread \/ SaverAt(w, "blind"))
  /\ Going(w, "renamed")
  /\ UNCHANGED <<running, lockFile, lockOld, stolen, borrowed, savedCount,
                 crashedCount, envFaults>>

(* One of the three fails.  A copy that was cut short stands for any part  *)
(* of the file.                                                            *)
FailEnvWrite(w) ==
  /\ SaverAt(w, "read") \/ SaverAt(w, "blind")
  /\ Fails
  /\ backup' \in {backup, envFile, EmptyFile}
  /\ Going(w, "renamed")
  /\ UNCHANGED <<envFile, running, lockFile, lockOld, stolen, overtaken, misread, borrowed,
                 savedCount, crashedCount>>

(* Whichever lock file is there by then is removed.                        *)
ReleaseLock(w) ==
  /\ SaverAt(w, "renamed")
  /\ stolen' = (stolen \/ lockFile \in Savers \ {w})
  /\ lockFile' = Free /\ lockOld' = FALSE
  /\ saver' = [saver EXCEPT ![w] = NoSave]
  /\ UNCHANGED <<envFile, backup, running, overtaken, misread, borrowed, savedCount,
                 crashedCount, envFaults>>

(* The lock file cannot be removed, and the save ends all the same.        *)
FailRelease(w) ==
  /\ SaverAt(w, "renamed") /\ Fails
  /\ lockFile' = IF lockFile = w THEN Abandoned ELSE lockFile
  /\ saver' = [saver EXCEPT ![w] = NoSave]
  /\ UNCHANGED <<envFile, backup, running, lockOld, stolen, overtaken, misread, borrowed,
                 savedCount, crashedCount>>

(* The process stops, whatever it is doing, perhaps between the copy and   *)
(* the rename, and starts with the file.                                   *)
CrashSaves ==
  /\ crashedCount < MaxCrashed
  /\ \/ UNCHANGED backup
     \/ /\ \E w \in Savers : SaverAt(w, "read") \/ SaverAt(w, "blind")
        /\ backup' \in {envFile, EmptyFile}
  /\ running' = envFile
  /\ saver' = [w \in Savers |-> NoSave]
  /\ lockFile' = IF lockFile = Free THEN Free ELSE Abandoned
  /\ crashedCount' = crashedCount + 1
  /\ UNCHANGED <<envFile, lockOld, stolen, overtaken, misread, borrowed, savedCount,
                 envFaults>>

(* A save holds the lock far less than 30 seconds.                         *)
LockAges ==
  /\ lockFile = Abandoned /\ ~lockOld
  /\ lockOld' = TRUE
  /\ UNCHANGED <<envFile, backup, running, lockFile, saver, stolen, overtaken, misread,
                 borrowed, savedCount, crashedCount, envFaults>>

EnvNext ==
  \/ \E w \in Savers :
       \/ \E values \in Submissions, file \in {envFile, backup, EmptyFile} :
            JudgeSave(w, values, file)
       \/ AcquireLock(w) \/ FindLockOld(w) \/ UnlinkLock(w) \/ GiveUpLock(w)
       \/ ReadContents(w) \/ FailRead(w) \/ WriteAtomically(w) \/ FailEnvWrite(w)
       \/ ReleaseLock(w) \/ FailRelease(w)
  \/ CrashSaves \/ LockAges

EnvSpec == EnvInit /\ [][EnvNext]_envVars

-----------------------------------------------------------------------------
EnvTypeOK ==
  /\ {envFile, backup, running} \subseteq EnvFile
  /\ lockFile \in Savers \cup {Free, Abandoned} /\ lockOld \in BOOLEAN
  /\ saver \in [Savers -> Save \cup {NoSave}]
  /\ {stolen, overtaken, misread, borrowed} \subseteq BOOLEAN
  /\ crashedCount \in 0..MaxCrashed /\ envFaults \in 0..MaxEnvFaults

(* Two saves write at once only when the lock of one of them was removed   *)
(* by another, which takes a lock file that a crash or a failing unlink    *)
(* left behind and two saves that find it together.  What the next start   *)
(* loads is complete ("validated exactly as the restarted process will",   *)
(* sso-settings.ts), unless a save replaced a file it had not judged, lost *)
(* its lock, or needs a value that was removed from the file and that only *)
(* the process, not yet restarted, still has, or unless a save could not   *)
(* read the file and replaced it by what it writes alone.                  *)
OneWriterUnlessStolen ==
  /\ Cardinality(Writing) > 1 => stolen
  /\ stolen => crashedCount + envFaults > 0
NextStartIsComplete == ReadOidcConfig(envFile) \/ overtaken \/ stolen \/ borrowed \/ misread

(* A save changes only the fields that were submitted: what other saves    *)
(* wrote meanwhile stays, but for the Entra fields of one that judged      *)
(* another file or that the file lacks, for a stolen lock, and for a save  *)
(* that could not read the file.                                           *)
SavesKeepTheRest ==
  \A w \in Savers :
    saver[w].at \in {"read", "blind"} /\ envFile' # envFile /\ saver'[w] # saver[w] =>
      \A f \in EnvField \ saver[w].submitted :
        \/ envFile'[f] = envFile[f]
        \/ stolen
        \/ SaverAt(w, "blind")
        \/ /\ f \in EntraFields /\ saver[w].submitted \subseteq EntraFields
           /\ saver[w].judged # envFile \/ envFile[f] = ""
=============================================================================
