------------------------ MODULE AttachmentMigration ------------------------
(***************************************************************************)
(* src/scripts/migrate-private-attachments.mjs: at every start, before the *)
(* application serves anybody, attachments that older versions kept in one *)
(* or two public directories are moved to the private storage.  The script *)
(* goes through the rows one by one, may die anywhere, and runs again from *)
(* the beginning at the next start.                                        *)
(***************************************************************************)
EXTENDS Naturals, FiniteSets

CONSTANTS
  Legacy,         \* attachments whose rows the script looks at
  PublicRoots,    \* public/ and .next/standalone/public/
  Bytes0,         \* contents that a file may have
  Partial,        \* what a copy that was cut short leaves
  NoFile,         \* no file
  MaxStarts       \* bound: runs of the script

(* No file has the bytes of a copy that was cut short.                     *)
ASSUME MigrationAssumption ==
  /\ NoFile # Partial /\ NoFile \notin Bytes0 /\ Partial \notin Bytes0
  /\ MaxStarts \in Nat

VARIABLES
  path,       \* path[a]: "legacy" or "private", what the row says
  public,     \* public[a][r]: the bytes of the public copy, or NoFile
  private,    \* private[a]: the bytes in the private storage, or NoFile
  script,     \* the run: its stage, the row it is at and the copies it found
  before,     \* history: public and private as they were at first
  orphan,         \* a public file that belongs to none of the rows is there
  starts

migrationVars == <<path, public, private, script, before, orphan, starts>>

Copies == [PublicRoots -> Bytes0 \cup {NoFile}]
Stopped == [stage |-> "stopped"]
Serving == [stage |-> "serving"]  \* the script succeeded, the application runs
Run ==
  [stage : {"next", "found", "copying", "verified", "moved"}, done : SUBSET Legacy,
   at : Legacy, sources : SUBSET PublicRoots]

MigrationInit ==
  /\ path \in [Legacy -> {"legacy", "private"}]
  /\ public \in [Legacy -> Copies]
  /\ private \in [Legacy -> Bytes0 \cup {NoFile}]
  /\ script = Stopped
  /\ before = [public |-> public, private |-> private]
  /\ orphan \in BOOLEAN
  /\ starts = 0

At(a, stage) == script.stage = stage /\ script.at = a
Keep(stage) == script' = [script EXCEPT !.stage = stage]
Sources(a) == {r \in PublicRoots : public[a][r] # NoFile}

(* Another start, after the last run died, threw or ended.                 *)
StartScript ==
  /\ script \in {Stopped, Serving} /\ starts < MaxStarts
  /\ starts' = starts + 1
  /\ \E a \in Legacy :
       script' = [stage |-> "next", done |-> {}, at |-> a, sources |-> {}]
  /\ UNCHANGED <<path, public, private, before, orphan>>

(* The copies of the next row are looked for; a row without any file stops *)
(* the script if it is a legacy one.                                       *)
FindSources(a) ==
  /\ script.stage = "next" /\ a \notin script.done
  /\ script' =
       IF Sources(a) = {} /\ private[a] = NoFile
       THEN IF path[a] = "legacy" THEN Stopped
            ELSE [script EXCEPT !.done = @ \cup {a}]
       ELSE [script EXCEPT !.stage = "found", !.at = a, !.sources = Sources(a)]
  /\ UNCHANGED <<path, public, private, before, orphan, starts>>

(* copyFile with COPYFILE_EXCL, which is not atomic: from the first copy   *)
(* found, and only if the private file is missing.                         *)
BeginCopy(a) ==
  /\ At(a, "found") /\ private[a] = NoFile
  /\ private' = [private EXCEPT ![a] = Partial]
  /\ Keep("copying")
  /\ UNCHANGED <<path, public, before, orphan, starts>>

First(a) == CHOOSE r \in PublicRoots : r \in script.sources

EndCopy(a) ==
  /\ At(a, "copying")
  /\ private' = [private EXCEPT ![a] = public[a][First(a)]]
  /\ Keep("found")
  /\ UNCHANGED <<path, public, before, orphan, starts>>

IsThere(a) == private[a] # NoFile  \* mutant: no comparison of the digests
SameBytes(a) == private[a] # NoFile /\ \A r \in script.sources : public[a][r] = private[a]

(* The digests of all copies are compared; a difference stops the script.  *)
Verify(a) ==
  /\ At(a, "found") /\ private[a] # NoFile
  /\ IF SameBytes(a) THEN Keep("verified") ELSE script' = Stopped
  /\ UNCHANGED <<path, public, private, before, orphan, starts>>

UpdatePath(a) ==
  /\ At(a, "verified")
  /\ path' = [path EXCEPT ![a] = "private"]
  /\ Keep("moved")
  /\ UNCHANGED <<public, private, before, orphan, starts>>

RemoveCopy(a, r) ==
  /\ At(a, "moved") /\ r \in script.sources
  /\ public' = [public EXCEPT ![a][r] = NoFile]
  /\ script' = [script EXCEPT !.sources = @ \ {r}]
  /\ UNCHANGED <<path, private, before, orphan, starts>>

EndRow(a) ==
  /\ At(a, "moved") /\ script.sources = {}
  /\ script' = [script EXCEPT !.stage = "next", !.done = @ \cup {a}]
  /\ UNCHANGED <<path, public, private, before, orphan, starts>>

(* All rows are done.  A file that is left in the public directories stops  *)
(* the script, which is for an operator to reconcile.                      *)
FinishScript ==
  /\ script.stage = "next" /\ script.done = Legacy
  /\ script' = IF orphan \/ \E a \in Legacy : Sources(a) # {} THEN Stopped ELSE Serving
  /\ UNCHANGED <<path, public, private, before, orphan, starts>>

(* The script dies wherever it is, or the application stops.               *)
StopScript ==
  /\ script # Stopped
  /\ script' = Stopped
  /\ UNCHANGED <<path, public, private, before, orphan, starts>>

MigrationNext ==
  \/ StartScript \/ FinishScript \/ StopScript
  \/ \E a \in Legacy :
       \/ FindSources(a) \/ BeginCopy(a) \/ EndCopy(a) \/ Verify(a)
       \/ UpdatePath(a) \/ EndRow(a)
       \/ \E r \in PublicRoots : RemoveCopy(a, r)

MigrationSpec == MigrationInit /\ [][MigrationNext]_migrationVars

-----------------------------------------------------------------------------
(* The shape of the rows, the files and the run.                           *)
MigrationTypeOK ==
  /\ path \in [Legacy -> {"legacy", "private"}]
  /\ public \in [Legacy -> Copies]
  /\ private \in [Legacy -> Bytes0 \cup {NoFile, Partial}]
  /\ script \in Run \cup {Stopped, Serving}
  /\ before \in [public : [Legacy -> Copies], private : [Legacy -> Bytes0 \cup {NoFile}]]
  /\ orphan \in BOOLEAN /\ starts \in Nat

(* Whenever the script dies and however often it starts again, no bytes    *)
(* are lost: every public copy is still there or has its equal in the      *)
(* private storage, a private file that was there is never overwritten,    *)
(* and no row points to a private file that is cut short.  The application *)
(* runs only when no row is a legacy one and nothing is public any more.   *)
NoBytesAreLost ==
  /\ script = Serving =>
       /\ ~orphan
       /\ \A a \in Legacy :
            /\ path[a] = "private" /\ private[a] # Partial
            /\ \A r \in PublicRoots : public[a][r] = NoFile
  /\ \A a \in Legacy :
       /\ \A r \in PublicRoots : public[a][r] # before.public[a][r] =>
            public[a][r] = NoFile /\ private[a] = before.public[a][r]
       /\ before.private[a] # NoFile => private[a] = before.private[a]
       /\ path[a] = "private" /\ private[a] = Partial =>
            \E r \in PublicRoots : public[a][r] # NoFile
=============================================================================
