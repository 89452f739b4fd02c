---------------------------- MODULE Attachments ----------------------------
(***************************************************************************)
(* Files of tickets: src/app/api/upload/route.ts, upload/[id]/route.ts,    *)
(* src/lib/attachment-security.ts, attachment-storage.ts, and the use that *)
(* src/lib/tickets/create-ticket.ts makes of them.  A row in the database  *)
(* and a file in the private storage have no common transaction: a file is *)
(* written under the advisory lock that counts the rows, before its row,   *)
(* and unlinked after the row is marked.  An upload either goes to a       *)
(* ticket or waits, as a temporary one of its user, for a ticket to be     *)
(* created (TicketCreation has the renames of that step one by one).       *)
(***************************************************************************)
EXTENDS Naturals, FiniteSets

CONSTANTS
  Files,              \* files, each uploaded at most once under a name of its own
  Size,               \* [Files -> Nat]: bytes
  Tickets,            \* tickets that exist, or are being created
  Creating,           \* those that are being created from temporary uploads
  Absent,             \* no row, no ticket, nothing going on
  MaxFileBytes, MaxFilesPerTicket, MaxBytesPerTicket, GlobalMaxBytes,
  MaxFilesPerUser, MaxBytesPerUser,
  MaxAccidents        \* bound: crashes, failing calls of the file system, lost answers

VARIABLES
  attachment,   \* attachment[f]: its row, or Absent
  temporary,    \* temporary[f]: "valid" or "expired", or Absent
  disk,         \* disk[f]: where the file is, "temp" or "private", or Absent
  upload,       \* upload[f]: the POST that brings f, or Absent
  removal,      \* removal[f]: how far a DELETE of f is, or Absent
  submission,   \* submission[t]: the files prepared for the new ticket, or Absent
  named,        \* the names that uploads drew so far
  leftBehind,   \* history: files, whole or not, whose clean-up failed or never came
  lostCommit,   \* history: files whose row was committed and the answer lost
  accidents

attachmentVars == <<attachment, temporary, disk, upload, removal, submission, named,
                    leftBehind, lostCommit, accidents>>

Attachment == [ticketId : Tickets, deletedAt : BOOLEAN, blobRemovedAt : BOOLEAN]
Upload ==
  [ticketId : Tickets \cup {Absent}, expired : SUBSET Files,
   stage : {"received", "sweeping", "swept", "locked", "written", "failed"}]

ASSUME AttachmentsAssumption ==
  /\ IsFiniteSet(Files) /\ Size \in [Files -> Nat]
  /\ Creating \subseteq Tickets
  /\ {MaxFilesPerTicket, MaxBytesPerTicket, GlobalMaxBytes,
      MaxFilesPerUser, MaxBytesPerUser, MaxAccidents} \subseteq Nat

(* Absent is none of the values that it stands for the lack of.            *)
ASSUME AbsentAssumption ==
  /\ Absent \notin Tickets /\ Absent \notin Attachment /\ Absent \notin Upload
  /\ Absent \notin {"valid", "expired", "temp", "private", "marked", "unlinked"}

AttachmentsInit ==
  /\ attachment = [f \in Files |-> Absent]
  /\ temporary = [f \in Files |-> Absent]
  /\ disk = [f \in Files |-> Absent]
  /\ upload = [f \in Files |-> Absent]
  /\ removal = [f \in Files |-> Absent]
  /\ submission = [t \in Creating |-> Absent]
  /\ named = {}
  /\ leftBehind = {}
  /\ lostCommit = {}
  /\ accidents = 0

HasRow(f) == attachment[f] # Absent
Uploading(f, stage) == upload[f] # Absent /\ upload[f].stage = stage
Proceed(f, stage) == upload' = [upload EXCEPT ![f].stage = stage]
ToTicket(f) == upload[f].ticketId # Absent

(* A pool of accidents for all of the bad luck of a behaviour.             *)
Accident == accidents < MaxAccidents /\ accidents' = accidents + 1

-----------------------------------------------------------------------------
(* Inspection.                                                             *)

(* ClamAV says FOUND or OK, or fails; without a host nothing is scanned.   *)
ScanStatus == {"CLEAN", "INFECTED", "ERROR", "NOT_CONFIGURED"}
IsAttachmentDownloadable(status) == status \in {"CLEAN", "NOT_CONFIGURED"}

(* Type, size, content and scan: only what passes has a row at all.        *)
InspectAttachment(f, status) ==
  /\ Size[f] > 0 /\ Size[f] <= MaxFileBytes
  /\ status \notin {"INFECTED", "ERROR"}

TicketExists(t) ==
  t \in Creating => \E f \in Files : HasRow(f) /\ attachment[f].ticketId = t

(* POST up to the choice between a ticket and a temporary upload: the      *)
(* ticket is there, and the user may see it.                               *)
ReceiveUpload(f, t, status) ==
  /\ f \notin named /\ named' = named \cup {f}
  /\ InspectAttachment(f, status)
  /\ TicketExists(t)
  /\ upload' = [upload EXCEPT ![f] =
       [ticketId |-> t, expired |-> {},
        stage |-> IF t = Absent THEN "received" ELSE "swept"]]
  /\ UNCHANGED <<attachment, temporary, disk, removal, submission,
                 leftBehind, lostCommit, accidents>>

-----------------------------------------------------------------------------
(* Temporary uploads first give room back: files, then rows.               *)

ExpireUpload(f) ==
  /\ temporary[f] = "valid"
  /\ temporary' = [temporary EXCEPT ![f] = "expired"]
  /\ UNCHANGED <<attachment, disk, upload, removal, submission,
                 named, leftBehind, lostCommit, accidents>>

Expired == {f \in Files : temporary[f] = "expired"}

(* unlink, where ENOENT counts as removed; a rename may have been first.   *)
(* What cannot be unlinked is kept, file and row, for the next upload.     *)
SweepFiles(f, kept) ==
  /\ Uploading(f, "received")
  /\ IF kept = {} THEN UNCHANGED accidents ELSE Accident
  /\ disk' = [g \in Files |->
       IF g \in Expired \ kept /\ disk[g] = "temp" THEN Absent ELSE disk[g]]
  /\ upload' = [upload EXCEPT ![f].stage = "sweeping", ![f].expired = Expired \ kept]
  /\ UNCHANGED <<attachment, temporary, removal, submission,
                 named, leftBehind, lostCommit>>

SweepRows(f) ==
  /\ Uploading(f, "sweeping")
  /\ temporary' = [g \in Files |-> IF g \in upload[f].expired THEN Absent ELSE temporary[g]]
  /\ upload' = [upload EXCEPT ![f].stage = "swept", ![f].expired = {}]
  /\ UNCHANGED <<attachment, disk, removal, submission,
                 named, leftBehind, lostCommit, accidents>>

-----------------------------------------------------------------------------
(* The transaction.                                                        *)

(* The bytes of files, each a file and a position in it, are counted.      *)
Bytes(files) == Cardinality(UNION {{f} \X (1 .. Size[f]) : f \in files})
Fits(files, f, maxFiles, maxBytes) ==
  Cardinality(files) < maxFiles /\ Bytes(files) + Size[f] <= maxBytes

OfTicket(t) ==
  {f \in Files : HasRow(f) /\ attachment[f].ticketId = t /\ ~attachment[f].deletedAt}
Stored == {f \in Files : HasRow(f) /\ ~attachment[f].blobRemovedAt}
Valid == {f \in Files : temporary[f] = "valid"}

HasRoom(f) ==
  IF ToTicket(f)
  THEN /\ Fits(OfTicket(upload[f].ticketId), f, MaxFilesPerTicket, MaxBytesPerTicket)
       /\ Bytes(Stored) + Size[f] <= GlobalMaxBytes
  ELSE Fits(Valid, f, MaxFilesPerUser, MaxBytesPerUser)

LockIgnored(f) == TRUE  \* mutant: no advisory lock

(* pg_advisory_xact_lock: one key for all tickets, one for each user.      *)
LockFree(f) ==
  \A g \in Files :
    (Uploading(g, "locked") \/ Uploading(g, "written")) => (ToTicket(g) # ToTicket(f))

(* The lock is taken and the rows are counted ...                          *)
CountUsage(f) ==
  /\ Uploading(f, "swept") /\ LockFree(f)
  /\ HasRoom(f)
  /\ Proceed(f, "locked")
  /\ UNCHANGED <<attachment, temporary, disk, removal, submission,
                 named, leftBehind, lostCommit, accidents>>

(* ... or the quota is reached.                                            *)
RefuseUpload(f) ==
  /\ Uploading(f, "swept") /\ LockFree(f)
  /\ ~HasRoom(f)
  /\ upload' = [upload EXCEPT ![f] = Absent]
  /\ UNCHANGED <<attachment, temporary, disk, removal, submission,
                 named, leftBehind, lostCommit, accidents>>

Location(f) == IF ToTicket(f) THEN "private" ELSE "temp"
Written(f) == [disk EXCEPT ![f] = Location(f)]

WriteFile(f) ==
  /\ Uploading(f, "locked")
  /\ disk' = Written(f)
  /\ Proceed(f, "written")
  /\ UNCHANGED <<attachment, temporary, removal, submission,
                 named, leftBehind, lostCommit, accidents>>

(* writeFile fails before it made a file, or half-way: fileWritten is still *)
(* false, so that the catch leaves the part of the file where it is.       *)
FailWrite(f) ==
  /\ Uploading(f, "locked") /\ Accident
  /\ \/ UNCHANGED <<disk, leftBehind>>
     \/ disk' = Written(f) /\ leftBehind' = leftBehind \cup {f}
  /\ upload' = [upload EXCEPT ![f] = Absent]
  /\ UNCHANGED <<attachment, temporary, removal, submission, named, lostCommit>>

NewRow(t) == [ticketId |-> t, deletedAt |-> FALSE, blobRemovedAt |-> FALSE]

InsertRow(f) ==
  IF ToTicket(f)
  THEN /\ attachment' = [attachment EXCEPT ![f] = NewRow(upload[f].ticketId)]
       /\ UNCHANGED temporary
  ELSE /\ temporary' = [temporary EXCEPT ![f] = "valid"]
       /\ UNCHANGED attachment

CommitUpload(f) ==
  /\ Uploading(f, "written")
  /\ InsertRow(f)
  /\ upload' = [upload EXCEPT ![f] = Absent]
  /\ UNCHANGED <<disk, removal, submission, named, leftBehind, lostCommit, accidents>>

(* The insertion fails, or COMMIT does: the transaction is rolled back.    *)
FailUpload(f) ==
  /\ Uploading(f, "written")
  /\ Proceed(f, "failed")
  /\ UNCHANGED <<attachment, temporary, disk, removal, submission,
                 named, leftBehind, lostCommit, accidents>>

(* COMMIT succeeds and its answer is lost.                                 *)
LoseCommit(f) ==
  /\ Uploading(f, "written") /\ Accident
  /\ InsertRow(f)
  /\ Proceed(f, "failed")
  /\ lostCommit' = lostCommit \cup {f}
  /\ UNCHANGED <<disk, removal, submission, named, leftBehind>>

FileKept(f) == disk  \* mutant: no catch around the transaction
FileUnlinked(f) == IF disk[f] = Location(f) THEN [disk EXCEPT ![f] = Absent] ELSE disk

(* The catch of the handler unlinks the file that it wrote ...             *)
UndoWrite(f) ==
  /\ Uploading(f, "failed")
  /\ disk' = FileUnlinked(f)
  /\ upload' = [upload EXCEPT ![f] = Absent]
  /\ UNCHANGED <<attachment, temporary, removal, submission,
                 named, leftBehind, lostCommit, accidents>>

(* ... or tries to: the error of the unlink is swallowed.                  *)
FailUndo(f) ==
  /\ Uploading(f, "failed") /\ Accident
  /\ leftBehind' = leftBehind \cup {f}
  /\ upload' = [upload EXCEPT ![f] = Absent]
  /\ UNCHANGED <<attachment, temporary, disk, removal, submission, named, lostCommit>>

-----------------------------------------------------------------------------
(* A ticket is created from temporary uploads.                             *)

(* prepareUploadedFiles: rows, files and the limits of one ticket.         *)
PrepareFiles(t, files) ==
  /\ submission[t] = Absent /\ ~TicketExists(t)
  /\ files # {} /\ files \subseteq Valid
  /\ \A f \in files : disk[f] = "temp"
  /\ Cardinality(files) <= MaxFilesPerTicket /\ Bytes(files) <= MaxBytesPerTicket
  /\ submission' = [submission EXCEPT ![t] = files]
  /\ UNCHANGED <<attachment, temporary, disk, upload, removal,
                 named, leftBehind, lostCommit, accidents>>

TicketLockFree ==
  \A g \in Files :
    (Uploading(g, "locked") \/ Uploading(g, "written")) => ~ToTicket(g)

MayMove(t) ==
  /\ \A f \in submission[t] : disk[f] = "temp"
  /\ Bytes(Stored) + Bytes(submission[t]) <= GlobalMaxBytes

(* The end of the transaction: the usage of all tickets is checked under   *)
(* the lock, the files are renamed and the rows replaced.                  *)
CommitTicket(t) ==
  /\ submission[t] # Absent /\ TicketLockFree /\ MayMove(t)
  /\ disk' = [f \in Files |-> IF f \in submission[t] THEN "private" ELSE disk[f]]
  /\ attachment' = [f \in Files |-> IF f \in submission[t] THEN NewRow(t) ELSE attachment[f]]
  /\ temporary' = [f \in Files |-> IF f \in submission[t] THEN Absent ELSE temporary[f]]
  /\ submission' = [submission EXCEPT ![t] = Absent]
  /\ UNCHANGED <<upload, removal, named, leftBehind, lostCommit, accidents>>

(* It is rolled back, and what was renamed is renamed back.                *)
AbandonTicket(t) ==
  /\ submission[t] # Absent
  /\ submission' = [submission EXCEPT ![t] = Absent]
  /\ UNCHANGED <<attachment, temporary, disk, upload, removal,
                 named, leftBehind, lostCommit, accidents>>

(* It is rolled back, or its process dies, and some of what was renamed is *)
(* not renamed back.                                                       *)
StrandFiles(t, stranded) ==
  /\ submission[t] # Absent /\ TicketLockFree /\ MayMove(t)
  /\ stranded \subseteq submission[t] /\ stranded # {} /\ Accident
  /\ disk' = [f \in Files |-> IF f \in stranded THEN "private" ELSE disk[f]]
  /\ leftBehind' = leftBehind \cup stranded
  /\ submission' = [submission EXCEPT ![t] = Absent]
  /\ UNCHANGED <<attachment, temporary, upload, removal, named, lostCommit>>

-----------------------------------------------------------------------------
(* DELETE: the row is marked where it is not yet, then the file goes, then *)
(* the row says so.  Nobody tries again: a later DELETE finds the mark.    *)

MarkDeleted(f) ==
  /\ HasRow(f) /\ ~attachment[f].deletedAt
  /\ attachment' = [attachment EXCEPT ![f].deletedAt = TRUE]
  /\ removal' = [removal EXCEPT ![f] = "marked"]
  /\ UNCHANGED <<temporary, disk, upload, submission,
                 named, leftBehind, lostCommit, accidents>>

Unlink(f) ==
  /\ removal[f] = "marked"
  /\ disk' = [disk EXCEPT ![f] = Absent]
  /\ removal' = [removal EXCEPT ![f] = "unlinked"]
  /\ UNCHANGED <<attachment, temporary, upload, submission,
                 named, leftBehind, lostCommit, accidents>>

(* unlink fails and not for want of a file: the handler ends.              *)
FailUnlink(f) ==
  /\ removal[f] = "marked" /\ Accident
  /\ removal' = [removal EXCEPT ![f] = Absent]
  /\ leftBehind' = leftBehind \cup {f}
  /\ UNCHANGED <<attachment, temporary, disk, upload, submission, named, lostCommit>>

MarkBlobRemoved(f) ==
  /\ removal[f] = "unlinked"
  /\ attachment' = [attachment EXCEPT ![f].blobRemovedAt = TRUE]
  /\ removal' = [removal EXCEPT ![f] = Absent]
  /\ UNCHANGED <<temporary, disk, upload, submission,
                 named, leftBehind, lostCommit, accidents>>

(* The process dies with everything it was doing.                          *)
Crash ==
  /\ Accident
  /\ leftBehind' = leftBehind
       \cup {f \in Files : upload[f] # Absent /\ disk[f] # Absent}
       \cup {f \in Files : removal[f] # Absent}
  /\ upload' = [f \in Files |-> Absent]
  /\ removal' = [f \in Files |-> Absent]
  /\ submission' = [t \in Creating |-> Absent]
  /\ UNCHANGED <<attachment, temporary, disk, named, lostCommit>>

(* The start of the application, while nothing else runs, removes temporary *)
(* files by their age; the rows are left to the next upload of their user. *)
CleanAtStart(f) ==
  /\ \A g \in Files : upload[g] = Absent /\ removal[g] = Absent
  /\ disk[f] = "temp" /\ temporary[f] # "valid"
  /\ disk' = [disk EXCEPT ![f] = Absent]
  /\ UNCHANGED <<attachment, temporary, upload, removal, submission,
                 named, leftBehind, lostCommit, accidents>>

(* What GET answers: the row is read, then the file.                       *)
Download(f) ==
  CASE ~HasRow(f) -> "not found"
    [] HasRow(f) /\ attachment[f].deletedAt -> "removed"
    [] HasRow(f) /\ ~attachment[f].deletedAt ->
         IF disk[f] = "private" THEN "served" ELSE "missing"

-----------------------------------------------------------------------------
AttachmentsNext ==
  \/ \E f \in Files, t \in Tickets \cup {Absent}, status \in ScanStatus :
       ReceiveUpload(f, t, status)
  \/ \E f \in Files :
       \/ ExpireUpload(f) \/ SweepRows(f)
       \/ CountUsage(f) \/ RefuseUpload(f) \/ WriteFile(f) \/ FailWrite(f)
       \/ CommitUpload(f) \/ FailUpload(f) \/ LoseCommit(f)
       \/ UndoWrite(f) \/ FailUndo(f)
       \/ MarkDeleted(f) \/ Unlink(f) \/ FailUnlink(f) \/ MarkBlobRemoved(f)
       \/ CleanAtStart(f)
  \/ \E f \in Files : \E kept \in SUBSET Expired : SweepFiles(f, kept)
  \/ \E t \in Creating, files \in SUBSET Files :
       PrepareFiles(t, files) \/ StrandFiles(t, files)
  \/ \E t \in Creating : CommitTicket(t) \/ AbandonTicket(t)
  \/ Crash

AttachmentsSpec == AttachmentsInit /\ [][AttachmentsNext]_attachmentVars

-----------------------------------------------------------------------------
(* The shape of the rows and of what is going on.                          *)
AttachmentsTypeOK ==
  /\ attachment \in [Files -> Attachment \cup {Absent}]
  /\ temporary \in [Files -> {"valid", "expired", Absent}]
  /\ disk \in [Files -> {"temp", "private", Absent}]
  /\ upload \in [Files -> Upload \cup {Absent}]
  /\ removal \in [Files -> {"marked", "unlinked", Absent}]
  /\ submission \in [Creating -> (SUBSET Files) \cup {Absent}]
  /\ named \subseteq Files
  /\ leftBehind \subseteq Files /\ lostCommit \subseteq Files
  /\ accidents \in Nat

(* However uploads and new tickets meet, no ticket, no user and not all    *)
(* tickets together hold more than their quota (the locks of upload and    *)
(* createTicket): a new ticket takes no lock for the limits of one ticket, *)
(* and nobody can upload to it before it is committed.                     *)
QuotasHold ==
  /\ \A t \in Tickets :
       /\ Cardinality(OfTicket(t)) <= MaxFilesPerTicket
       /\ Bytes(OfTicket(t)) <= MaxBytesPerTicket
  /\ Bytes(Stored) <= GlobalMaxBytes
  /\ Cardinality(Valid) <= MaxFilesPerUser /\ Bytes(Valid) <= MaxBytesPerUser

(* Rows and files agree, whatever fails half-way.  A row that may be       *)
(* downloaded has its file, unless the answer of its commit was lost; a    *)
(* row says that its file is gone only if it is; and a file stays          *)
(* in the private storage without a row that counts it, or after its       *)
(* removal, only where a crash, a failing write, unlink or rename left it  *)
(* (the catch of POST, DELETE and restoreMovedFiles).                      *)
FilesMatchRows ==
  \A f \in Files :
    /\ Download(f) = "missing" => f \in lostCommit
    /\ HasRow(f) /\ attachment[f].blobRemovedAt => disk[f] = Absent
    /\ disk[f] = "private" =>
         \/ f \in Stored \/ f \in leftBehind
         \/ (Uploading(f, "written") \/ Uploading(f, "failed")) /\ ToTicket(f)
    /\ HasRow(f) /\ attachment[f].deletedAt /\ disk[f] # Absent =>
         removal[f] = "marked" \/ f \in leftBehind
=============================================================================
