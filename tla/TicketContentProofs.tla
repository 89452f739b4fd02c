------------------------ MODULE TicketContentProofs ------------------------
(***************************************************************************)
(* Theorems about what a ticket holds: its files, its form, the answers    *)
(* to it and its timeline.                                                 *)
(***************************************************************************)
EXTENDS MCTicketContent, FiniteSetTheorems, WellFoundedInduction, TLAPS

USE DEF attachmentVars, formVars, pageVars, migrationVars

-----------------------------------------------------------------------------
(* A file whose upload has come to its end, one way or another.            *)
Arrived(f) == f \in named /\ (upload[f] = Absent \/ Uploading(f, "failed"))
HoldsBytes(f) == Uploading(f, "locked") \/ Uploading(f, "written")
Unused(t) ==
  \A f \in Files :
    /\ HasRow(f) => attachment[f].ticketId # t
    /\ upload[f] # Absent => upload[f].ticketId # t

(* Rows and temporary uploads are of files that have arrived.  Only files  *)
(* that wait for a ticket are in the temporary directory.                  *)
RowsArrived ==
  /\ \A f \in Files : upload[f] # Absent => f \in named
  /\ \A f \in Files : HasRow(f) => Arrived(f) /\ disk[f] # "temp"
  /\ \A f \in Files : temporary[f] # Absent => Arrived(f)
  /\ \A f \in Files : Uploading(f, "written") /\ ToTicket(f) => disk[f] = "private"

(* What is uploaded to a ticket that was created finds it.                 *)
TicketsStand ==
  \A f \in Files :
    upload[f] # Absent /\ upload[f].ticketId \in Creating => TicketExists(upload[f].ticketId)

(* A ticket that is being created has no file yet and gets none from       *)
(* another request, and its submission keeps to the limits of a ticket.    *)
SubmissionsWait ==
  \A t \in Creating :
    submission[t] # Absent =>
      /\ \A f \in submission[t] : Arrived(f)
      /\ Unused(t)
      /\ Cardinality(submission[t]) <= MaxFilesPerTicket
      /\ Bytes(submission[t]) <= MaxBytesPerTicket

(* What is being removed has a row.                                        *)
TypesInv ==
  AttachmentsTypeOK /\ \A f \in Files : removal[f] # Absent => HasRow(f)

ArrivedInv == RowsArrived /\ TicketsStand /\ SubmissionsWait

(* The one that holds a lock still finds the room that it counted.         *)
RoomInv ==
  /\ \A f, g \in Files : HoldsBytes(f) /\ HoldsBytes(g) /\ (ToTicket(f) <=> ToTicket(g)) => f = g
  /\ \A f \in Files : HoldsBytes(f) => HasRoom(f)

QuotaInv == TypesInv /\ ArrivedInv /\ RoomInv /\ QuotasHold

-----------------------------------------------------------------------------
(* Sums of sizes.                                                          *)

BytesOf(files) == UNION {{f} \X (1 .. Size[f]) : f \in files}

LEMMA BytesAreFinite ==
  ASSUME NEW files \in SUBSET Files
  PROVE  IsFiniteSet(BytesOf(files)) /\ IsFiniteSet(files)
<1> DEFINE of == [f \in files |-> {f} \X (1 .. Size[f])]
           all == {{f} \X (1 .. Size[f]) : f \in files}
<1>1. IsFiniteSet(files)
  BY FS_Subset, AttachmentsAssumption
<1>2. of \in Surjection(files, all)
  BY DEF Surjection
<1>3. IsFiniteSet(all)
  <2> HIDE DEF of, all
  <2> QED BY <1>1, <1>2, FS_Surjection
<1>4. ASSUME NEW f \in files PROVE IsFiniteSet({f} \X (1 .. Size[f]))
  <2>1. f \in Files /\ Size[f] \in Nat
    BY AttachmentsAssumption
  <2>2. IsFiniteSet({f})
    BY FS_Singleton
  <2>3. IsFiniteSet(1 .. Size[f])
    BY <2>1, FS_Interval
  <2> QED
    BY <2>2, <2>3, FS_Product
<1>5. \A T \in all : IsFiniteSet(T)
  BY <1>4
<1>6. IsFiniteSet(UNION all)
  <2> HIDE DEF all
  <2> QED BY <1>3, <1>5, FS_UNION
<1> QED
  BY <1>1, <1>6 DEF BytesOf

LEMMA BytesOfOne ==
  ASSUME NEW f \in Files
  PROVE  IsFiniteSet({f} \X (1 .. Size[f])) /\ Cardinality({f} \X (1 .. Size[f])) = Size[f]
<1>1. Size[f] \in Nat
  BY AttachmentsAssumption
<1>2. IsFiniteSet({f}) /\ Cardinality({f}) = 1
  BY FS_Singleton
<1>3. IsFiniteSet(1 .. Size[f]) /\ Cardinality(1 .. Size[f]) = Size[f]
  BY <1>1, FS_Interval, SMTT(30)
<1>4. /\ IsFiniteSet({f} \X (1 .. Size[f]))
      /\ Cardinality({f} \X (1 .. Size[f])) = 1 * Size[f]
  BY <1>2, <1>3, FS_Product, ZenonT(60)
<1> QED
  BY <1>1, <1>4

(* A set of fewer files has no more bytes ...                              *)
LEMMA FewerBytes ==
  ASSUME NEW more \in SUBSET Files, NEW files \in SUBSET more
  PROVE  /\ Bytes(files) \in Nat /\ Bytes(more) \in Nat /\ Bytes(files) <= Bytes(more)
         /\ Cardinality(files) \in Nat /\ Cardinality(more) \in Nat
         /\ Cardinality(files) <= Cardinality(more)
<1>1. files \in SUBSET Files /\ BytesOf(files) \in SUBSET BytesOf(more)
  BY DEF BytesOf
<1>2. IsFiniteSet(BytesOf(more)) /\ IsFiniteSet(more)
  BY BytesAreFinite
<1>3. /\ IsFiniteSet(BytesOf(files))
      /\ Cardinality(BytesOf(files)) <= Cardinality(BytesOf(more))
  BY <1>1, <1>2, FS_Subset
<1>4. IsFiniteSet(files) /\ Cardinality(files) <= Cardinality(more)
  BY <1>2, FS_Subset
<1>5. /\ Cardinality(BytesOf(files)) \in Nat /\ Cardinality(BytesOf(more)) \in Nat
      /\ Cardinality(files) \in Nat /\ Cardinality(more) \in Nat
  BY <1>2, <1>3, <1>4, FS_CardinalityType
<1> QED
  BY <1>3, <1>4, <1>5 DEF Bytes, BytesOf

(* ... one more file adds its size at most ...                             *)
LEMMA OneMoreFile ==
  ASSUME NEW files \in SUBSET Files, NEW f \in Files
  PROVE  /\ Bytes(files \cup {f}) <= Bytes(files) + Size[f]
         /\ Cardinality(files \cup {f}) <= Cardinality(files) + 1
<1> DEFINE one == {f} \X (1 .. Size[f])
<1>1. BytesOf(files \cup {f}) = BytesOf(files) \cup one
  BY DEF BytesOf
<1>2. IsFiniteSet(one) /\ Cardinality(one) = Size[f] /\ Size[f] \in Nat
  BY BytesOfOne, AttachmentsAssumption
<1>3. IsFiniteSet(BytesOf(files)) /\ IsFiniteSet(files)
  BY BytesAreFinite
<1> HIDE DEF one
<1>4. Cardinality(BytesOf(files) \cup one)
        = Cardinality(BytesOf(files)) + Cardinality(one) - Cardinality(BytesOf(files) \cap one)
  BY <1>2, <1>3, FS_Union
<1>5. IsFiniteSet(BytesOf(files) \cap one)
  BY <1>3, FS_Intersection
<1>6. /\ Cardinality(BytesOf(files) \cap one) \in Nat
      /\ Cardinality(BytesOf(files)) \in Nat /\ Cardinality(files) \in Nat
  BY <1>3, <1>5, FS_CardinalityType
<1>7. Cardinality(BytesOf(files \cup {f})) <= Cardinality(BytesOf(files)) + Size[f]
  <2>1. Cardinality(BytesOf(files \cup {f})) = Cardinality(BytesOf(files) \cup one)
    BY Zenon, <1>1
  <2> DEFINE all == Cardinality(BytesOf(files) \cup one)
             had == Cardinality(BytesOf(files))
             both == Cardinality(BytesOf(files) \cap one)
             new == Cardinality(one)
  <2>2. all = had + new - both /\ new = Size[f] /\ Size[f] \in Nat /\ both \in Nat /\ had \in Nat
    BY Zenon, <1>2, <1>4, <1>6
  <2> HIDE DEF all, had, both, new
  <2>3. all <= had + Size[f]
    BY <2>2
  <2> QED
    BY Zenon, <2>1, <2>3 DEF all, had
<1>8. Cardinality(files \cup {f}) <= Cardinality(files) + 1
  <2>1. IsFiniteSet(files \cup {f})
        /\ (Cardinality(files \cup {f}) = Cardinality(files)
             \/ Cardinality(files \cup {f}) = Cardinality(files) + 1)
    <3>1. CASE f \in files
      <4>1. files \cup {f} = files
        BY <3>1
      <4> QED
        BY Zenon, <4>1, <1>3
    <3>2. CASE f \notin files
      BY Zenon, <3>2, <1>3, FS_AddElement
    <3> QED
      BY <3>1, <3>2
  <2> DEFINE some == Cardinality(files \cup {f})
             had == Cardinality(files)
  <2>2. (some = had \/ some = had + 1) /\ had \in Nat
    BY Zenon, <2>1, <1>6
  <2> HIDE DEF some, had
  <2>3. some <= had + 1
    BY <2>2
  <2> QED
    BY Zenon, <2>3 DEF some, had
<1> QED
  BY <1>7, <1>8 DEF Bytes, BytesOf

(* ... and two sets have the bytes of both at most.                        *)
LEMMA BothSets ==
  ASSUME NEW files \in SUBSET Files, NEW others \in SUBSET Files
  PROVE  Bytes(files \cup others) <= Bytes(files) + Bytes(others)
<1>1. BytesOf(files \cup others) = BytesOf(files) \cup BytesOf(others)
  BY DEF BytesOf
<1>2. IsFiniteSet(BytesOf(files)) /\ IsFiniteSet(BytesOf(others))
  BY BytesAreFinite
<1>3. Cardinality(BytesOf(files) \cup BytesOf(others))
        = Cardinality(BytesOf(files)) + Cardinality(BytesOf(others))
            - Cardinality(BytesOf(files) \cap BytesOf(others))
  BY <1>2, FS_Union
<1>4. IsFiniteSet(BytesOf(files) \cap BytesOf(others))
  BY <1>2, FS_Intersection
<1>5. /\ Cardinality(BytesOf(files)) \in Nat /\ Cardinality(BytesOf(others)) \in Nat
      /\ Cardinality(BytesOf(files) \cap BytesOf(others)) \in Nat
  BY <1>2, <1>4, FS_CardinalityType
<1>6. Cardinality(BytesOf(files \cup others))
        <= Cardinality(BytesOf(files)) + Cardinality(BytesOf(others))
  <2>1. Cardinality(BytesOf(files \cup others)) = Cardinality(BytesOf(files) \cup BytesOf(others))
    BY Zenon, <1>1
  <2> DEFINE all == Cardinality(BytesOf(files) \cup BytesOf(others))
             had == Cardinality(BytesOf(files))
             new == Cardinality(BytesOf(others))
             both == Cardinality(BytesOf(files) \cap BytesOf(others))
  <2>2. all = had + new - both /\ new \in Nat /\ both \in Nat /\ had \in Nat
    BY Zenon, <1>3, <1>5
  <2> HIDE DEF all, had, both, new
  <2>3. all <= had + new
    BY <2>2
  <2> QED
    BY Zenon, <2>1, <2>3 DEF all, had, new
<1> QED
  BY <1>6 DEF Bytes, BytesOf

-----------------------------------------------------------------------------
(* Types.                                                                  *)

LEMMA TypesInit == AttachmentsInit => TypesInv
BY AttachmentsAssumption DEF AttachmentsInit, AttachmentsTypeOK, TypesInv

(* A new row is a row, of the ticket it was made for.                      *)
LEMMA NewRows ==
  ASSUME NEW t \in Tickets
  PROVE  /\ NewRow(t) \in Attachment /\ NewRow(t) # Absent /\ NewRow(t).ticketId = t
         /\ ~NewRow(t).deletedAt /\ ~NewRow(t).blobRemovedAt
<1>1. /\ NewRow(t) \in Attachment /\ NewRow(t).ticketId = t
      /\ ~NewRow(t).deletedAt /\ ~NewRow(t).blobRemovedAt
  BY DEF NewRow, Attachment
<1>2. Absent \notin Attachment
  BY AbsentAssumption
<1> QED
  BY Zenon, <1>1, <1>2

(* No step leaves the types, and a row is there while it is removed.       *)
LEMMA TypesStep ==
  ASSUME TypesInv, [AttachmentsNext]_attachmentVars
  PROVE  TypesInv'
<1> USE AttachmentsAssumption, AbsentAssumption
        DEF TypesInv, AttachmentsTypeOK, Attachment, Upload, HasRow, Uploading
<1>1. CASE UNCHANGED attachmentVars
  BY <1>1
<1>2. ASSUME NEW f \in Files, NEW t \in Tickets \cup {Absent}, NEW status \in ScanStatus,
             ReceiveUpload(f, t, status)
      PROVE  TypesInv'
  BY <1>2 DEF ReceiveUpload
<1>3. ASSUME NEW f \in Files, ExpireUpload(f) PROVE TypesInv'
  BY <1>3 DEF ExpireUpload
<1>4. ASSUME NEW f \in Files, NEW kept \in SUBSET Expired, SweepFiles(f, kept)
      PROVE  TypesInv'
  <2>1. upload[f] \in Upload /\ Expired \ kept \in SUBSET Files
    BY <1>4 DEF SweepFiles, Uploading, Expired
  <2>2. upload' = [upload EXCEPT ![f] =
                     [upload[f] EXCEPT !.stage = "sweeping", !.expired = Expired \ kept]]
    BY <1>4, <2>1 DEF SweepFiles
  <2>3. [upload[f] EXCEPT !.stage = "sweeping", !.expired = Expired \ kept] \in Upload
    BY <2>1
  <2> HIDE DEF Upload
  <2>4. upload' \in [Files -> Upload \cup {Absent}]
    BY <2>2, <2>3
  <2> QED
    BY <1>4, <2>4 DEF SweepFiles, Accident
<1>5. ASSUME NEW f \in Files, SweepRows(f) PROVE TypesInv'
  <2>1. upload[f] \in Upload /\ Expired \in SUBSET Files
    BY <1>5 DEF SweepRows, Uploading, Expired
  <2>2. upload' = [upload EXCEPT ![f] = [upload[f] EXCEPT !.stage = "swept", !.expired = {}]]
    BY <1>5, <2>1 DEF SweepRows
  <2>3. [upload[f] EXCEPT !.stage = "swept", !.expired = {}] \in Upload
    BY <2>1
  <2> HIDE DEF Upload
  <2>4. upload' \in [Files -> Upload \cup {Absent}]
    BY <2>2, <2>3
  <2> QED
    BY <1>5, <2>4 DEF SweepRows
<1>6. ASSUME NEW f \in Files, CountUsage(f) PROVE TypesInv'
  BY <1>6 DEF CountUsage, Proceed
<1>7. ASSUME NEW f \in Files, RefuseUpload(f) PROVE TypesInv'
  BY <1>7 DEF RefuseUpload
<1>8. ASSUME NEW f \in Files, WriteFile(f) PROVE TypesInv'
  BY <1>8 DEF WriteFile, Written, Location, Proceed
<1>9. ASSUME NEW f \in Files, CommitUpload(f) PROVE TypesInv'
  <2>1. CASE ToTicket(f)
    <3>1. attachment' = [attachment EXCEPT ![f] = NewRow(upload[f].ticketId)] /\ UNCHANGED temporary
      BY <1>9, <2>1 DEF CommitUpload, InsertRow
    <3>2. /\ NewRow(upload[f].ticketId) \in [ticketId : Tickets, deletedAt : BOOLEAN, blobRemovedAt : BOOLEAN]
          /\ NewRow(upload[f].ticketId) # Absent
      BY <1>9, <2>1, NewRows DEF CommitUpload, Uploading, ToTicket
    <3> QED
      BY <1>9, <2>1, <3>1, <3>2 DEF CommitUpload, ToTicket, Uploading
  <2>2. CASE ~ToTicket(f)
    <3>1. temporary' = [temporary EXCEPT ![f] = "valid"] /\ UNCHANGED attachment
      BY <1>9, <2>2 DEF CommitUpload, InsertRow
    <3> QED
      BY <1>9, <2>2, <3>1 DEF CommitUpload, ToTicket, Uploading
  <2> QED
    BY <2>1, <2>2
<1>10. ASSUME NEW f \in Files, FailUpload(f) PROVE TypesInv'
  BY <1>10 DEF FailUpload, Proceed
<1>11. ASSUME NEW f \in Files, LoseCommit(f) PROVE TypesInv'
  <2>1. CASE ToTicket(f)
    <3>1. attachment' = [attachment EXCEPT ![f] = NewRow(upload[f].ticketId)] /\ UNCHANGED temporary
      BY <1>11, <2>1 DEF LoseCommit, InsertRow
    <3>2. /\ NewRow(upload[f].ticketId) \in [ticketId : Tickets, deletedAt : BOOLEAN, blobRemovedAt : BOOLEAN]
          /\ NewRow(upload[f].ticketId) # Absent
      BY <1>11, <2>1, NewRows DEF LoseCommit, Uploading, ToTicket
    <3> QED
      BY <1>11, <2>1, <3>1, <3>2 DEF LoseCommit, ToTicket, Uploading, Proceed, Accident
  <2>2. CASE ~ToTicket(f)
    <3>1. temporary' = [temporary EXCEPT ![f] = "valid"] /\ UNCHANGED attachment
      BY <1>11, <2>2 DEF LoseCommit, InsertRow
    <3> QED
      BY <1>11, <2>2, <3>1 DEF LoseCommit, ToTicket, Uploading, Proceed, Accident
  <2> QED
    BY <2>1, <2>2
<1>12. ASSUME NEW f \in Files, UndoWrite(f) PROVE TypesInv'
  BY <1>12 DEF UndoWrite, FileUnlinked, Location
<1>13. ASSUME NEW f \in Files, MarkDeleted(f) PROVE TypesInv'
  BY <1>13 DEF MarkDeleted
<1>14. ASSUME NEW f \in Files, Unlink(f) PROVE TypesInv'
  BY <1>14 DEF Unlink
<1>15. ASSUME NEW f \in Files, FailUnlink(f) PROVE TypesInv'
  BY <1>15 DEF FailUnlink, Accident
<1>16. ASSUME NEW f \in Files, MarkBlobRemoved(f) PROVE TypesInv'
  BY <1>16 DEF MarkBlobRemoved
<1>17. ASSUME NEW f \in Files, CleanAtStart(f) PROVE TypesInv'
  BY <1>17, ZenonT(40) DEF CleanAtStart
<1>18. ASSUME NEW t \in Creating, NEW files \in SUBSET Files, PrepareFiles(t, files)
      PROVE  TypesInv'
  BY <1>18 DEF PrepareFiles
<1>19. ASSUME NEW t \in Creating, CommitTicket(t) PROVE TypesInv'
  BY <1>19, NewRows DEF CommitTicket, MayMove
<1>20. ASSUME NEW t \in Creating, AbandonTicket(t) PROVE TypesInv'
  BY <1>20 DEF AbandonTicket
<1>22. ASSUME NEW f \in Files, FailWrite(f) PROVE TypesInv'
  BY <1>22 DEF FailWrite, Accident, Written, Location
<1>23. ASSUME NEW f \in Files, FailUndo(f) PROVE TypesInv'
  BY <1>23 DEF FailUndo, Accident
<1>24. ASSUME NEW t \in Creating, NEW files \in SUBSET Files, StrandFiles(t, files)
      PROVE  TypesInv'
  BY <1>24 DEF StrandFiles, Accident, MayMove
<1>21. CASE Crash
  BY <1>21 DEF Crash, Accident
<1> QED
  BY <1>1, <1>2, <1>3, <1>4, <1>5, <1>6, <1>7, <1>8, <1>9, <1>10, <1>11, <1>12, <1>13,
     <1>14, <1>15, <1>16, <1>17, <1>18, <1>19, <1>20, <1>21, <1>22, <1>23, <1>24
     DEF AttachmentsNext

-----------------------------------------------------------------------------
(* Where files come from.                                                  *)

(* What has arrived is not on its way again.                               *)
ArrivedStays ==
  \A g \in Files : Arrived(g) => Arrived(g)'

LEMMA FilesStayArrived ==
  ASSUME TypesInv, [AttachmentsNext]_attachmentVars
  PROVE  ArrivedStays
<1> USE AttachmentsAssumption, AbsentAssumption
        DEF TypesInv, AttachmentsTypeOK, Attachment, Upload, HasRow, Uploading, Arrived,
            ArrivedStays
<1>1. CASE UNCHANGED attachmentVars
  BY <1>1
<1>2. ASSUME NEW f \in Files, NEW t \in Tickets \cup {Absent}, NEW status \in ScanStatus,
             ReceiveUpload(f, t, status)
      PROVE  ArrivedStays
  BY <1>2 DEF ReceiveUpload
<1>3. ASSUME NEW f \in Files, ExpireUpload(f) PROVE ArrivedStays
  BY <1>3 DEF ExpireUpload
<1>4. ASSUME NEW f \in Files, NEW kept \in SUBSET Expired, SweepFiles(f, kept)
      PROVE  ArrivedStays
  BY <1>4 DEF SweepFiles, Expired, Accident
<1>5. ASSUME NEW f \in Files, SweepRows(f) PROVE ArrivedStays
  BY <1>5 DEF SweepRows
<1>6. ASSUME NEW f \in Files, CountUsage(f) PROVE ArrivedStays
  BY <1>6 DEF CountUsage, Proceed
<1>7. ASSUME NEW f \in Files, RefuseUpload(f) PROVE ArrivedStays
  BY <1>7 DEF RefuseUpload
<1>8. ASSUME NEW f \in Files, WriteFile(f) PROVE ArrivedStays
  BY <1>8 DEF WriteFile, Written, Location, Proceed
<1>9. ASSUME NEW f \in Files, CommitUpload(f) PROVE ArrivedStays
  BY <1>9 DEF CommitUpload, InsertRow, NewRow
<1>10. ASSUME NEW f \in Files, FailUpload(f) PROVE ArrivedStays
  BY <1>10 DEF FailUpload, Proceed
<1>11. ASSUME NEW f \in Files, LoseCommit(f) PROVE ArrivedStays
  BY <1>11 DEF LoseCommit, InsertRow, NewRow, Proceed, Accident
<1>12. ASSUME NEW f \in Files, UndoWrite(f) PROVE ArrivedStays
  BY <1>12 DEF UndoWrite, FileUnlinked, Location
<1>13. ASSUME NEW f \in Files, MarkDeleted(f) PROVE ArrivedStays
  BY <1>13 DEF MarkDeleted
<1>14. ASSUME NEW f \in Files, Unlink(f) PROVE ArrivedStays
  BY <1>14 DEF Unlink
<1>15. ASSUME NEW f \in Files, FailUnlink(f) PROVE ArrivedStays
  BY <1>15 DEF FailUnlink, Accident
<1>16. ASSUME NEW f \in Files, MarkBlobRemoved(f) PROVE ArrivedStays
  BY <1>16 DEF MarkBlobRemoved
<1>17. ASSUME NEW f \in Files, CleanAtStart(f) PROVE ArrivedStays
  BY <1>17 DEF CleanAtStart
<1>18. ASSUME NEW t \in Creating, NEW files \in SUBSET Files, PrepareFiles(t, files)
      PROVE  ArrivedStays
  BY <1>18 DEF PrepareFiles
<1>19. ASSUME NEW t \in Creating, CommitTicket(t) PROVE ArrivedStays
  BY <1>19, NewRows DEF CommitTicket, MayMove
<1>20. ASSUME NEW t \in Creating, AbandonTicket(t) PROVE ArrivedStays
  BY <1>20 DEF AbandonTicket
<1>22. ASSUME NEW f \in Files, FailWrite(f) PROVE ArrivedStays
  BY <1>22 DEF FailWrite, Accident, Written, Location
<1>23. ASSUME NEW f \in Files, FailUndo(f) PROVE ArrivedStays
  BY <1>23 DEF FailUndo, Accident
<1>24. ASSUME NEW t \in Creating, NEW files \in SUBSET Files, StrandFiles(t, files)
      PROVE  ArrivedStays
  BY <1>24 DEF StrandFiles, Accident, MayMove
<1>21. CASE Crash
  BY <1>21 DEF Crash, Accident
<1> QED
  BY <1>1, <1>2, <1>3, <1>4, <1>5, <1>6, <1>7, <1>8, <1>9, <1>10, <1>11, <1>12, <1>13,
     <1>14, <1>15, <1>16, <1>17, <1>18, <1>19, <1>20, <1>21, <1>22, <1>23, <1>24
     DEF AttachmentsNext

(* Rows are of files that have arrived.                                    *)
LEMMA RowsStayArrived ==
  ASSUME TypesInv, RowsArrived, SubmissionsWait, [AttachmentsNext]_attachmentVars
  PROVE  RowsArrived'
<1> USE AttachmentsAssumption, AbsentAssumption
        DEF TypesInv, AttachmentsTypeOK, Attachment, Upload, HasRow, Uploading, Arrived,
            ToTicket, RowsArrived, SubmissionsWait, Valid, TicketExists
<1>1. CASE UNCHANGED attachmentVars
  BY <1>1
<1>2. ASSUME NEW f \in Files, NEW t \in Tickets \cup {Absent}, NEW status \in ScanStatus,
             ReceiveUpload(f, t, status)
      PROVE  RowsArrived'
  BY <1>2 DEF ReceiveUpload
<1>3. ASSUME NEW f \in Files, ExpireUpload(f) PROVE RowsArrived'
  BY <1>3 DEF ExpireUpload
<1>4. ASSUME NEW f \in Files, NEW kept \in SUBSET Expired, SweepFiles(f, kept)
      PROVE  RowsArrived'
  BY <1>4 DEF SweepFiles, Expired, Accident
<1>5. ASSUME NEW f \in Files, SweepRows(f) PROVE RowsArrived'
  BY <1>5 DEF SweepRows
<1>6. ASSUME NEW f \in Files, CountUsage(f) PROVE RowsArrived'
  BY <1>6 DEF CountUsage, Proceed
<1>7. ASSUME NEW f \in Files, RefuseUpload(f) PROVE RowsArrived'
  BY <1>7 DEF RefuseUpload
<1>8. ASSUME NEW f \in Files, WriteFile(f) PROVE RowsArrived'
  BY <1>8 DEF WriteFile, Written, Location, Proceed
<1>9. ASSUME NEW f \in Files, CommitUpload(f) PROVE RowsArrived'
  <2>1. CASE ToTicket(f)
    <3>1. attachment' = [attachment EXCEPT ![f] = NewRow(upload[f].ticketId)] /\ UNCHANGED temporary
      BY <1>9, <2>1 DEF CommitUpload, InsertRow
    <3>2. /\ NewRow(upload[f].ticketId) \in [ticketId : Tickets, deletedAt : BOOLEAN, blobRemovedAt : BOOLEAN]
          /\ NewRow(upload[f].ticketId) # Absent
      BY <1>9, <2>1, NewRows DEF CommitUpload, Uploading, ToTicket
    <3> QED
      BY <1>9, <2>1, <3>1, <3>2 DEF CommitUpload, ToTicket, Uploading
  <2>2. CASE ~ToTicket(f)
    <3>1. temporary' = [temporary EXCEPT ![f] = "valid"] /\ UNCHANGED attachment
      BY <1>9, <2>2 DEF CommitUpload, InsertRow
    <3> QED
      BY <1>9, <2>2, <3>1 DEF CommitUpload, ToTicket, Uploading
  <2> QED
    BY <2>1, <2>2
<1>10. ASSUME NEW f \in Files, FailUpload(f) PROVE RowsArrived'
  BY <1>10 DEF FailUpload, Proceed
<1>11. ASSUME NEW f \in Files, LoseCommit(f) PROVE RowsArrived'
  <2>1. CASE ToTicket(f)
    <3>1. attachment' = [attachment EXCEPT ![f] = NewRow(upload[f].ticketId)] /\ UNCHANGED temporary
      BY <1>11, <2>1 DEF LoseCommit, InsertRow
    <3>2. /\ NewRow(upload[f].ticketId) \in [ticketId : Tickets, deletedAt : BOOLEAN, blobRemovedAt : BOOLEAN]
          /\ NewRow(upload[f].ticketId) # Absent
      BY <1>11, <2>1, NewRows DEF LoseCommit, Uploading, ToTicket
    <3> QED
      BY <1>11, <2>1, <3>1, <3>2 DEF LoseCommit, ToTicket, Uploading, Proceed, Accident
  <2>2. CASE ~ToTicket(f)
    <3>1. temporary' = [temporary EXCEPT ![f] = "valid"] /\ UNCHANGED attachment
      BY <1>11, <2>2 DEF LoseCommit, InsertRow
    <3> QED
      BY <1>11, <2>2, <3>1 DEF LoseCommit, ToTicket, Uploading, Proceed, Accident
  <2> QED
    BY <2>1, <2>2
<1>12. ASSUME NEW f \in Files, UndoWrite(f) PROVE RowsArrived'
  BY <1>12 DEF UndoWrite, FileUnlinked, Location
<1>13. ASSUME NEW f \in Files, MarkDeleted(f) PROVE RowsArrived'
  BY <1>13 DEF MarkDeleted
<1>14. ASSUME NEW f \in Files, Unlink(f) PROVE RowsArrived'
  BY <1>14 DEF Unlink
<1>15. ASSUME NEW f \in Files, FailUnlink(f) PROVE RowsArrived'
  BY <1>15 DEF FailUnlink, Accident
<1>16. ASSUME NEW f \in Files, MarkBlobRemoved(f) PROVE RowsArrived'
  BY <1>16 DEF MarkBlobRemoved
<1>17. ASSUME NEW f \in Files, CleanAtStart(f) PROVE RowsArrived'
  BY <1>17 DEF CleanAtStart
<1>18. ASSUME NEW t \in Creating, NEW files \in SUBSET Files, PrepareFiles(t, files)
      PROVE  RowsArrived'
  BY <1>18 DEF PrepareFiles
<1>19. ASSUME NEW t \in Creating, CommitTicket(t) PROVE RowsArrived'
  BY <1>19, NewRows DEF CommitTicket, MayMove
<1>20. ASSUME NEW t \in Creating, AbandonTicket(t) PROVE RowsArrived'
  BY <1>20 DEF AbandonTicket
<1>22. ASSUME NEW f \in Files, FailWrite(f) PROVE RowsArrived'
  BY <1>22 DEF FailWrite, Accident, Written, Location
<1>23. ASSUME NEW f \in Files, FailUndo(f) PROVE RowsArrived'
  BY <1>23 DEF FailUndo, Accident
<1>24. ASSUME NEW t \in Creating, NEW files \in SUBSET Files, StrandFiles(t, files)
      PROVE  RowsArrived'
  BY <1>24 DEF StrandFiles, Accident, MayMove
<1>21. CASE Crash
  BY <1>21 DEF Crash, Accident
<1> QED
  BY <1>1, <1>2, <1>3, <1>4, <1>5, <1>6, <1>7, <1>8, <1>9, <1>10, <1>11, <1>12, <1>13,
     <1>14, <1>15, <1>16, <1>17, <1>18, <1>19, <1>20, <1>21, <1>22, <1>23, <1>24
     DEF AttachmentsNext

(* A row stays, and stays with its ticket.                                 *)
RowsStayPut ==
  \A g \in Files : HasRow(g) => HasRow(g)' /\ attachment'[g].ticketId = attachment[g].ticketId

LEMMA RowsStay ==
  ASSUME TypesInv, RowsArrived, [AttachmentsNext]_attachmentVars
  PROVE  RowsStayPut
<1> USE AttachmentsAssumption, AbsentAssumption
        DEF TypesInv, AttachmentsTypeOK, Attachment, Upload, HasRow, Uploading, Arrived,
            ToTicket, RowsArrived, RowsStayPut
<1>1. CASE UNCHANGED attachmentVars
  BY <1>1
<1>2. ASSUME NEW f \in Files, NEW t \in Tickets \cup {Absent}, NEW status \in ScanStatus,
             ReceiveUpload(f, t, status)
      PROVE  RowsStayPut
  BY <1>2 DEF ReceiveUpload
<1>3. ASSUME NEW f \in Files, ExpireUpload(f) PROVE RowsStayPut
  BY <1>3 DEF ExpireUpload
<1>4. ASSUME NEW f \in Files, NEW kept \in SUBSET Expired, SweepFiles(f, kept)
      PROVE  RowsStayPut
  BY <1>4 DEF SweepFiles, Expired, Accident
<1>5. ASSUME NEW f \in Files, SweepRows(f) PROVE RowsStayPut
  BY <1>5 DEF SweepRows
<1>6. ASSUME NEW f \in Files, CountUsage(f) PROVE RowsStayPut
  BY <1>6 DEF CountUsage, Proceed
<1>7. ASSUME NEW f \in Files, RefuseUpload(f) PROVE RowsStayPut
  BY <1>7 DEF RefuseUpload
<1>8. ASSUME NEW f \in Files, WriteFile(f) PROVE RowsStayPut
  BY <1>8 DEF WriteFile, Written, Location, Proceed
<1>9. ASSUME NEW f \in Files, CommitUpload(f) PROVE RowsStayPut
  BY <1>9 DEF CommitUpload, InsertRow, NewRow
<1>10. ASSUME NEW f \in Files, FailUpload(f) PROVE RowsStayPut
  BY <1>10 DEF FailUpload, Proceed
<1>11. ASSUME NEW f \in Files, LoseCommit(f) PROVE RowsStayPut
  BY <1>11 DEF LoseCommit, InsertRow, NewRow, Proceed, Accident
<1>12. ASSUME NEW f \in Files, UndoWrite(f) PROVE RowsStayPut
  BY <1>12 DEF UndoWrite, FileUnlinked, Location
<1>13. ASSUME NEW f \in Files, MarkDeleted(f) PROVE RowsStayPut
  <2>1. attachment[f] \in Attachment /\ attachment[f] # Absent
    BY <1>13 DEF MarkDeleted
  <2> DEFINE row == [attachment[f] EXCEPT !.deletedAt = TRUE]
  <2>2. row \in Attachment /\ row.ticketId = attachment[f].ticketId
    BY <2>1
  <2>3. row # Absent
    <3> HIDE DEF row
    <3> QED BY ZenonT(40), <2>2, AbsentAssumption
  <2>4. attachment' = [attachment EXCEPT ![f] = row]
    BY <1>13 DEF MarkDeleted
  <2> HIDE DEF row
  <2> QED
    BY <2>1, <2>2, <2>3, <2>4
<1>14. ASSUME NEW f \in Files, Unlink(f) PROVE RowsStayPut
  BY <1>14 DEF Unlink
<1>15. ASSUME NEW f \in Files, FailUnlink(f) PROVE RowsStayPut
  BY <1>15 DEF FailUnlink, Accident
<1>16. ASSUME NEW f \in Files, MarkBlobRemoved(f) PROVE RowsStayPut
  <2>1. attachment[f] \in Attachment /\ attachment[f] # Absent
    BY <1>16 DEF MarkBlobRemoved
  <2> DEFINE row == [attachment[f] EXCEPT !.blobRemovedAt = TRUE]
  <2>2. row \in Attachment /\ row.ticketId = attachment[f].ticketId
    BY <2>1
  <2>3. row # Absent
    <3> HIDE DEF row
    <3> QED BY ZenonT(40), <2>2, AbsentAssumption
  <2>4. attachment' = [attachment EXCEPT ![f] = row]
    BY <1>16 DEF MarkBlobRemoved
  <2> HIDE DEF row
  <2> QED
    BY <2>1, <2>2, <2>3, <2>4
<1>17. ASSUME NEW f \in Files, CleanAtStart(f) PROVE RowsStayPut
  BY <1>17 DEF CleanAtStart
<1>18. ASSUME NEW t \in Creating, NEW files \in SUBSET Files, PrepareFiles(t, files)
      PROVE  RowsStayPut
  BY <1>18 DEF PrepareFiles
<1>19. ASSUME NEW t \in Creating, CommitTicket(t) PROVE RowsStayPut
  BY <1>19, NewRows DEF CommitTicket, MayMove
<1>20. ASSUME NEW t \in Creating, AbandonTicket(t) PROVE RowsStayPut
  BY <1>20 DEF AbandonTicket
<1>22. ASSUME NEW f \in Files, FailWrite(f) PROVE RowsStayPut
  BY <1>22 DEF FailWrite, Accident, Written, Location
<1>23. ASSUME NEW f \in Files, FailUndo(f) PROVE RowsStayPut
  BY <1>23 DEF FailUndo, Accident
<1>24. ASSUME NEW t \in Creating, NEW files \in SUBSET Files, StrandFiles(t, files)
      PROVE  RowsStayPut
  BY <1>24 DEF StrandFiles, Accident, MayMove
<1>21. CASE Crash
  BY <1>21 DEF Crash, Accident
<1> QED
  BY <1>1, <1>2, <1>3, <1>4, <1>5, <1>6, <1>7, <1>8, <1>9, <1>10, <1>11, <1>12, <1>13,
     <1>14, <1>15, <1>16, <1>17, <1>18, <1>19, <1>20, <1>21, <1>22, <1>23, <1>24
     DEF AttachmentsNext

(* An upload stays with its ticket; a new one finds its ticket.            *)
UploadsKeepTheirTicket ==
  \A g \in Files : upload'[g] # Absent =>
    \/ upload[g] # Absent /\ upload'[g].ticketId = upload[g].ticketId
    \/ upload'[g].ticketId \in Creating => TicketExists(upload'[g].ticketId)

LEMMA UploadsStayWithTheirTicket ==
  ASSUME TypesInv, [AttachmentsNext]_attachmentVars
  PROVE  UploadsKeepTheirTicket
<1> USE AttachmentsAssumption, AbsentAssumption
        DEF TypesInv, AttachmentsTypeOK, Attachment, Upload, HasRow, Uploading,
            UploadsKeepTheirTicket
<1>1. CASE UNCHANGED attachmentVars
  BY <1>1
<1>2. ASSUME NEW f \in Files, NEW t \in Tickets \cup {Absent}, NEW status \in ScanStatus,
             ReceiveUpload(f, t, status)
      PROVE  UploadsKeepTheirTicket
  BY <1>2 DEF ReceiveUpload
<1>3. ASSUME NEW f \in Files, ExpireUpload(f) PROVE UploadsKeepTheirTicket
  BY <1>3 DEF ExpireUpload
<1>4. ASSUME NEW f \in Files, NEW kept \in SUBSET Expired, SweepFiles(f, kept)
      PROVE  UploadsKeepTheirTicket
  BY <1>4 DEF SweepFiles, Expired, Accident
<1>5. ASSUME NEW f \in Files, SweepRows(f) PROVE UploadsKeepTheirTicket
  BY <1>5 DEF SweepRows
<1>6. ASSUME NEW f \in Files, CountUsage(f) PROVE UploadsKeepTheirTicket
  BY <1>6 DEF CountUsage, Proceed
<1>7. ASSUME NEW f \in Files, RefuseUpload(f) PROVE UploadsKeepTheirTicket
  BY <1>7 DEF RefuseUpload
<1>8. ASSUME NEW f \in Files, WriteFile(f) PROVE UploadsKeepTheirTicket
  BY <1>8 DEF WriteFile, Written, Location, Proceed
<1>9. ASSUME NEW f \in Files, CommitUpload(f) PROVE UploadsKeepTheirTicket
  BY <1>9 DEF CommitUpload, InsertRow, NewRow
<1>10. ASSUME NEW f \in Files, FailUpload(f) PROVE UploadsKeepTheirTicket
  BY <1>10 DEF FailUpload, Proceed
<1>11. ASSUME NEW f \in Files, LoseCommit(f) PROVE UploadsKeepTheirTicket
  BY <1>11 DEF LoseCommit, InsertRow, NewRow, Proceed, Accident
<1>12. ASSUME NEW f \in Files, UndoWrite(f) PROVE UploadsKeepTheirTicket
  BY <1>12 DEF UndoWrite, FileUnlinked, Location
<1>13. ASSUME NEW f \in Files, MarkDeleted(f) PROVE UploadsKeepTheirTicket
  BY <1>13 DEF MarkDeleted
<1>14. ASSUME NEW f \in Files, Unlink(f) PROVE UploadsKeepTheirTicket
  BY <1>14 DEF Unlink
<1>15. ASSUME NEW f \in Files, FailUnlink(f) PROVE UploadsKeepTheirTicket
  BY <1>15 DEF FailUnlink, Accident
<1>16. ASSUME NEW f \in Files, MarkBlobRemoved(f) PROVE UploadsKeepTheirTicket
  BY <1>16 DEF MarkBlobRemoved
<1>17. ASSUME NEW f \in Files, CleanAtStart(f) PROVE UploadsKeepTheirTicket
  BY <1>17 DEF CleanAtStart
<1>18. ASSUME NEW t \in Creating, NEW files \in SUBSET Files, PrepareFiles(t, files)
      PROVE  UploadsKeepTheirTicket
  BY <1>18 DEF PrepareFiles
<1>19. ASSUME NEW t \in Creating, CommitTicket(t) PROVE UploadsKeepTheirTicket
  BY <1>19, NewRows DEF CommitTicket, MayMove
<1>20. ASSUME NEW t \in Creating, AbandonTicket(t) PROVE UploadsKeepTheirTicket
  BY <1>20 DEF AbandonTicket
<1>22. ASSUME NEW f \in Files, FailWrite(f) PROVE UploadsKeepTheirTicket
  BY <1>22 DEF FailWrite, Accident, Written, Location
<1>23. ASSUME NEW f \in Files, FailUndo(f) PROVE UploadsKeepTheirTicket
  BY <1>23 DEF FailUndo, Accident
<1>24. ASSUME NEW t \in Creating, NEW files \in SUBSET Files, StrandFiles(t, files)
      PROVE  UploadsKeepTheirTicket
  BY <1>24 DEF StrandFiles, Accident, MayMove
<1>21. CASE Crash
  BY <1>21 DEF Crash, Accident
<1> QED
  BY <1>1, <1>2, <1>3, <1>4, <1>5, <1>6, <1>7, <1>8, <1>9, <1>10, <1>11, <1>12, <1>13,
     <1>14, <1>15, <1>16, <1>17, <1>18, <1>19, <1>20, <1>21, <1>22, <1>23, <1>24
     DEF AttachmentsNext

(* A new row is of an upload or of a submission that ends.                 *)
RowsAreBrought ==
  \A g \in Files : attachment'[g] # Absent =>
    \/ attachment[g] # Absent /\ attachment'[g].ticketId = attachment[g].ticketId
    \/ upload[g] # Absent /\ attachment'[g].ticketId = upload[g].ticketId
    \/ attachment'[g].ticketId \in Creating /\ submission'[attachment'[g].ticketId] = Absent

LEMMA RowsComeFromUploads ==
  ASSUME TypesInv, [AttachmentsNext]_attachmentVars
  PROVE  RowsAreBrought
<1> USE AttachmentsAssumption, AbsentAssumption
        DEF TypesInv, AttachmentsTypeOK, Attachment, Upload, HasRow, Uploading, ToTicket,
            RowsAreBrought
<1>1. CASE UNCHANGED attachmentVars
  BY <1>1
<1>2. ASSUME NEW f \in Files, NEW t \in Tickets \cup {Absent}, NEW status \in ScanStatus,
             ReceiveUpload(f, t, status)
      PROVE  RowsAreBrought
  BY <1>2 DEF ReceiveUpload
<1>3. ASSUME NEW f \in Files, ExpireUpload(f) PROVE RowsAreBrought
  BY <1>3 DEF ExpireUpload
<1>4. ASSUME NEW f \in Files, NEW kept \in SUBSET Expired, SweepFiles(f, kept)
      PROVE  RowsAreBrought
  BY <1>4 DEF SweepFiles, Expired, Accident
<1>5. ASSUME NEW f \in Files, SweepRows(f) PROVE RowsAreBrought
  BY <1>5 DEF SweepRows
<1>6. ASSUME NEW f \in Files, CountUsage(f) PROVE RowsAreBrought
  BY <1>6 DEF CountUsage, Proceed
<1>7. ASSUME NEW f \in Files, RefuseUpload(f) PROVE RowsAreBrought
  BY <1>7 DEF RefuseUpload
<1>8. ASSUME NEW f \in Files, WriteFile(f) PROVE RowsAreBrought
  BY <1>8 DEF WriteFile, Written, Location, Proceed
<1>9. ASSUME NEW f \in Files, CommitUpload(f) PROVE RowsAreBrought
  BY <1>9 DEF CommitUpload, InsertRow, NewRow
<1>10. ASSUME NEW f \in Files, FailUpload(f) PROVE RowsAreBrought
  BY <1>10 DEF FailUpload, Proceed
<1>11. ASSUME NEW f \in Files, LoseCommit(f) PROVE RowsAreBrought
  BY <1>11 DEF LoseCommit, InsertRow, NewRow, Proceed, Accident
<1>12. ASSUME NEW f \in Files, UndoWrite(f) PROVE RowsAreBrought
  BY <1>12 DEF UndoWrite, FileUnlinked, Location
<1>13. ASSUME NEW f \in Files, MarkDeleted(f) PROVE RowsAreBrought
  BY <1>13 DEF MarkDeleted
<1>14. ASSUME NEW f \in Files, Unlink(f) PROVE RowsAreBrought
  BY <1>14 DEF Unlink
<1>15. ASSUME NEW f \in Files, FailUnlink(f) PROVE RowsAreBrought
  BY <1>15 DEF FailUnlink, Accident
<1>16. ASSUME NEW f \in Files, MarkBlobRemoved(f) PROVE RowsAreBrought
  BY <1>16 DEF MarkBlobRemoved
<1>17. ASSUME NEW f \in Files, CleanAtStart(f) PROVE RowsAreBrought
  BY <1>17 DEF CleanAtStart
<1>18. ASSUME NEW t \in Creating, NEW files \in SUBSET Files, PrepareFiles(t, files)
      PROVE  RowsAreBrought
  BY <1>18 DEF PrepareFiles
<1>19. ASSUME NEW t \in Creating, CommitTicket(t) PROVE RowsAreBrought
  BY <1>19, NewRows DEF CommitTicket, MayMove
<1>20. ASSUME NEW t \in Creating, AbandonTicket(t) PROVE RowsAreBrought
  BY <1>20 DEF AbandonTicket
<1>22. ASSUME NEW f \in Files, FailWrite(f) PROVE RowsAreBrought
  BY <1>22 DEF FailWrite, Accident, Written, Location
<1>23. ASSUME NEW f \in Files, FailUndo(f) PROVE RowsAreBrought
  BY <1>23 DEF FailUndo, Accident
<1>24. ASSUME NEW t \in Creating, NEW files \in SUBSET Files, StrandFiles(t, files)
      PROVE  RowsAreBrought
  BY <1>24 DEF StrandFiles, Accident, MayMove
<1>21. CASE Crash
  BY <1>21 DEF Crash, Accident
<1> QED
  BY <1>1, <1>2, <1>3, <1>4, <1>5, <1>6, <1>7, <1>8, <1>9, <1>10, <1>11, <1>12, <1>13,
     <1>14, <1>15, <1>16, <1>17, <1>18, <1>19, <1>20, <1>21, <1>22, <1>23, <1>24
     DEF AttachmentsNext

(* A submission stays as it is, or is new and within the limits.           *)
SubmissionsAreFresh ==
  \A u \in Creating : submission'[u] # Absent =>
    \/ submission'[u] = submission[u]
    \/ /\ ~TicketExists(u) /\ submission'[u] \subseteq Valid
       /\ UNCHANGED <<attachment, upload>>
       /\ Cardinality(submission'[u]) <= MaxFilesPerTicket
       /\ Bytes(submission'[u]) <= MaxBytesPerTicket

LEMMA SubmissionsAreNew ==
  ASSUME TypesInv, [AttachmentsNext]_attachmentVars
  PROVE  SubmissionsAreFresh
<1> USE AttachmentsAssumption, AbsentAssumption
        DEF TypesInv, AttachmentsTypeOK, Attachment, Upload, HasRow, Uploading,
            SubmissionsAreFresh
<1>1. CASE UNCHANGED attachmentVars
  BY <1>1
<1>2. ASSUME NEW f \in Files, NEW t \in Tickets \cup {Absent}, NEW status \in ScanStatus,
             ReceiveUpload(f, t, status)
      PROVE  SubmissionsAreFresh
  BY <1>2 DEF ReceiveUpload
<1>3. ASSUME NEW f \in Files, ExpireUpload(f) PROVE SubmissionsAreFresh
  BY <1>3 DEF ExpireUpload
<1>4. ASSUME NEW f \in Files, NEW kept \in SUBSET Expired, SweepFiles(f, kept)
      PROVE  SubmissionsAreFresh
  BY <1>4 DEF SweepFiles, Expired, Accident
<1>5. ASSUME NEW f \in Files, SweepRows(f) PROVE SubmissionsAreFresh
  BY <1>5 DEF SweepRows
<1>6. ASSUME NEW f \in Files, CountUsage(f) PROVE SubmissionsAreFresh
  BY <1>6 DEF CountUsage, Proceed
<1>7. ASSUME NEW f \in Files, RefuseUpload(f) PROVE SubmissionsAreFresh
  BY <1>7 DEF RefuseUpload
<1>8. ASSUME NEW f \in Files, WriteFile(f) PROVE SubmissionsAreFresh
  BY <1>8 DEF WriteFile, Written, Location, Proceed
<1>9. ASSUME NEW f \in Files, CommitUpload(f) PROVE SubmissionsAreFresh
  BY <1>9 DEF CommitUpload, InsertRow, NewRow
<1>10. ASSUME NEW f \in Files, FailUpload(f) PROVE SubmissionsAreFresh
  BY <1>10 DEF FailUpload, Proceed
<1>11. ASSUME NEW f \in Files, LoseCommit(f) PROVE SubmissionsAreFresh
  BY <1>11 DEF LoseCommit, InsertRow, NewRow, Proceed, Accident
<1>12. ASSUME NEW f \in Files, UndoWrite(f) PROVE SubmissionsAreFresh
  BY <1>12 DEF UndoWrite, FileUnlinked, Location
<1>13. ASSUME NEW f \in Files, MarkDeleted(f) PROVE SubmissionsAreFresh
  BY <1>13 DEF MarkDeleted
<1>14. ASSUME NEW f \in Files, Unlink(f) PROVE SubmissionsAreFresh
  BY <1>14 DEF Unlink
<1>15. ASSUME NEW f \in Files, FailUnlink(f) PROVE SubmissionsAreFresh
  BY <1>15 DEF FailUnlink, Accident
<1>16. ASSUME NEW f \in Files, MarkBlobRemoved(f) PROVE SubmissionsAreFresh
  BY <1>16 DEF MarkBlobRemoved
<1>17. ASSUME NEW f \in Files, CleanAtStart(f) PROVE SubmissionsAreFresh
  BY <1>17 DEF CleanAtStart
<1>18. ASSUME NEW t \in Creating, NEW files \in SUBSET Files, PrepareFiles(t, files)
      PROVE  SubmissionsAreFresh
  BY <1>18 DEF PrepareFiles
<1>19. ASSUME NEW t \in Creating, CommitTicket(t) PROVE SubmissionsAreFresh
  BY <1>19, NewRows DEF CommitTicket, MayMove
<1>20. ASSUME NEW t \in Creating, AbandonTicket(t) PROVE SubmissionsAreFresh
  BY <1>20 DEF AbandonTicket
<1>22. ASSUME NEW f \in Files, FailWrite(f) PROVE SubmissionsAreFresh
  BY <1>22 DEF FailWrite, Accident, Written, Location
<1>23. ASSUME NEW f \in Files, FailUndo(f) PROVE SubmissionsAreFresh
  BY <1>23 DEF FailUndo, Accident
<1>24. ASSUME NEW t \in Creating, NEW files \in SUBSET Files, StrandFiles(t, files)
      PROVE  SubmissionsAreFresh
  BY <1>24 DEF StrandFiles, Accident, MayMove
<1>21. CASE Crash
  BY <1>21 DEF Crash, Accident
<1> QED
  BY <1>1, <1>2, <1>3, <1>4, <1>5, <1>6, <1>7, <1>8, <1>9, <1>10, <1>11, <1>12, <1>13,
     <1>14, <1>15, <1>16, <1>17, <1>18, <1>19, <1>20, <1>21, <1>22, <1>23, <1>24
     DEF AttachmentsNext

LEMMA TicketsStandStep ==
  ASSUME TypesInv, RowsArrived, TicketsStand, [AttachmentsNext]_attachmentVars
  PROVE  TicketsStand'
<1>1. ASSUME NEW t \in Creating, TicketExists(t)
      PROVE  \E f \in Files : attachment'[f] # Absent /\ attachment'[f].ticketId = t
  BY <1>1, RowsStay DEF RowsStayPut, TicketExists, HasRow
<1>2. ASSUME NEW g \in Files, upload'[g] # Absent, upload'[g].ticketId \in Creating
      PROVE  TicketExists(upload'[g].ticketId)
  BY <1>2, UploadsStayWithTheirTicket DEF UploadsKeepTheirTicket, TicketsStand
<1> QED
  BY <1>1, <1>2 DEF TicketsStand, TicketExists, HasRow

LEMMA SubmissionsWaitStep ==
  ASSUME TypesInv, ArrivedInv, [AttachmentsNext]_attachmentVars
  PROVE  SubmissionsWait'
<1> SUFFICES ASSUME NEW t \in Creating, submission'[t] # Absent
             PROVE  /\ \A f \in submission'[t] : Arrived(f)'
                    /\ Unused(t)'
                    /\ Cardinality(submission'[t]) <= MaxFilesPerTicket
                    /\ Bytes(submission'[t]) <= MaxBytesPerTicket
  BY DEF SubmissionsWait, Bytes
<1>1. CASE submission'[t] = submission[t]
  <2>1. /\ \A f \in submission[t] : f \in Files /\ Arrived(f)
        /\ Unused(t)
        /\ Cardinality(submission[t]) <= MaxFilesPerTicket
        /\ Bytes(submission[t]) <= MaxBytesPerTicket
    BY <1>1 DEF ArrivedInv, SubmissionsWait, TypesInv, AttachmentsTypeOK
  <2>2. \A f \in submission'[t] : Arrived(f)'
    BY <1>1, <2>1, FilesStayArrived DEF ArrivedStays
  <2>3. ~TicketExists(t)
    BY <2>1 DEF Unused, TicketExists
  <2>4. \A g \in Files : attachment'[g] # Absent => attachment'[g].ticketId # t
    BY <2>1, RowsComeFromUploads DEF RowsAreBrought, Unused, HasRow
  <2>5. \A g \in Files : upload'[g] # Absent => upload'[g].ticketId # t
    BY <2>1, <2>3, UploadsStayWithTheirTicket DEF UploadsKeepTheirTicket, Unused
  <2> QED
    BY <1>1, <2>1, <2>2, <2>4, <2>5 DEF Unused, HasRow
<1>2. CASE submission'[t] # submission[t]
  <2>1. /\ ~TicketExists(t) /\ submission'[t] \subseteq Valid
        /\ UNCHANGED <<attachment, upload>>
        /\ Cardinality(submission'[t]) <= MaxFilesPerTicket
        /\ Bytes(submission'[t]) <= MaxBytesPerTicket
    BY <1>2, SubmissionsAreNew DEF SubmissionsAreFresh
  <2>2. \A f \in submission'[t] : f \in Files /\ Arrived(f)
    BY <2>1, AbsentAssumption DEF ArrivedInv, RowsArrived, Valid
  <2>3. \A f \in submission'[t] : Arrived(f)'
    BY <2>2, FilesStayArrived DEF ArrivedStays
  <2>4. Unused(t)
    BY <2>1 DEF ArrivedInv, TicketsStand, TicketExists, Unused
  <2> QED
    BY <2>1, <2>3, <2>4 DEF Unused, HasRow
<1> QED
  BY <1>1, <1>2

-----------------------------------------------------------------------------
(* Room.                                                                   *)

(* What fits beside files fits beside fewer of them.                       *)
LEMMA FitsBesideFewer ==
  ASSUME NEW more \in SUBSET Files, NEW files \in SUBSET more, NEW f \in Files,
         NEW maxFiles \in Nat, NEW maxBytes \in Nat, Fits(more, f, maxFiles, maxBytes)
  PROVE  Fits(files, f, maxFiles, maxBytes)
<1>1. Size[f] \in Nat
  BY AttachmentsAssumption
<1>2. /\ Bytes(files) \in Nat /\ Bytes(more) \in Nat /\ Bytes(files) <= Bytes(more)
      /\ Cardinality(files) \in Nat /\ Cardinality(more) \in Nat
      /\ Cardinality(files) <= Cardinality(more)
  BY FewerBytes
<1> QED
  BY <1>1, <1>2 DEF Fits

LEMMA Limits ==
  /\ MaxFilesPerTicket \in Nat /\ MaxBytesPerTicket \in Nat /\ GlobalMaxBytes \in Nat
  /\ MaxFilesPerUser \in Nat /\ MaxBytesPerUser \in Nat
BY AttachmentsAssumption

(* The room that was counted is still there, if the sets it was counted    *)
(* over did not grow for those who hold their lock.                        *)
LEMMA RoomIsKept ==
  ASSUME TypesInv, RoomInv,
         \A f \in Files : HoldsBytes(f)' => HoldsBytes(f) /\ upload'[f].ticketId = upload[f].ticketId,
         (\E f \in Files : HoldsBytes(f)' /\ upload'[f].ticketId # Absent) =>
           Stored' \subseteq Stored /\ \A t \in Tickets : OfTicket(t)' \subseteq OfTicket(t),
         (\E f \in Files : HoldsBytes(f)' /\ upload'[f].ticketId = Absent) => Valid' \subseteq Valid
  PROVE  RoomInv'
<1>1. \A f, g \in Files : HoldsBytes(f)' /\ HoldsBytes(g)' /\ (ToTicket(f)' <=> ToTicket(g)') => f = g
  BY DEF RoomInv, ToTicket
<1>2. ASSUME NEW f \in Files, HoldsBytes(f)' PROVE HasRoom(f)'
  <2>1. HasRoom(f) /\ upload'[f].ticketId = upload[f].ticketId
    BY <1>2 DEF RoomInv
  <2>2. upload[f].ticketId \in Tickets \cup {Absent}
    BY <1>2 DEF TypesInv, AttachmentsTypeOK, Upload, HoldsBytes, Uploading
  <2>3. CASE ToTicket(f)
    <3> PICK t \in Tickets : t = upload[f].ticketId
      BY <2>2, <2>3 DEF ToTicket
    <3>1. Stored' \in SUBSET Stored /\ OfTicket(t)' \in SUBSET OfTicket(t)
      BY <1>2, <2>1, <2>3 DEF ToTicket
    <3>2. Stored \in SUBSET Files /\ OfTicket(t) \in SUBSET Files
      BY DEF Stored, OfTicket
    <3>3. Fits(OfTicket(t), f, MaxFilesPerTicket, MaxBytesPerTicket)
      BY <2>1, <2>3 DEF HasRoom
    <3>4. Bytes(Stored) + Size[f] <= GlobalMaxBytes
      BY <2>1, <2>3 DEF HasRoom
    <3> DEFINE some == OfTicket(t)'
               rest == Stored'
    <3>5. Fits(some, f, MaxFilesPerTicket, MaxBytesPerTicket)
      <4>1. some \in SUBSET OfTicket(t)
        BY <3>1
      <4> HIDE DEF some
      <4> QED
        BY <3>2, <3>3, <4>1, Limits, FitsBesideFewer
    <3>6. Bytes(rest) + Size[f] <= GlobalMaxBytes
      <4>1. rest \in SUBSET Stored
        BY <3>1
      <4> HIDE DEF rest
      <4>2. Bytes(rest) \in Nat /\ Bytes(Stored) \in Nat /\ Bytes(rest) <= Bytes(Stored)
        BY <3>2, <4>1, FewerBytes
      <4>3. Size[f] \in Nat
        BY AttachmentsAssumption
      <4> QED
        BY <3>4, <4>2, <4>3, Limits
    <3>7. ToTicket(f)' /\ upload'[f].ticketId = t
      BY <2>1, <2>3 DEF ToTicket
    <3> QED
      BY <3>5, <3>6, <3>7 DEF HasRoom, Fits, Bytes, OfTicket
  <2>4. CASE ~ToTicket(f)
    <3>1. Valid' \in SUBSET Valid /\ Valid \in SUBSET Files
      BY <1>2, <2>1, <2>4 DEF ToTicket, Valid
    <3>2. Fits(Valid, f, MaxFilesPerUser, MaxBytesPerUser)
      BY <2>1, <2>4 DEF HasRoom
    <3> DEFINE some == Valid'
    <3>3. Fits(some, f, MaxFilesPerUser, MaxBytesPerUser)
      <4>1. some \in SUBSET Valid
        BY <3>1
      <4> HIDE DEF some
      <4> QED
        BY <3>1, <3>2, <4>1, Limits, FitsBesideFewer
    <3>4. ~ToTicket(f)'
      BY <2>1, <2>4 DEF ToTicket
    <3> QED
      BY <3>3, <3>4 DEF HasRoom, Fits, Bytes
  <2> QED
    BY <2>3, <2>4
<1> QED
  BY <1>1, <1>2 DEF RoomInv

(* Fewer files keep to the quotas.                                         *)
LEMMA FewerKeepToQuotas ==
  ASSUME QuotasHold, Stored' \subseteq Stored, Valid' \subseteq Valid,
         \A t \in Tickets : OfTicket(t)' \subseteq OfTicket(t)
  PROVE  QuotasHold'
<1>1. ASSUME NEW more \in SUBSET Files, NEW files \in SUBSET more,
             NEW limit \in Nat
      PROVE  /\ Bytes(more) <= limit => Bytes(files) <= limit
             /\ Cardinality(more) <= limit => Cardinality(files) <= limit
  BY FewerBytes
<1>2. ASSUME NEW t \in Tickets
      PROVE  Cardinality(OfTicket(t)') <= MaxFilesPerTicket /\ Bytes(OfTicket(t)') <= MaxBytesPerTicket
  <2> DEFINE some == OfTicket(t)'
  <2>1. some \in SUBSET OfTicket(t) /\ OfTicket(t) \in SUBSET Files
    BY DEF OfTicket
  <2> HIDE DEF some
  <2>2. Cardinality(some) <= MaxFilesPerTicket /\ Bytes(some) <= MaxBytesPerTicket
    BY <1>1, <2>1, Limits DEF QuotasHold
  <2> QED
    BY <2>2 DEF some
<1>3. Bytes(Stored') <= GlobalMaxBytes
  <2> DEFINE some == Stored'
  <2>1. some \in SUBSET Stored /\ Stored \in SUBSET Files
    BY DEF Stored
  <2> HIDE DEF some
  <2>2. Bytes(some) <= GlobalMaxBytes
    BY <1>1, <2>1, Limits DEF QuotasHold
  <2> QED
    BY <2>2 DEF some
<1>4. Cardinality(Valid') <= MaxFilesPerUser /\ Bytes(Valid') <= MaxBytesPerUser
  <2> DEFINE some == Valid'
  <2>1. some \in SUBSET Valid /\ Valid \in SUBSET Files
    BY DEF Valid
  <2> HIDE DEF some
  <2>2. Cardinality(some) <= MaxFilesPerUser /\ Bytes(some) <= MaxBytesPerUser
    BY <1>1, <2>1, Limits DEF QuotasHold
  <2> QED
    BY <2>2 DEF some
<1> QED
  BY <1>2, <1>3, <1>4 DEF QuotasHold, Bytes

(* Fewer files keep to a limit, and one more does where it has room.       *)
LEMMA FewerAreWithin ==
  ASSUME NEW more \in SUBSET Files, NEW files \in SUBSET more, NEW limit \in Nat
  PROVE  /\ Bytes(more) <= limit => Bytes(files) <= limit
         /\ Cardinality(more) <= limit => Cardinality(files) <= limit
BY FewerBytes

LEMMA OneMoreIsWithin ==
  ASSUME NEW files \in SUBSET Files, NEW f \in Files, NEW some \in SUBSET (files \cup {f}),
         NEW limit \in Nat
  PROVE  /\ Bytes(files) + Size[f] <= limit => Bytes(some) <= limit
         /\ Cardinality(files) < limit => Cardinality(some) <= limit
<1>1. files \cup {f} \in SUBSET Files /\ Size[f] \in Nat
  BY AttachmentsAssumption
<1> DEFINE more == files \cup {f}
<1>2. /\ Bytes(some) \in Nat /\ Bytes(more) \in Nat /\ Bytes(some) <= Bytes(more)
      /\ Cardinality(some) \in Nat /\ Cardinality(more) \in Nat
      /\ Cardinality(some) <= Cardinality(more)
  BY <1>1, FewerBytes
<1>3. Bytes(more) <= Bytes(files) + Size[f] /\ Cardinality(more) <= Cardinality(files) + 1
  BY OneMoreFile
<1>4. Bytes(files) \in Nat /\ Cardinality(files) \in Nat
  BY FewerBytes
<1> HIDE DEF more
<1> QED
  BY <1>1, <1>2, <1>3, <1>4

LEMMA TicketsAreWithin ==
  ASSUME QuotasHold, NEW t \in Tickets, OfTicket(t)' \subseteq OfTicket(t)
  PROVE  Cardinality(OfTicket(t)') <= MaxFilesPerTicket /\ Bytes(OfTicket(t)') <= MaxBytesPerTicket
<1> DEFINE some == OfTicket(t)'
<1>1. some \in SUBSET OfTicket(t) /\ OfTicket(t) \in SUBSET Files
  BY DEF OfTicket
<1>2. Cardinality(OfTicket(t)) <= MaxFilesPerTicket /\ Bytes(OfTicket(t)) <= MaxBytesPerTicket
  BY DEF QuotasHold
<1> HIDE DEF some
<1>3. Cardinality(some) <= MaxFilesPerTicket /\ Bytes(some) <= MaxBytesPerTicket
  BY Zenon, <1>1, <1>2, FewerAreWithin, Limits
<1> QED
  BY <1>3 DEF some

(* What neither adds a file nor takes a lock leaves the room and the       *)
(* quotas as they are.                                                     *)
Lessens ==
  /\ \A g \in Files : HoldsBytes(g)' => HoldsBytes(g) /\ upload'[g].ticketId = upload[g].ticketId
  /\ \A g \in Files : attachment'[g] # Absent =>
       /\ attachment[g] # Absent
       /\ attachment'[g].ticketId = attachment[g].ticketId
       /\ attachment[g].deletedAt => attachment'[g].deletedAt
       /\ attachment[g].blobRemovedAt => attachment'[g].blobRemovedAt
  /\ \A g \in Files : temporary'[g] = "valid" => temporary[g] = "valid"

LEMMA LessIsKept ==
  ASSUME TypesInv, RoomInv, QuotasHold, Lessens
  PROVE  RoomInv' /\ QuotasHold'
<1>1. \A g \in Files : HoldsBytes(g)' => HoldsBytes(g) /\ upload'[g].ticketId = upload[g].ticketId
  BY DEF Lessens
<1>2. Stored' \subseteq Stored /\ Valid' \subseteq Valid
  BY DEF Lessens, Stored, Valid, HasRow
<1>3. \A t \in Tickets : OfTicket(t)' \subseteq OfTicket(t)
  BY DEF Lessens, OfTicket, HasRow
<1>4. RoomInv'
  BY <1>1, <1>2, <1>3, RoomIsKept
<1>5. QuotasHold'
  BY <1>2, <1>3, FewerKeepToQuotas
<1> QED
  BY <1>4, <1>5

(* One more file, of the upload that holds its lock.                       *)
LEMMA OneMoreHasRoom ==
  ASSUME TypesInv, RowsArrived, RoomInv, QuotasHold, NEW f \in Files, Uploading(f, "written"),
         InsertRow(f), ~HoldsBytes(f)',
         \A g \in Files \ {f} : upload'[g] = upload[g]
  PROVE  RoomInv' /\ QuotasHold'
<1>1. \A g \in Files : HoldsBytes(g)' => HoldsBytes(g) /\ g # f /\ upload'[g] = upload[g]
  BY DEF HoldsBytes, Uploading
<1>2. \A g \in Files : HoldsBytes(g)' => ~(ToTicket(g) <=> ToTicket(f))
  BY <1>1 DEF RoomInv, HoldsBytes
<1>3. HoldsBytes(f) /\ HasRoom(f)
  BY DEF RoomInv, HoldsBytes
<1>4. f \in Files /\ attachment \in [Files -> Attachment \cup {Absent}]
      /\ temporary \in [Files -> {"valid", "expired", Absent}]
      /\ upload[f].ticketId \in Tickets \cup {Absent}
  BY DEF TypesInv, AttachmentsTypeOK, Uploading, Upload
<1>5. CASE ToTicket(f)
  <2>1. attachment' = [attachment EXCEPT ![f] = NewRow(upload[f].ticketId)] /\ UNCHANGED temporary
    BY <1>5 DEF InsertRow
  <2> PICK t \in Tickets : t = upload[f].ticketId
    BY <1>4, <1>5 DEF ToTicket
  <2>2. Stored' \subseteq Stored \cup {f} /\ Valid' = Valid
    BY <1>4, <2>1 DEF Stored, Valid, HasRow
  <2>3. \A u \in Tickets \ {t} : OfTicket(u)' \subseteq OfTicket(u)
    BY <1>4, <2>1, NewRows DEF OfTicket, HasRow
  <2>4. OfTicket(t)' \subseteq OfTicket(t) \cup {f}
    BY <1>4, <2>1 DEF OfTicket, HasRow
  <2>5. RoomInv'
    BY <1>1, <1>2, <1>5, <2>2, RoomIsKept DEF ToTicket
  <2>6. /\ Cardinality(OfTicket(t)) < MaxFilesPerTicket
        /\ Bytes(OfTicket(t)) + Size[f] <= MaxBytesPerTicket
    BY <1>3, <1>5 DEF HasRoom, Fits
  <2>7. Bytes(Stored) + Size[f] <= GlobalMaxBytes
    BY <1>3, <1>5 DEF HasRoom
  <2>8. QuotasHold'
    <3>1. \A u \in Tickets \ {t} :
            Cardinality(OfTicket(u)') <= MaxFilesPerTicket /\ Bytes(OfTicket(u)') <= MaxBytesPerTicket
      BY <2>3, TicketsAreWithin
    <3>2. Cardinality(OfTicket(t)') <= MaxFilesPerTicket /\ Bytes(OfTicket(t)') <= MaxBytesPerTicket
      <4> DEFINE some == OfTicket(t)'
      <4>1. some \in SUBSET (OfTicket(t) \cup {f}) /\ OfTicket(t) \in SUBSET Files
        BY <2>4 DEF OfTicket
      <4> HIDE DEF some
      <4>2. Cardinality(some) <= MaxFilesPerTicket /\ Bytes(some) <= MaxBytesPerTicket
        BY Zenon, <2>6, <4>1, OneMoreIsWithin, Limits
      <4> QED
        BY <4>2 DEF some
    <3>3. Bytes(Stored') <= GlobalMaxBytes
      <4> DEFINE some == Stored'
      <4>1. some \in SUBSET (Stored \cup {f}) /\ Stored \in SUBSET Files
        BY <2>2 DEF Stored
      <4> HIDE DEF some
      <4>2. Bytes(some) <= GlobalMaxBytes
        BY Zenon, <2>7, <4>1, OneMoreIsWithin, Limits
      <4> QED
        BY <4>2 DEF some
    <3> QED
      BY <2>2, <3>1, <3>2, <3>3 DEF QuotasHold, Bytes
  <2> QED
    BY <2>5, <2>8
<1>6. CASE ~ToTicket(f)
  <2>1. temporary' = [temporary EXCEPT ![f] = "valid"] /\ UNCHANGED attachment
    BY <1>6 DEF InsertRow
  <2>2. Stored' = Stored /\ Valid' \subseteq Valid \cup {f}
        /\ \A t \in Tickets : OfTicket(t)' = OfTicket(t)
    BY <1>4, <2>1 DEF Stored, Valid, OfTicket, HasRow
  <2>3. RoomInv'
    BY <1>1, <1>2, <1>6, <2>2, RoomIsKept DEF ToTicket
  <2>4. Cardinality(Valid) < MaxFilesPerUser /\ Bytes(Valid) + Size[f] <= MaxBytesPerUser
    BY <1>3, <1>6 DEF HasRoom, Fits
  <2>5. Cardinality(Valid') <= MaxFilesPerUser /\ Bytes(Valid') <= MaxBytesPerUser
    <3> DEFINE some == Valid'
    <3>1. some \in SUBSET (Valid \cup {f}) /\ Valid \in SUBSET Files
      BY <2>2 DEF Valid
    <3> HIDE DEF some
    <3>2. Cardinality(some) <= MaxFilesPerUser /\ Bytes(some) <= MaxBytesPerUser
      BY Zenon, <2>4, <3>1, OneMoreIsWithin, Limits
    <3> QED
      BY <3>2 DEF some
  <2>6. QuotasHold'
    BY <2>2, <2>5 DEF QuotasHold, Bytes
  <2> QED
    BY <2>3, <2>6
<1> QED
  BY <1>5, <1>6

(* A new ticket brings its files while nobody uploads to a ticket.         *)
LEMMA NewTicketHasRoom ==
  ASSUME TypesInv, ArrivedInv, RoomInv, QuotasHold, NEW t \in Creating, CommitTicket(t)
  PROVE  RoomInv' /\ QuotasHold'
<1>1. /\ t \in Tickets /\ submission[t] \in SUBSET Files
      /\ attachment \in [Files -> Attachment \cup {Absent}]
      /\ temporary \in [Files -> {"valid", "expired", Absent}]
  BY AttachmentsAssumption DEF TypesInv, AttachmentsTypeOK, CommitTicket
<1>2. /\ attachment' = [f \in Files |-> IF f \in submission[t] THEN NewRow(t) ELSE attachment[f]]
      /\ temporary' = [f \in Files |-> IF f \in submission[t] THEN Absent ELSE temporary[f]]
      /\ UNCHANGED upload
      /\ Bytes(Stored) + Bytes(submission[t]) <= GlobalMaxBytes
  BY DEF CommitTicket, MayMove
<1>3. \A g \in Files : HoldsBytes(g)' => HoldsBytes(g) /\ upload'[g].ticketId = upload[g].ticketId
  BY <1>2 DEF HoldsBytes, Uploading
<1>4. \A g \in Files : ~(HoldsBytes(g)' /\ upload'[g].ticketId # Absent)
  BY <1>2 DEF CommitTicket, TicketLockFree, HoldsBytes, Uploading, ToTicket
<1>5. Valid' \in SUBSET Valid /\ Stored' \in SUBSET (Stored \cup submission[t])
  BY <1>1, <1>2, AbsentAssumption DEF Valid, Stored, HasRow
<1>6. \A u \in Tickets \ {t} : OfTicket(u)' \in SUBSET OfTicket(u)
  BY <1>1, <1>2, NewRows DEF OfTicket, HasRow
<1>7. OfTicket(t)' \in SUBSET submission[t]
  BY <1>1, <1>2 DEF OfTicket, HasRow, ArrivedInv, SubmissionsWait, Unused, CommitTicket
<1>8. RoomInv'
  BY <1>3, <1>4, <1>5, RoomIsKept
<1>9. \A u \in Tickets \ {t} :
        Cardinality(OfTicket(u)') <= MaxFilesPerTicket /\ Bytes(OfTicket(u)') <= MaxBytesPerTicket
  BY <1>6, TicketsAreWithin
<1>10. Cardinality(OfTicket(t)') <= MaxFilesPerTicket /\ Bytes(OfTicket(t)') <= MaxBytesPerTicket
  <2>1. Cardinality(submission[t]) <= MaxFilesPerTicket /\ Bytes(submission[t]) <= MaxBytesPerTicket
    BY DEF ArrivedInv, SubmissionsWait, CommitTicket
  <2> DEFINE some == OfTicket(t)'
  <2>2. some \in SUBSET submission[t]
    BY <1>7
  <2> HIDE DEF some
  <2>3. Cardinality(some) <= MaxFilesPerTicket /\ Bytes(some) <= MaxBytesPerTicket
    BY Zenon, <1>1, <2>1, <2>2, FewerAreWithin, Limits
  <2> QED
    BY <2>3 DEF some
<1>11. Bytes(Stored') <= GlobalMaxBytes
  <2> DEFINE some == Stored'
             files == submission[t]
  <2>1. some \in SUBSET (Stored \cup files) /\ Stored \in SUBSET Files /\ files \in SUBSET Files
    BY <1>1, <1>5 DEF Stored
  <2>2. Bytes(Stored) + Bytes(files) <= GlobalMaxBytes
    BY <1>2
  <2> HIDE DEF some, files
  <2>3. Bytes(Stored \cup files) <= Bytes(Stored) + Bytes(files)
    BY <2>1, BothSets
  <2>4. /\ Bytes(some) \in Nat /\ Bytes(Stored \cup files) \in Nat
        /\ Bytes(some) <= Bytes(Stored \cup files)
    BY <2>1, FewerBytes
  <2>5. Bytes(Stored) \in Nat /\ Bytes(files) \in Nat
    BY <2>1, FewerBytes
  <2>6. Bytes(some) <= GlobalMaxBytes
    BY <2>2, <2>3, <2>4, <2>5, Limits
  <2> QED
    BY <2>6 DEF some
<1>12. Cardinality(Valid') <= MaxFilesPerUser /\ Bytes(Valid') <= MaxBytesPerUser
  <2> DEFINE some == Valid'
  <2>1. some \in SUBSET Valid /\ Valid \in SUBSET Files
    BY <1>5 DEF Valid
  <2>2. Cardinality(Valid) <= MaxFilesPerUser /\ Bytes(Valid) <= MaxBytesPerUser
    BY DEF QuotasHold
  <2> HIDE DEF some
  <2>3. Cardinality(some) <= MaxFilesPerUser /\ Bytes(some) <= MaxBytesPerUser
    BY Zenon, <2>1, <2>2, FewerAreWithin, Limits
  <2> QED
    BY <2>3 DEF some
<1>13. QuotasHold'
  BY <1>9, <1>10, <1>11, <1>12 DEF QuotasHold, Bytes
<1> QED
  BY <1>8, <1>13


(* Every step keeps the quotas and the room of those who hold a lock.      *)
LEMMA QuotasStep ==
  ASSUME QuotaInv, [AttachmentsNext]_attachmentVars
  PROVE  RoomInv' /\ QuotasHold'
<1> USE DEF QuotaInv
<1>a. TypesInv /\ RowsArrived /\ ArrivedInv /\ RoomInv /\ QuotasHold
  BY DEF ArrivedInv
<1>b. /\ attachment \in [Files -> Attachment \cup {Absent}]
      /\ temporary \in [Files -> {"valid", "expired", Absent}]
      /\ upload \in [Files -> Upload \cup {Absent}]
      /\ \A f \in Files : removal[f] # Absent => attachment[f] # Absent
  BY DEF TypesInv, AttachmentsTypeOK, HasRow
<1> HIDE DEF QuotaInv
<1>1. CASE UNCHANGED attachmentVars
  <2>1. Lessens
    BY <1>1 DEF Lessens, HoldsBytes, Uploading
  <2> QED
    BY <1>a, <2>1, LessIsKept
<1>2. ASSUME NEW f \in Files, NEW t \in Tickets \cup {Absent}, NEW status \in ScanStatus,
             ReceiveUpload(f, t, status)
      PROVE  RoomInv' /\ QuotasHold'
  <2>1. Lessens
    BY <1>2, <1>b DEF ReceiveUpload, Lessens, HoldsBytes, Uploading
  <2> QED
    BY <1>a, <2>1, LessIsKept
<1>3. ASSUME NEW f \in Files, ExpireUpload(f) PROVE RoomInv' /\ QuotasHold'
  <2>1. Lessens
    BY <1>3, <1>b, AbsentAssumption DEF ExpireUpload, Lessens, HoldsBytes, Uploading, Upload
  <2> QED
    BY <1>a, <2>1, LessIsKept
<1>4. ASSUME NEW f \in Files, NEW kept \in SUBSET Expired, SweepFiles(f, kept)
      PROVE  RoomInv' /\ QuotasHold'
  <2>1. Lessens
    BY <1>4, <1>b, AbsentAssumption DEF SweepFiles, Lessens, HoldsBytes, Uploading, Upload
  <2> QED
    BY <1>a, <2>1, LessIsKept
<1>5. ASSUME NEW f \in Files, SweepRows(f) PROVE RoomInv' /\ QuotasHold'
  <2>1. Lessens
    BY <1>5, <1>b, AbsentAssumption DEF SweepRows, Lessens, HoldsBytes, Uploading, Upload
  <2> QED
    BY <1>a, <2>1, LessIsKept
<1>6. ASSUME NEW f \in Files, RefuseUpload(f) PROVE RoomInv' /\ QuotasHold'
  <2>1. Lessens
    BY <1>6, <1>b, AbsentAssumption DEF RefuseUpload, Lessens, HoldsBytes, Uploading, Upload
  <2> QED
    BY <1>a, <2>1, LessIsKept
<1>7. ASSUME NEW f \in Files, WriteFile(f) PROVE RoomInv' /\ QuotasHold'
  <2>1. Lessens
    BY <1>7, <1>b, AbsentAssumption DEF WriteFile, Lessens, HoldsBytes, Uploading, Upload, Proceed
  <2> QED
    BY <1>a, <2>1, LessIsKept
<1>8. ASSUME NEW f \in Files, FailUpload(f) PROVE RoomInv' /\ QuotasHold'
  <2>1. Lessens
    BY <1>8, <1>b, AbsentAssumption DEF FailUpload, Lessens, HoldsBytes, Uploading, Upload, Proceed
  <2> QED
    BY <1>a, <2>1, LessIsKept
<1>9. ASSUME NEW f \in Files, UndoWrite(f) PROVE RoomInv' /\ QuotasHold'
  <2>1. Lessens
    BY <1>9, <1>b, AbsentAssumption
       DEF UndoWrite, Lessens, HoldsBytes, Uploading, Upload, FileUnlinked
  <2> QED
    BY <1>a, <2>1, LessIsKept
<1>10. ASSUME NEW f \in Files, MarkDeleted(f) PROVE RoomInv' /\ QuotasHold'
  <2> DEFINE row == [attachment[f] EXCEPT !.deletedAt = TRUE]
  <2>1. attachment[f] \in Attachment /\ attachment[f] # Absent
    BY <1>10, <1>b, AbsentAssumption DEF MarkDeleted, HasRow
  <2>2. /\ row.ticketId = attachment[f].ticketId
        /\ attachment[f].deletedAt => row.deletedAt
        /\ attachment[f].blobRemovedAt => row.blobRemovedAt
    BY <2>1 DEF Attachment
  <2>3. attachment' = [attachment EXCEPT ![f] = row] /\ UNCHANGED <<temporary, upload>>
    BY <1>10 DEF MarkDeleted
  <2> HIDE DEF row
  <2>4. Lessens
    BY <1>b, <2>1, <2>2, <2>3 DEF Lessens, HoldsBytes, Uploading
  <2> QED
    BY <1>a, <2>4, LessIsKept
<1>11. ASSUME NEW f \in Files, Unlink(f) PROVE RoomInv' /\ QuotasHold'
  <2>1. Lessens
    BY <1>11, <1>b, AbsentAssumption DEF Unlink, Lessens, HoldsBytes, Uploading, Upload
  <2> QED
    BY <1>a, <2>1, LessIsKept
<1>12. ASSUME NEW f \in Files, FailUnlink(f) PROVE RoomInv' /\ QuotasHold'
  <2>1. Lessens
    BY <1>12, <1>b, AbsentAssumption
       DEF FailUnlink, Lessens, HoldsBytes, Uploading, Upload, Accident
  <2> QED
    BY <1>a, <2>1, LessIsKept
<1>13. ASSUME NEW f \in Files, MarkBlobRemoved(f) PROVE RoomInv' /\ QuotasHold'
  <2> DEFINE row == [attachment[f] EXCEPT !.blobRemovedAt = TRUE]
  <2>1. attachment[f] \in Attachment /\ attachment[f] # Absent
    BY <1>13, <1>b, AbsentAssumption DEF MarkBlobRemoved, HasRow
  <2>2. /\ row.ticketId = attachment[f].ticketId
        /\ attachment[f].deletedAt => row.deletedAt
        /\ attachment[f].blobRemovedAt => row.blobRemovedAt
    BY <2>1 DEF Attachment
  <2>3. attachment' = [attachment EXCEPT ![f] = row] /\ UNCHANGED <<temporary, upload>>
    BY <1>13 DEF MarkBlobRemoved
  <2> HIDE DEF row
  <2>4. Lessens
    BY <1>b, <2>1, <2>2, <2>3 DEF Lessens, HoldsBytes, Uploading
  <2> QED
    BY <1>a, <2>4, LessIsKept
<1>14. ASSUME NEW f \in Files, CleanAtStart(f) PROVE RoomInv' /\ QuotasHold'
  <2>1. Lessens
    BY <1>14, <1>b, AbsentAssumption DEF CleanAtStart, Lessens, HoldsBytes, Uploading, Upload
  <2> QED
    BY <1>a, <2>1, LessIsKept
<1>15. ASSUME NEW t \in Creating, NEW files \in SUBSET Files, PrepareFiles(t, files) PROVE RoomInv' /\ QuotasHold'
  <2>1. Lessens
    BY <1>15 DEF PrepareFiles, Lessens, HoldsBytes, Uploading
  <2> QED
    BY <1>a, <2>1, LessIsKept
<1>16. ASSUME NEW t \in Creating, AbandonTicket(t) PROVE RoomInv' /\ QuotasHold'
  <2>1. Lessens
    BY <1>16 DEF AbandonTicket, Lessens, HoldsBytes, Uploading
  <2> QED
    BY <1>a, <2>1, LessIsKept
<1>17. CASE Crash
  <2>1. Lessens
    BY <1>17 DEF Crash, Lessens, HoldsBytes, Uploading
  <2> QED
    BY <1>a, <2>1, LessIsKept
<1>18. ASSUME NEW f \in Files, CountUsage(f) PROVE RoomInv' /\ QuotasHold'
  <2>1. /\ upload' = [upload EXCEPT ![f].stage = "locked"] /\ UNCHANGED <<attachment, temporary>>
        /\ Uploading(f, "swept") /\ HasRoom(f) /\ LockFree(f)
    BY <1>18 DEF CountUsage, Proceed
  <2>2. \A g \in Files : upload'[g] # Absent => upload[g] # Absent /\ upload'[g].ticketId = upload[g].ticketId
    BY <1>b, <2>1 DEF Uploading, Upload
  <2>3. \A g \in Files : HoldsBytes(g)' => HoldsBytes(g) \/ g = f
    BY <1>b, <2>1 DEF HoldsBytes, Uploading
  <2>4. \A g \in Files : HoldsBytes(g)' => HasRoom(g) /\ (ToTicket(g)' <=> ToTicket(g))
    BY <1>a, <2>1, <2>2, <2>3 DEF RoomInv, HoldsBytes, Uploading, ToTicket
  <2>5. \A g \in Files : HasRoom(g) /\ upload'[g].ticketId = upload[g].ticketId => HasRoom(g)'
    BY <2>1 DEF HasRoom, ToTicket, Fits, OfTicket, Stored, Valid, HasRow, Bytes
  <2>6. \A g \in Files : HoldsBytes(g)' => HasRoom(g)'
    BY <2>2, <2>4, <2>5 DEF HoldsBytes, Uploading
  <2>7. \A g, h \in Files : HoldsBytes(g)' /\ HoldsBytes(h)' /\ (ToTicket(g)' <=> ToTicket(h)') => g = h
    <3>1. \A g \in Files : HoldsBytes(g) => ToTicket(g) # ToTicket(f)
      BY Zenon, <2>1 DEF LockFree, HoldsBytes
    <3>0. \A g \in Files : HoldsBytes(g) => ~(ToTicket(g) <=> ToTicket(f))
      BY <3>1 DEF ToTicket
    <3>2. \A g, h \in Files : HoldsBytes(g) /\ HoldsBytes(h) /\ (ToTicket(g) <=> ToTicket(h)) => g = h
      BY <1>a DEF RoomInv
    <3>3. \A g \in Files : HoldsBytes(g)' => (ToTicket(g)' <=> ToTicket(g)) /\ (HoldsBytes(g) \/ g = f)
      BY <2>3, <2>4
    <3> QED
      BY <3>0, <3>2, <3>3
  <2>8. QuotasHold'
    BY <1>a, <2>1 DEF QuotasHold, OfTicket, Stored, Valid, HasRow, Bytes
  <2> QED
    BY <2>6, <2>7, <2>8 DEF RoomInv
<1>19. ASSUME NEW f \in Files, CommitUpload(f) PROVE RoomInv' /\ QuotasHold'
  <2>1. Uploading(f, "written") /\ InsertRow(f) /\ \A g \in Files \ {f} : upload'[g] = upload[g]
    BY <1>19, <1>b DEF CommitUpload, Proceed
  <2>2. ~HoldsBytes(f)'
    BY <1>19, <1>b, <2>1 DEF CommitUpload, Proceed, HoldsBytes, Uploading, Upload
  <2> QED
    BY <1>a, <2>1, <2>2, OneMoreHasRoom
<1>20. ASSUME NEW f \in Files, LoseCommit(f) PROVE RoomInv' /\ QuotasHold'
  <2>1. Uploading(f, "written") /\ InsertRow(f) /\ \A g \in Files \ {f} : upload'[g] = upload[g]
    BY <1>20, <1>b DEF LoseCommit, Proceed
  <2>2. ~HoldsBytes(f)'
    BY <1>20, <1>b, <2>1 DEF LoseCommit, Proceed, HoldsBytes, Uploading, Upload
  <2> QED
    BY <1>a, <2>1, <2>2, OneMoreHasRoom
<1>22. ASSUME NEW f \in Files, FailWrite(f) PROVE RoomInv' /\ QuotasHold'
  <2>1. Lessens
    BY <1>22, <1>b, AbsentAssumption DEF FailWrite, Lessens, HoldsBytes, Uploading, Upload
  <2> QED
    BY <1>a, <2>1, LessIsKept
<1>23. ASSUME NEW f \in Files, FailUndo(f) PROVE RoomInv' /\ QuotasHold'
  <2>1. Lessens
    BY <1>23, <1>b, AbsentAssumption DEF FailUndo, Lessens, HoldsBytes, Uploading, Upload
  <2> QED
    BY <1>a, <2>1, LessIsKept
<1>24. ASSUME NEW t \in Creating, NEW files \in SUBSET Files, StrandFiles(t, files)
       PROVE  RoomInv' /\ QuotasHold'
  <2>1. Lessens
    BY <1>24 DEF StrandFiles, Lessens, HoldsBytes, Uploading
  <2> QED
    BY <1>a, <2>1, LessIsKept
<1>21. ASSUME NEW t \in Creating, CommitTicket(t) PROVE RoomInv' /\ QuotasHold'
  BY <1>a, <1>21, NewTicketHasRoom
<1> QED
  BY <1>1, <1>2, <1>3, <1>4, <1>5, <1>6, <1>7, <1>8, <1>9, <1>10, <1>11, <1>12, <1>13,
     <1>14, <1>15, <1>16, <1>17, <1>18, <1>19, <1>20, <1>21, <1>22, <1>23, <1>24
     DEF AttachmentsNext

-----------------------------------------------------------------------------
(* Nothing is there at first.                                              *)
LEMMA QuotasInit == AttachmentsInit => QuotaInv
<1> SUFFICES ASSUME AttachmentsInit PROVE QuotaInv
  OBVIOUS
<1>1. TypesInv
  BY TypesInit
<1>2. ArrivedInv /\ RoomInv
  BY AbsentAssumption DEF AttachmentsInit, ArrivedInv, RowsArrived, TicketsStand, SubmissionsWait,
     RoomInv, HoldsBytes, Uploading, HasRow
<1>3. Stored = {} /\ Valid = {} /\ \A t \in Tickets : OfTicket(t) = {}
  BY AbsentAssumption DEF AttachmentsInit, Stored, Valid, OfTicket, HasRow
<1>4. Cardinality({}) = 0 /\ Bytes({}) = 0
  <2>1. UNION {{f} \X (1 .. Size[f]) : f \in {}} = {}
    OBVIOUS
  <2> QED
    BY Zenon, <2>1, FS_EmptySet DEF Bytes
<1>5. QuotasHold
  <2>1. 0 <= MaxFilesPerTicket /\ 0 <= MaxBytesPerTicket /\ 0 <= GlobalMaxBytes
        /\ 0 <= MaxFilesPerUser /\ 0 <= MaxBytesPerUser
    BY Limits
  <2> QED
    BY Zenon, <1>3, <1>4, <2>1 DEF QuotasHold
<1> QED
  BY <1>1, <1>2, <1>5 DEF QuotaInv

LEMMA QuotaInvStep == QuotaInv /\ [AttachmentsNext]_attachmentVars => QuotaInv'
<1> SUFFICES ASSUME QuotaInv, [AttachmentsNext]_attachmentVars PROVE QuotaInv'
  OBVIOUS
<1>1. TypesInv /\ ArrivedInv /\ RowsArrived /\ TicketsStand /\ SubmissionsWait
  BY DEF QuotaInv, ArrivedInv
<1>2. TypesInv' /\ RowsArrived' /\ TicketsStand' /\ SubmissionsWait' /\ RoomInv' /\ QuotasHold'
  BY <1>1, TypesStep, RowsStayArrived, TicketsStandStep, SubmissionsWaitStep, QuotasStep
<1> QED
  BY <1>2 DEF QuotaInv, ArrivedInv

-----------------------------------------------------------------------------
(* Rows and files.                                                         *)

(* What a request has done to a file and what it has done to the row go    *)
(* together: a removal has marked the row and, when it says so, unlinked   *)
(* the file; one that is to be undone has a row only if its COMMIT was     *)
(* carried out and the answer lost.                                        *)
RequestsInv ==
  /\ \A f \in Files :
       /\ removal[f] # Absent => HasRow(f) /\ attachment[f].deletedAt
       /\ removal[f] = "unlinked" => disk[f] = Absent
       /\ Uploading(f, "written") /\ ~ToTicket(f) => disk[f] # "private"
       /\ Uploading(f, "failed") /\ (HasRow(f) \/ temporary[f] # Absent) => f \in lostCommit
  /\ \A t \in Creating :
       submission[t] # Absent =>
         \A f \in submission[t] : Uploading(f, "failed") => f \in lostCommit

RowsHaveFiles ==
  \A f \in Files :
    /\ HasRow(f) /\ ~attachment[f].deletedAt => disk[f] = "private" \/ f \in lostCommit
    /\ HasRow(f) /\ attachment[f].blobRemovedAt => disk[f] = Absent
    /\ disk[f] = "private" =>
         \/ HasRow(f) /\ ~attachment[f].blobRemovedAt
         \/ f \in leftBehind
         \/ (Uploading(f, "written") \/ Uploading(f, "failed")) /\ ToTicket(f)
    /\ HasRow(f) /\ attachment[f].deletedAt /\ disk[f] # Absent =>
         removal[f] = "marked" \/ f \in leftBehind

FilesInv == TypesInv /\ ArrivedInv /\ RequestsInv /\ RowsHaveFiles

LEMMA RowsHaveTheirFiles == FilesInv => FilesMatchRows
BY DEF FilesInv, RowsHaveFiles, FilesMatchRows, Download, Stored

LEMMA RequestsStep ==
  ASSUME TypesInv, RowsArrived, SubmissionsWait, RequestsInv, [AttachmentsNext]_attachmentVars
  PROVE  RequestsInv'
<1> USE AttachmentsAssumption, AbsentAssumption
        DEF TypesInv, AttachmentsTypeOK, Attachment, Upload, HasRow, Uploading, ToTicket,
            Arrived, RowsArrived, SubmissionsWait, RequestsInv, Valid
<1>1. CASE UNCHANGED attachmentVars
  BY <1>1
<1>2. ASSUME NEW f \in Files, NEW t \in Tickets \cup {Absent}, NEW status \in ScanStatus,
             ReceiveUpload(f, t, status)
      PROVE  RequestsInv'
  BY <1>2 DEF ReceiveUpload
<1>3. ASSUME NEW f \in Files, ExpireUpload(f) PROVE RequestsInv'
  BY <1>3 DEF ExpireUpload
<1>4. ASSUME NEW f \in Files, NEW kept \in SUBSET Expired, SweepFiles(f, kept)
      PROVE  RequestsInv'
  BY <1>4 DEF SweepFiles, Expired, Accident
<1>5. ASSUME NEW f \in Files, SweepRows(f) PROVE RequestsInv'
  BY <1>5 DEF SweepRows
<1>6. ASSUME NEW f \in Files, CountUsage(f) PROVE RequestsInv'
  BY <1>6 DEF CountUsage, Proceed
<1>7. ASSUME NEW f \in Files, RefuseUpload(f) PROVE RequestsInv'
  BY <1>7 DEF RefuseUpload
<1>8. ASSUME NEW f \in Files, WriteFile(f) PROVE RequestsInv'
  BY <1>8 DEF WriteFile, Written, Location, Proceed
<1>9. ASSUME NEW f \in Files, CommitUpload(f) PROVE RequestsInv'
  <2>1. CASE ToTicket(f)
    <3>1. attachment' = [attachment EXCEPT ![f] = NewRow(upload[f].ticketId)] /\ UNCHANGED temporary
      BY <1>9, <2>1 DEF CommitUpload, InsertRow
    <3>2. /\ NewRow(upload[f].ticketId) \in Attachment /\ NewRow(upload[f].ticketId) # Absent
          /\ ~NewRow(upload[f].ticketId).deletedAt /\ ~NewRow(upload[f].ticketId).blobRemovedAt
      BY <1>9, <2>1, NewRows DEF CommitUpload
    <3> QED
      BY <1>9, <2>1, <3>1, <3>2 DEF CommitUpload
  <2>2. CASE ~ToTicket(f)
    <3>1. temporary' = [temporary EXCEPT ![f] = "valid"] /\ UNCHANGED attachment
      BY <1>9, <2>2 DEF CommitUpload, InsertRow
    <3> QED
      BY <1>9, <2>2, <3>1 DEF CommitUpload
  <2> QED
    BY <2>1, <2>2
<1>10. ASSUME NEW f \in Files, FailUpload(f) PROVE RequestsInv'
  BY <1>10 DEF FailUpload, Proceed
<1>11. ASSUME NEW f \in Files, LoseCommit(f) PROVE RequestsInv'
  <2>1. CASE ToTicket(f)
    <3>1. attachment' = [attachment EXCEPT ![f] = NewRow(upload[f].ticketId)] /\ UNCHANGED temporary
      BY <1>11, <2>1 DEF LoseCommit, InsertRow
    <3>2. /\ NewRow(upload[f].ticketId) \in Attachment /\ NewRow(upload[f].ticketId) # Absent
          /\ ~NewRow(upload[f].ticketId).deletedAt /\ ~NewRow(upload[f].ticketId).blobRemovedAt
      BY <1>11, <2>1, NewRows DEF LoseCommit
    <3> QED
      BY <1>11, <2>1, <3>1, <3>2 DEF LoseCommit, Proceed, Accident
  <2>2. CASE ~ToTicket(f)
    <3>1. temporary' = [temporary EXCEPT ![f] = "valid"] /\ UNCHANGED attachment
      BY <1>11, <2>2 DEF LoseCommit, InsertRow
    <3> QED
      BY <1>11, <2>2, <3>1 DEF LoseCommit, Proceed, Accident
  <2> QED
    BY <2>1, <2>2
<1>12. ASSUME NEW f \in Files, UndoWrite(f) PROVE RequestsInv'
  BY <1>12 DEF UndoWrite, FileUnlinked, Location
<1>13. ASSUME NEW f \in Files, MarkDeleted(f) PROVE RequestsInv'
  <2> DEFINE row == [attachment[f] EXCEPT !.deletedAt = TRUE]
  <2>1. attachment[f] \in Attachment
    BY <1>13 DEF MarkDeleted
  <2>2. /\ row \in Attachment /\ row.deletedAt
        /\ (row.blobRemovedAt <=> attachment[f].blobRemovedAt)
        /\ row.ticketId = attachment[f].ticketId
    BY <2>1
  <2>3. row # Absent
    <3> HIDE DEF row
    <3> QED BY ZenonT(40), <2>2, AbsentAssumption
  <2>4. attachment' = [attachment EXCEPT ![f] = row]
    BY <1>13 DEF MarkDeleted
  <2>5. /\ UNCHANGED <<temporary, disk, upload, submission, leftBehind, lostCommit>>
        /\ attachment[f] # Absent
        /\ removal' = [removal EXCEPT ![f] = "marked"]
    BY <1>13 DEF MarkDeleted
  <2> HIDE DEF row
  <2> QED
    BY <2>1, <2>2, <2>3, <2>4, <2>5
<1>14. ASSUME NEW f \in Files, Unlink(f) PROVE RequestsInv'
  BY <1>14 DEF Unlink
<1>15. ASSUME NEW f \in Files, FailUnlink(f) PROVE RequestsInv'
  BY <1>15 DEF FailUnlink, Accident
<1>16. ASSUME NEW f \in Files, MarkBlobRemoved(f) PROVE RequestsInv'
  <2> DEFINE row == [attachment[f] EXCEPT !.blobRemovedAt = TRUE]
  <2>1. attachment[f] \in Attachment
    BY <1>16 DEF MarkBlobRemoved
  <2>2. /\ row \in Attachment /\ row.blobRemovedAt
        /\ (row.deletedAt <=> attachment[f].deletedAt)
        /\ row.ticketId = attachment[f].ticketId
    BY <2>1
  <2>3. row # Absent
    <3> HIDE DEF row
    <3> QED BY ZenonT(40), <2>2, AbsentAssumption
  <2>4. attachment' = [attachment EXCEPT ![f] = row]
    BY <1>16 DEF MarkBlobRemoved
  <2>5. /\ UNCHANGED <<temporary, disk, upload, submission, leftBehind, lostCommit>>
        /\ attachment[f] # Absent
        /\ removal[f] = "unlinked" /\ removal' = [removal EXCEPT ![f] = Absent]
    BY <1>16 DEF MarkBlobRemoved
  <2> HIDE DEF row
  <2> QED
    BY <2>1, <2>2, <2>3, <2>4, <2>5
<1>17. ASSUME NEW f \in Files, CleanAtStart(f) PROVE RequestsInv'
  BY <1>17 DEF CleanAtStart
<1>18. ASSUME NEW t \in Creating, NEW files \in SUBSET Files, PrepareFiles(t, files)
      PROVE  RequestsInv'
  BY <1>18 DEF PrepareFiles
<1>19. ASSUME NEW t \in Creating, CommitTicket(t) PROVE RequestsInv'
  BY <1>19, NewRows DEF CommitTicket, MayMove
<1>20. ASSUME NEW t \in Creating, AbandonTicket(t) PROVE RequestsInv'
  BY <1>20 DEF AbandonTicket
<1>22. ASSUME NEW f \in Files, FailWrite(f) PROVE RequestsInv'
  BY <1>22 DEF FailWrite, Accident, Written, Location
<1>23. ASSUME NEW f \in Files, FailUndo(f) PROVE RequestsInv'
  BY <1>23 DEF FailUndo, Accident
<1>24. ASSUME NEW t \in Creating, NEW files \in SUBSET Files, StrandFiles(t, files)
      PROVE  RequestsInv'
  BY <1>24 DEF StrandFiles, Accident, MayMove
<1>21. CASE Crash
  BY <1>21 DEF Crash, Accident
<1> QED
  BY <1>1, <1>2, <1>3, <1>4, <1>5, <1>6, <1>7, <1>8, <1>9, <1>10, <1>11, <1>12, <1>13,
     <1>14, <1>15, <1>16, <1>17, <1>18, <1>19, <1>20, <1>21, <1>22, <1>23, <1>24
     DEF AttachmentsNext

LEMMA FilesStep ==
  ASSUME TypesInv, RowsArrived, SubmissionsWait, RequestsInv, RowsHaveFiles, [AttachmentsNext]_attachmentVars
  PROVE  RowsHaveFiles'
<1> USE AttachmentsAssumption, AbsentAssumption
        DEF TypesInv, AttachmentsTypeOK, Attachment, Upload, HasRow, Uploading, ToTicket,
            Arrived, RowsArrived, SubmissionsWait, RequestsInv, RowsHaveFiles
<1>1. CASE UNCHANGED attachmentVars
  BY <1>1
<1>2. ASSUME NEW f \in Files, NEW t \in Tickets \cup {Absent}, NEW status \in ScanStatus,
             ReceiveUpload(f, t, status)
      PROVE  RowsHaveFiles'
  BY <1>2 DEF ReceiveUpload
<1>3. ASSUME NEW f \in Files, ExpireUpload(f) PROVE RowsHaveFiles'
  BY <1>3 DEF ExpireUpload
<1>4. ASSUME NEW f \in Files, NEW kept \in SUBSET Expired, SweepFiles(f, kept)
      PROVE  RowsHaveFiles'
  BY <1>4 DEF SweepFiles, Expired, Accident
<1>5. ASSUME NEW f \in Files, SweepRows(f) PROVE RowsHaveFiles'
  BY <1>5 DEF SweepRows
<1>6. ASSUME NEW f \in Files, CountUsage(f) PROVE RowsHaveFiles'
  BY <1>6 DEF CountUsage, Proceed
<1>7. ASSUME NEW f \in Files, RefuseUpload(f) PROVE RowsHaveFiles'
  BY <1>7 DEF RefuseUpload
<1>8. ASSUME NEW f \in Files, WriteFile(f) PROVE RowsHaveFiles'
  BY <1>8 DEF WriteFile, Written, Location, Proceed
<1>9. ASSUME NEW f \in Files, CommitUpload(f) PROVE RowsHaveFiles'
  <2>1. CASE ToTicket(f)
    <3>1. attachment' = [attachment EXCEPT ![f] = NewRow(upload[f].ticketId)] /\ UNCHANGED temporary
      BY <1>9, <2>1 DEF CommitUpload, InsertRow
    <3>2. /\ NewRow(upload[f].ticketId) \in Attachment /\ NewRow(upload[f].ticketId) # Absent
          /\ ~NewRow(upload[f].ticketId).deletedAt /\ ~NewRow(upload[f].ticketId).blobRemovedAt
      BY <1>9, <2>1, NewRows DEF CommitUpload
    <3> QED
      BY <1>9, <2>1, <3>1, <3>2 DEF CommitUpload
  <2>2. CASE ~ToTicket(f)
    <3>1. temporary' = [temporary EXCEPT ![f] = "valid"] /\ UNCHANGED attachment
      BY <1>9, <2>2 DEF CommitUpload, InsertRow
    <3> QED
      BY <1>9, <2>2, <3>1 DEF CommitUpload
  <2> QED
    BY <2>1, <2>2
<1>10. ASSUME NEW f \in Files, FailUpload(f) PROVE RowsHaveFiles'
  BY <1>10 DEF FailUpload, Proceed
<1>11. ASSUME NEW f \in Files, LoseCommit(f) PROVE RowsHaveFiles'
  <2>1. CASE ToTicket(f)
    <3>1. attachment' = [attachment EXCEPT ![f] = NewRow(upload[f].ticketId)] /\ UNCHANGED temporary
      BY <1>11, <2>1 DEF LoseCommit, InsertRow
    <3>2. /\ NewRow(upload[f].ticketId) \in Attachment /\ NewRow(upload[f].ticketId) # Absent
          /\ ~NewRow(upload[f].ticketId).deletedAt /\ ~NewRow(upload[f].ticketId).blobRemovedAt
      BY <1>11, <2>1, NewRows DEF LoseCommit
    <3> QED
      BY <1>11, <2>1, <3>1, <3>2 DEF LoseCommit, Proceed, Accident
  <2>2. CASE ~ToTicket(f)
    <3>1. temporary' = [temporary EXCEPT ![f] = "valid"] /\ UNCHANGED attachment
      BY <1>11, <2>2 DEF LoseCommit, InsertRow
    <3> QED
      BY <1>11, <2>2, <3>1 DEF LoseCommit, Proceed, Accident
  <2> QED
    BY <2>1, <2>2
<1>12. ASSUME NEW f \in Files, UndoWrite(f) PROVE RowsHaveFiles'
  BY <1>12 DEF UndoWrite, FileUnlinked, Location
<1>13. ASSUME NEW f \in Files, MarkDeleted(f) PROVE RowsHaveFiles'
  <2> DEFINE row == [attachment[f] EXCEPT !.deletedAt = TRUE]
  <2>1. attachment[f] \in Attachment
    BY <1>13 DEF MarkDeleted
  <2>2. /\ row \in Attachment /\ row.deletedAt
        /\ (row.blobRemovedAt <=> attachment[f].blobRemovedAt)
        /\ row.ticketId = attachment[f].ticketId
    BY <2>1
  <2>3. row # Absent
    <3> HIDE DEF row
    <3> QED BY ZenonT(40), <2>2, AbsentAssumption
  <2>4. attachment' = [attachment EXCEPT ![f] = row]
    BY <1>13 DEF MarkDeleted
  <2>5. /\ UNCHANGED <<temporary, disk, upload, submission, leftBehind, lostCommit>>
        /\ attachment[f] # Absent
        /\ removal' = [removal EXCEPT ![f] = "marked"]
    BY <1>13 DEF MarkDeleted
  <2> HIDE DEF row
  <2> QED
    BY <2>1, <2>2, <2>3, <2>4, <2>5
<1>14. ASSUME NEW f \in Files, Unlink(f) PROVE RowsHaveFiles'
  BY <1>14 DEF Unlink
<1>15. ASSUME NEW f \in Files, FailUnlink(f) PROVE RowsHaveFiles'
  BY <1>15 DEF FailUnlink, Accident
<1>16. ASSUME NEW f \in Files, MarkBlobRemoved(f) PROVE RowsHaveFiles'
  <2> DEFINE row == [attachment[f] EXCEPT !.blobRemovedAt = TRUE]
  <2>1. attachment[f] \in Attachment
    BY <1>16 DEF MarkBlobRemoved
  <2>2. /\ row \in Attachment /\ row.blobRemovedAt
        /\ (row.deletedAt <=> attachment[f].deletedAt)
        /\ row.ticketId = attachment[f].ticketId
    BY <2>1
  <2>3. row # Absent
    <3> HIDE DEF row
    <3> QED BY ZenonT(40), <2>2, AbsentAssumption
  <2>4. attachment' = [attachment EXCEPT ![f] = row]
    BY <1>16 DEF MarkBlobRemoved
  <2>5. /\ UNCHANGED <<temporary, disk, upload, submission, leftBehind, lostCommit>>
        /\ attachment[f] # Absent
        /\ removal[f] = "unlinked" /\ removal' = [removal EXCEPT ![f] = Absent]
    BY <1>16 DEF MarkBlobRemoved
  <2> HIDE DEF row
  <2> QED
    BY <2>1, <2>2, <2>3, <2>4, <2>5
<1>17. ASSUME NEW f \in Files, CleanAtStart(f) PROVE RowsHaveFiles'
  BY <1>17 DEF CleanAtStart
<1>18. ASSUME NEW t \in Creating, NEW files \in SUBSET Files, PrepareFiles(t, files)
      PROVE  RowsHaveFiles'
  BY <1>18 DEF PrepareFiles
<1>19. ASSUME NEW t \in Creating, CommitTicket(t) PROVE RowsHaveFiles'
  BY <1>19, NewRows DEF CommitTicket, MayMove
<1>20. ASSUME NEW t \in Creating, AbandonTicket(t) PROVE RowsHaveFiles'
  BY <1>20 DEF AbandonTicket
<1>22. ASSUME NEW f \in Files, FailWrite(f) PROVE RowsHaveFiles'
  BY <1>22 DEF FailWrite, Accident, Written, Location
<1>23. ASSUME NEW f \in Files, FailUndo(f) PROVE RowsHaveFiles'
  BY <1>23 DEF FailUndo, Accident
<1>24. ASSUME NEW t \in Creating, NEW files \in SUBSET Files, StrandFiles(t, files)
      PROVE  RowsHaveFiles'
  BY <1>24 DEF StrandFiles, Accident, MayMove
<1>21. CASE Crash
  BY <1>21 DEF Crash, Accident
<1> QED
  BY <1>1, <1>2, <1>3, <1>4, <1>5, <1>6, <1>7, <1>8, <1>9, <1>10, <1>11, <1>12, <1>13,
     <1>14, <1>15, <1>16, <1>17, <1>18, <1>19, <1>20, <1>21, <1>22, <1>23, <1>24
     DEF AttachmentsNext

LEMMA FilesInit == AttachmentsInit => FilesInv
<1> SUFFICES ASSUME AttachmentsInit PROVE FilesInv
  OBVIOUS
<1>1. TypesInv /\ ArrivedInv
  BY QuotasInit DEF QuotaInv
<1>2. RequestsInv /\ RowsHaveFiles
  BY AbsentAssumption DEF AttachmentsInit, RequestsInv, RowsHaveFiles, HasRow, Uploading
<1> QED
  BY <1>1, <1>2 DEF FilesInv

LEMMA FilesInvStep == FilesInv /\ [AttachmentsNext]_attachmentVars => FilesInv'
<1> SUFFICES ASSUME FilesInv, [AttachmentsNext]_attachmentVars PROVE FilesInv'
  OBVIOUS
<1>1. /\ TypesInv /\ ArrivedInv /\ RowsArrived /\ TicketsStand /\ SubmissionsWait
      /\ RequestsInv /\ RowsHaveFiles
  BY DEF FilesInv, ArrivedInv
<1>2. /\ TypesInv' /\ RowsArrived' /\ TicketsStand' /\ SubmissionsWait'
      /\ RequestsInv' /\ RowsHaveFiles'
  BY <1>1, TypesStep, RowsStayArrived, TicketsStandStep, SubmissionsWaitStep, RequestsStep,
     FilesStep
<1> QED
  BY <1>2 DEF FilesInv, ArrivedInv

-----------------------------------------------------------------------------
(* The rows keep their shape.                                              *)
THEOREM AttachmentsAreTyped == AttachmentsSpec => []AttachmentsTypeOK
<1>1. AttachmentsInit => TypesInv
  BY TypesInit
<1>2. TypesInv /\ [AttachmentsNext]_attachmentVars => TypesInv'
  BY TypesStep
<1>3. TypesInv => AttachmentsTypeOK
  BY DEF TypesInv
<1> QED
  BY <1>1, <1>2, <1>3, PTL DEF AttachmentsSpec

(* However uploads, deletions, new tickets and crashes meet, no ticket, no *)
(* user and not all tickets together hold more than their quota, for any   *)
(* files, sizes and limits.                                                *)
THEOREM QuotasAlwaysHold == AttachmentsSpec => []QuotasHold
<1>1. QuotaInv => QuotasHold
  BY DEF QuotaInv
<1> QED
  BY <1>1, QuotasInit, QuotaInvStep, PTL DEF AttachmentsSpec

(* Through crashes, lost answers and writes, unlinks and renames that fail *)
(* half-way, a row that may be downloaded has its file unless the answer   *)
(* of its commit was lost, a row says that its file is gone only if it is, *)
(* and no file stays in the private storage without a row but what such a  *)
(* failure left there.                                                     *)
THEOREM FilesAlwaysMatchRows == AttachmentsSpec => []FilesMatchRows
BY FilesInit, FilesInvStep, RowsHaveTheirFiles, PTL DEF AttachmentsSpec

-----------------------------------------------------------------------------
(* The fallback is there, and active, once it was committed or has been    *)
(* read.                                                                   *)
DefaultIsThere ==
  /\ Exists(SystemDefault) => form[SystemDefault].isActive
  /\ \A h \in whole : h.form = SystemDefault => Exists(SystemDefault)
  /\ \A s \in Submissions : Reached(s, "category") => Exists(SystemDefault)

-----------------------------------------------------------------------------
(* What a request of an administrator and a submission hold.               *)
LEMMA JobsAre ==
  ASSUME NEW x \in Job
  PROVE  /\ x.op = "save" => x.form \in Forms /\ x.seen \in SUBSET FieldRow /\ x.new \in SUBSET FieldRow
         /\ x.op = "delete" =>
              x.form \in Forms /\ x.form # SystemDefault /\ x.replacement \in Forms \cup {Missing}
         /\ x.op = "default" => x.place \in Departments /\ x.form \in Forms \cup {Missing}
         /\ x.op = "override" => x.place \in Categories /\ x.form \in Forms \cup {Missing}
         /\ x.op = "move" => x.category \in Categories /\ x.to \in Departments
BY DEF Job

LEMMA ResolvingIs ==
  ASSUME NEW x \in Resolving
  PROVE  /\ x.department \in Departments /\ x.category \in Categories \cup {Missing}
         /\ x.stage = "department" => x.default \in Forms \cup {Missing}
         /\ x.stage = "category" =>
              /\ x.default \in Forms \cup {Missing} /\ x.override \in Forms \cup {Missing}
              /\ x.systemVersion \in Nat
         /\ x.stage \in {"template", "read"} =>
              x.form \in Forms /\ x.version \in Nat /\ x.rows \in SUBSET FieldRow
BY DEF Resolving

LEMMA FirstFormIsTyped == FirstForm \in FormRow /\ FirstForm # Missing /\ FirstForm.isActive
<1>1. FirstRows \in SUBSET FieldRow
  BY FormsAssumption DEF FirstRows, FieldRow
<1>2. FirstForm \in FormRow /\ FirstForm.isActive
  BY <1>1 DEF FirstForm, FormRow
<1> QED
  BY Zenon, <1>2, MissingAssumption

LEMMA CommittedIs ==
  ASSUME NEW f \in Forms, NEW row \in FormRow
  PROVE  /\ Committed(f, row) \in FieldList
         /\ Committed(f, row).form = f /\ Committed(f, row).version = row.version
         /\ Committed(f, row).rows = row.rows
BY DEF Committed, FormRow, FieldList

-----------------------------------------------------------------------------
(* Types.                                                                  *)
LEMMA FormTypesStep ==
  ASSUME FormsTypeOK, DefaultIsThere, [FormsNext]_formVars
  PROVE  FormsTypeOK'
<1> USE FormsAssumption, MissingAssumption DEF FormsTypeOK
<1>1. CASE UNCHANGED formVars
  BY <1>1
<1>2. CASE EnsureSystemDefault /\ UNCHANGED <<department, category, job, resolving, filed, saves, changes>>
  <2>1. /\ form' \in [Forms -> FormRow \cup {Missing}] /\ form'[SystemDefault] \in FormRow
        /\ whole' = whole \cup {Committed(SystemDefault, form'[SystemDefault])}
        /\ UNCHANGED <<department, category, job, resolving, filed, saves, changes>>
    <3>1. CASE Exists(SystemDefault)
      BY <3>1, <1>2 DEF EnsureSystemDefault, Exists
    <3>2. CASE ~Exists(SystemDefault)
      BY <3>2, <1>2, FirstFormIsTyped DEF EnsureSystemDefault
    <3> QED
      BY <3>1, <3>2
  <2>2. Committed(SystemDefault, form'[SystemDefault]) \in FieldList
    BY <2>1, CommittedIs
  <2> QED
    BY <2>1, <2>2
<1>3. ASSUME NEW new \in Forms, NEW source \in Forms, CloneForm(new, source)
      PROVE  FormsTypeOK'
  <2> DEFINE row == [version |-> 1, rows |-> form[source].rows, isActive |-> TRUE]
  <2>1. row \in FormRow
    BY <1>3 DEF CloneForm, Exists, FormRow
  <2>2. /\ form' = [form EXCEPT ![new] = row]
        /\ whole' = whole \cup {Committed(new, form'[new])} /\ changes' = changes + 1
        /\ UNCHANGED <<department, category, job, resolving, filed, saves>>
    BY <1>3 DEF CloneForm, Change
  <2> HIDE DEF row
  <2>3. Committed(new, row) \in FieldList
    BY <2>1, CommittedIs
  <2> QED
    BY <2>1, <2>2, <2>3
<1>4. ASSUME NEW f \in Forms, NEW archived \in BOOLEAN, SetTemplateArchived(f, archived)
      PROVE  FormsTypeOK'
  <2> DEFINE row == [form[f] EXCEPT !.isActive = ~archived]
  <2>1. row \in FormRow
    BY <1>4 DEF SetTemplateArchived, Exists, FormRow
  <2>2. /\ form' = [form EXCEPT ![f] = row] /\ changes' = changes + 1
        /\ UNCHANGED <<department, category, job, resolving, filed, whole, saves>>
    BY <1>4 DEF SetTemplateArchived, Change
  <2> HIDE DEF row
  <2> QED
    BY <2>1, <2>2
<1>5. ASSUME NEW d \in Departments, DeleteDepartment(d) PROVE FormsTypeOK'
  BY <1>5 DEF DeleteDepartment, Change
<1>6. ASSUME NEW d \in Departments, NEW x \in BOOLEAN, SetDepartmentActive(d, x)
      PROVE  FormsTypeOK'
  <2> DEFINE row == [department[d] EXCEPT !.isActive = x]
  <2>1. row \in DepartmentRow
    BY <1>6 DEF SetDepartmentActive, DepartmentRow
  <2>2. /\ department' = [department EXCEPT ![d] = row] /\ changes' = changes + 1
        /\ UNCHANGED <<form, category, job, resolving, filed, whole, saves>>
    BY <1>6 DEF SetDepartmentActive, Change
  <2> HIDE DEF row
  <2> QED
    BY <2>1, <2>2
<1>7. ASSUME NEW c \in Categories, DeleteCategory(c) PROVE FormsTypeOK'
  BY <1>7 DEF DeleteCategory, Change
<1>8. ASSUME NEW c \in Categories, NEW x \in BOOLEAN, SetCategoryActive(c, x)
      PROVE  FormsTypeOK'
  <2> DEFINE row == [category[c] EXCEPT !.isActive = x]
  <2>1. row \in CategoryRow
    BY <1>8 DEF SetCategoryActive, CategoryRow
  <2>2. /\ category' = [category EXCEPT ![c] = row] /\ changes' = changes + 1
        /\ UNCHANGED <<form, department, job, resolving, filed, whole, saves>>
    BY <1>8 DEF SetCategoryActive, Change
  <2> HIDE DEF row
  <2> QED
    BY <2>1, <2>2
<1>9. ASSUME NEW j \in Jobs, NEW f \in Forms, NEW keys \in SUBSET FieldKeys, DeleteFields(j, f, keys)
      PROVE  FormsTypeOK'
  <2> DEFINE taken == [op |-> "save", form |-> f, seen |-> form[f].rows,
                       new |-> [key : keys, save : {saves + 1}]]
  <2>1. [key : keys, save : {saves + 1}] \in SUBSET FieldRow
    <3>1. saves + 1 \in 0 .. MaxChanges
      BY <1>9 DEF DeleteFields
    <3> QED
      BY <3>1 DEF FieldRow
  <2>2. taken \in Job
    BY <1>9, <2>1 DEF DeleteFields, Exists, FormRow, Job
  <2>3. /\ job' = [job EXCEPT ![j] = taken] /\ saves' = saves + 1
        /\ UNCHANGED <<form, department, category, resolving, filed, whole, changes>>
    BY <1>9 DEF DeleteFields, Take
  <2> HIDE DEF taken
  <2> QED
    BY <2>2, <2>3
<1>10. ASSUME NEW j \in Jobs, NEW f \in Forms, NEW heir \in Forms \cup {Missing}, CheckUsage(j, f, heir)
      PROVE  FormsTypeOK'
  <2> DEFINE taken == [op |-> "delete", form |-> f, replacement |-> heir]
  <2>1. taken \in Job
    BY <1>10 DEF CheckUsage, Job
  <2>2. /\ job' = [job EXCEPT ![j] = taken] /\ changes' = changes + 1
        /\ UNCHANGED <<form, department, category, resolving, filed, whole, saves>>
    BY <1>10 DEF CheckUsage, Change, Take
  <2> HIDE DEF taken
  <2> QED
    BY <2>1, <2>2
<1>11. ASSUME NEW j \in Jobs, NEW d \in Departments, NEW f \in Forms \cup {Missing}, CheckAssignment(j, "default", d, f)
      PROVE  FormsTypeOK'
  <2> DEFINE taken == [op |-> "default", place |-> d, form |-> f]
  <2>1. taken \in Job
    BY <1>11 DEF CheckAssignment, Job
  <2>2. /\ job' = [job EXCEPT ![j] = taken] /\ changes' = changes + 1
        /\ UNCHANGED <<form, department, category, resolving, filed, whole, saves>>
    BY <1>11 DEF CheckAssignment, Change, Take
  <2> HIDE DEF taken
  <2> QED
    BY <2>1, <2>2
<1>12. ASSUME NEW j \in Jobs, NEW c \in Categories, NEW f \in Forms \cup {Missing}, CheckAssignment(j, "override", c, f)
      PROVE  FormsTypeOK'
  <2> DEFINE taken == [op |-> "override", place |-> c, form |-> f]
  <2>1. taken \in Job
    BY <1>12 DEF CheckAssignment, Job
  <2>2. /\ job' = [job EXCEPT ![j] = taken] /\ changes' = changes + 1
        /\ UNCHANGED <<form, department, category, resolving, filed, whole, saves>>
    BY <1>12 DEF CheckAssignment, Change, Take
  <2> HIDE DEF taken
  <2> QED
    BY <2>1, <2>2
<1>13. ASSUME NEW j \in Jobs, NEW c \in Categories, NEW d \in Departments, CheckMove(j, c, d)
      PROVE  FormsTypeOK'
  <2> DEFINE taken == [op |-> "move", category |-> c, to |-> d]
  <2>1. taken \in Job
    BY <1>13 DEF CheckMove, Job
  <2>2. /\ job' = [job EXCEPT ![j] = taken] /\ changes' = changes + 1
        /\ UNCHANGED <<form, department, category, resolving, filed, whole, saves>>
    BY <1>13 DEF CheckMove, Change, Take
  <2> HIDE DEF taken
  <2> QED
    BY <2>1, <2>2
<1>14. ASSUME NEW j \in Jobs, CommitSave(j) PROVE FormsTypeOK'
  <2> PICK f \in Forms : f = job[j].form
    BY <1>14, JobsAre DEF CommitSave, Doing
  <2> DEFINE rows == RowsAfter(f, job[j].seen, job[j].new)
             version == form[f].version + 1
             row == [form[f] EXCEPT !.rows = rows, !.version = version]
  <2>1. /\ form[f] \in FormRow /\ job[j].new \in SUBSET FieldRow
    BY <1>14, JobsAre DEF CommitSave, Doing, Exists
  <2>2. rows \in SUBSET FieldRow /\ version \in Nat
    BY <2>1 DEF RowsAfter, FormRow
  <2>3. /\ form' = [form EXCEPT ![f] = row]
        /\ whole' = whole \cup {Committed(f, form'[f])} /\ job' = [job EXCEPT ![j] = Missing]
        /\ UNCHANGED <<department, category, resolving, filed, saves, changes>>
    BY Zenon, <1>14 DEF CommitSave, Finish
  <2>4. row \in FormRow
    <3> HIDE DEF rows, version
    <3> QED BY <2>1, <2>2 DEF FormRow
  <2> HIDE DEF row
  <2>5. Committed(f, row) \in FieldList
    BY <2>4, CommittedIs
  <2> QED
    BY <2>3, <2>4, <2>5
<1>15. ASSUME NEW j \in Jobs, HardDelete(j) PROVE FormsTypeOK'
  <2> PICK f \in Forms, heir \in Forms \cup {Missing} : f = job[j].form /\ heir = job[j].replacement
    BY <1>15, JobsAre DEF HardDelete, Doing
  <2>1. \A d \in Departments : d \in DefaultOf(f) => [department[d] EXCEPT !.form = heir] \in DepartmentRow
    BY DEF DefaultOf, DepartmentRow
  <2>2. \A c \in Categories : c \in OverrideOf(f) => [category[c] EXCEPT !.form = heir] \in CategoryRow
    BY DEF OverrideOf, CategoryRow
  <2>3. /\ department' = [d \in Departments |->
             IF d \in DefaultOf(f) THEN [department[d] EXCEPT !.form = heir] ELSE department[d]]
        /\ category' = [c \in Categories |->
             IF c \in OverrideOf(f) THEN [category[c] EXCEPT !.form = heir] ELSE category[c]]
        /\ form' = [form EXCEPT ![f] = Missing] /\ job' = [job EXCEPT ![j] = Missing]
        /\ UNCHANGED <<resolving, filed, whole, saves, changes>>
    BY Zenon, <1>15 DEF HardDelete, Finish
  <2>4. department' \in [Departments -> DepartmentRow \cup {Missing}]
    BY <2>1, <2>3
  <2>5. category' \in [Categories -> CategoryRow \cup {Missing}]
    BY <2>2, <2>3
  <2> QED
    BY <2>3, <2>4, <2>5
<1>16. ASSUME NEW j \in Jobs, AssignDefault(j) PROVE FormsTypeOK'
  <2> PICK d \in Departments, f \in Forms \cup {Missing} : d = job[j].place /\ f = job[j].form
    BY <1>16, JobsAre DEF AssignDefault, Doing
  <2> DEFINE row == [department[d] EXCEPT !.form = f]
  <2>1. row \in DepartmentRow
    BY <1>16 DEF AssignDefault, DepartmentRow
  <2>2. /\ department' = [department EXCEPT ![d] = row] /\ job' = [job EXCEPT ![j] = Missing]
        /\ UNCHANGED <<form, category, resolving, filed, whole, saves, changes>>
    BY <1>16 DEF AssignDefault, Finish
  <2> HIDE DEF row
  <2> QED
    BY <2>1, <2>2
<1>17. ASSUME NEW j \in Jobs, AssignOverride(j) PROVE FormsTypeOK'
  <2> PICK c \in Categories, f \in Forms \cup {Missing} : c = job[j].place /\ f = job[j].form
    BY <1>17, JobsAre DEF AssignOverride, Doing
  <2> DEFINE row == [category[c] EXCEPT !.form = f]
  <2>1. row \in CategoryRow
    BY <1>17 DEF AssignOverride, CategoryRow
  <2>2. /\ category' = [category EXCEPT ![c] = row] /\ job' = [job EXCEPT ![j] = Missing]
        /\ UNCHANGED <<form, department, resolving, filed, whole, saves, changes>>
    BY <1>17 DEF AssignOverride, Finish
  <2> HIDE DEF row
  <2> QED
    BY <2>1, <2>2
<1>18. ASSUME NEW j \in Jobs, MoveCategory(j) PROVE FormsTypeOK'
  <2> PICK c \in Categories, d \in Departments : c = job[j].category /\ d = job[j].to
    BY <1>18, JobsAre DEF MoveCategory, Doing
  <2> DEFINE row == [category[c] EXCEPT !.department = d]
  <2>1. row \in CategoryRow
    BY <1>18 DEF MoveCategory, CategoryRow
  <2>2. /\ category' = [category EXCEPT ![c] = row] /\ job' = [job EXCEPT ![j] = Missing]
        /\ UNCHANGED <<form, department, resolving, filed, whole, saves, changes>>
    BY <1>18 DEF MoveCategory, Finish
  <2> HIDE DEF row
  <2> QED
    BY <2>1, <2>2
<1>19. ASSUME NEW j \in Jobs, EndJob(j) PROVE FormsTypeOK'
  BY <1>19 DEF EndJob, Finish
<1>20. ASSUME NEW s \in Submissions, NEW d \in Departments, NEW c \in Categories \cup {Missing}, ReadDepartment(s, d, c)
      PROVE  FormsTypeOK'
  <2> DEFINE held == [stage |-> "department", department |-> d, category |-> c,
                      default |-> department[d].form]
  <2>1. held \in Resolving
    BY <1>20 DEF ReadDepartment, DepartmentRow, Resolving
  <2>2. /\ resolving' = [resolving EXCEPT ![s] = held]
        /\ UNCHANGED <<form, department, category, job, filed, whole, saves, changes>>
    BY <1>20 DEF ReadDepartment
  <2> HIDE DEF held
  <2> QED
    BY <2>1, <2>2
<1>21. ASSUME NEW s \in Submissions, ReadCategory(s) PROVE FormsTypeOK'
  <2>1. /\ form' \in [Forms -> FormRow \cup {Missing}] /\ form'[SystemDefault] \in FormRow
        /\ whole' = whole \cup {Committed(SystemDefault, form'[SystemDefault])}
        /\ UNCHANGED <<department, category, job, filed, saves, changes>>
    <3>1. CASE Exists(SystemDefault)
      BY <3>1, <1>21 DEF ReadCategory, EnsureSystemDefault, Exists
    <3>2. CASE ~Exists(SystemDefault)
      BY <3>2, <1>21, FirstFormIsTyped DEF ReadCategory, EnsureSystemDefault
    <3> QED
      BY <3>1, <3>2
  <2>2. Committed(SystemDefault, form'[SystemDefault]) \in FieldList
    BY <2>1, CommittedIs
  <2> DEFINE was == resolving[s]
             override == IF was.category = Missing THEN Missing ELSE category[was.category].form
             held == [stage |-> "category", department |-> was.department,
                      category |-> was.category, default |-> was.default,
                      override |-> override, systemVersion |-> form'[SystemDefault].version]
  <2>3. was \in Resolving /\ was.stage = "department"
    BY <1>21 DEF ReadCategory, Reached
  <2>4. override \in Forms \cup {Missing}
    BY <1>21, <2>3, ResolvingIs DEF ReadCategory, BelongsToDepartment, CategoryRow
  <2>5. resolving' = [resolving EXCEPT ![s] = held]
    BY Zenon, <1>21 DEF ReadCategory
  <2>6. held \in Resolving
    <3>1. /\ was.department \in Departments /\ was.category \in Categories \cup {Missing}
          /\ was.default \in Forms \cup {Missing} /\ form'[SystemDefault].version \in Nat
      BY <2>1, <2>3, ResolvingIs DEF FormRow
    <3> HIDE DEF was, override
    <3> QED
      BY <2>4, <3>1 DEF Resolving
  <2> HIDE DEF held
  <2> QED
    BY <2>1, <2>2, <2>5, <2>6
<1>22. ASSUME NEW s \in Submissions, ReadTemplates(s) PROVE FormsTypeOK'
  <2> DEFINE was == resolving[s]
             chosen == ChooseEffectiveTemplate(was.override, was.default)
             isFallback == ~IsEffective(was.override) /\ ~IsEffective(was.default)
             stage == IF isFallback THEN "read" ELSE "template"
             version == IF isFallback THEN was.systemVersion ELSE form[chosen].version
             held == [stage |-> stage, department |-> was.department, category |-> was.category,
                      form |-> chosen, version |-> version, rows |-> form[SystemDefault].rows]
  <2>1. was \in Resolving /\ was.stage = "category"
    BY <1>22 DEF ReadTemplates, Reached
  <2>2. chosen \in Forms
    BY <2>1, ResolvingIs DEF ChooseEffectiveTemplate, IsEffective
  <2>3. version \in Nat
    BY <2>1, <2>2, ResolvingIs DEF ChooseEffectiveTemplate, IsEffective, Exists, FormRow
  <2>4. form[SystemDefault].rows \in SUBSET FieldRow
    BY <1>22 DEF ReadTemplates, DefaultIsThere, Exists, FormRow
  <2>5. /\ resolving' = [resolving EXCEPT ![s] = held]
        /\ UNCHANGED <<form, department, category, job, filed, whole, saves, changes>>
    BY Zenon, <1>22 DEF ReadTemplates
  <2>6. stage \in {"template", "read"}
    OBVIOUS
  <2>7. held \in Resolving
    <3>1. was.department \in Departments /\ was.category \in Categories \cup {Missing}
      BY <2>1, ResolvingIs
    <3> HIDE DEF was, chosen, stage, version
    <3> QED
      BY <2>2, <2>3, <2>4, <2>6, <3>1 DEF Resolving
  <2> HIDE DEF held
  <2> QED
    BY <2>5, <2>7
<1>23. ASSUME NEW s \in Submissions, ReadFields(s) PROVE FormsTypeOK'
  <2> DEFINE was == resolving[s]
             rows == IF Exists(was.form) THEN form[was.form].rows ELSE {}
             held == [was EXCEPT !.stage = "read", !.rows = rows]
  <2>1. was \in Resolving /\ was.stage = "template"
    BY <1>23 DEF ReadFields, Reached
  <2>2. rows \in SUBSET FieldRow
    BY <2>1, ResolvingIs DEF Exists, FormRow
  <2>3. /\ resolving' = [resolving EXCEPT ![s] = held]
        /\ UNCHANGED <<form, department, category, job, filed, whole, saves, changes>>
    BY Zenon, <1>23 DEF ReadFields
  <2>4. held \in Resolving
    <3> HIDE DEF was, rows
    <3> QED
      BY <2>1, <2>2 DEF Resolving
  <2> HIDE DEF held
  <2> QED
    BY <2>3, <2>4
<1>24. ASSUME NEW s \in Submissions, FileTicket(s) PROVE FormsTypeOK'
  <2> DEFINE was == resolving[s]
             ticket == [department |-> was.department, category |-> was.category,
                        form |-> was.form, version |-> was.version, rows |-> was.rows]
  <2>1. was \in Resolving /\ was.stage = "read"
    BY <1>24 DEF FileTicket, Reached
  <2>2. /\ filed' = [filed EXCEPT ![s] = ticket] /\ resolving' = [resolving EXCEPT ![s] = Missing]
        /\ UNCHANGED <<form, department, category, job, whole, saves, changes>>
    BY Zenon, <1>24 DEF FileTicket, ReadVersion
  <2>3. ticket \in Ticket
    <3>1. /\ was.department \in Departments /\ was.category \in Categories \cup {Missing}
          /\ was.form \in Forms /\ was.version \in Nat /\ was.rows \in SUBSET FieldRow
      BY <2>1, ResolvingIs
    <3> HIDE DEF was
    <3> QED
      BY <3>1 DEF Ticket
  <2> HIDE DEF ticket
  <2> QED
    BY <2>2, <2>3
<1>25. ASSUME NEW s \in Submissions, Refuse(s) PROVE FormsTypeOK'
  BY <1>25 DEF Refuse
<1> QED
  BY <1>1, <1>2, <1>3, <1>4, <1>5, <1>6, <1>7, <1>8, <1>9, <1>10, <1>11, <1>12, <1>13,
     <1>14, <1>15, <1>16, <1>17, <1>18, <1>19, <1>20, <1>21, <1>22, <1>23, <1>24, <1>25
     DEF FormsNext

-----------------------------------------------------------------------------
(* Field lists.                                                            *)

(* What a template holds was committed.                                    *)
CommittedInv == \A f \in Forms : Exists(f) => Committed(f, form[f]) \in whole

(* Field lists are committed and stay so, a template never goes back to a  *)
(* lower version, and what was deleted does not come back.                 *)
FormsGrow ==
  /\ whole \subseteq whole'
  /\ \A f \in Forms : form'[f] # Missing => Committed(f, form'[f]) \in whole'
  /\ \A f \in Forms : Exists(f) /\ form'[f] # Missing => form'[f].version >= form[f].version
  /\ \A f \in Forms : ~Exists(f) /\ form'[f] # Missing => \A h \in whole : h.form # f
  /\ Exists(SystemDefault) => form'[SystemDefault] # Missing
  /\ form'[SystemDefault] # Missing => form'[SystemDefault].isActive
  /\ \A h \in whole' : h.form = SystemDefault => form'[SystemDefault] # Missing

LEMMA UnchangedFormsGrow ==
  ASSUME FormsTypeOK, DefaultIsThere, CommittedInv, UNCHANGED <<form, whole>>
  PROVE  FormsGrow
<1>1. \A f \in Forms : Exists(f) => form[f].version \in Nat
  BY DEF FormsTypeOK, Exists, FormRow
<1> QED
  BY <1>1, FormsAssumption DEF FormsGrow, DefaultIsThere, CommittedInv, Exists

LEMMA FormsGrowStep ==
  ASSUME FormsTypeOK, DefaultIsThere, CommittedInv, [FormsNext]_formVars
  PROVE  FormsGrow
<1>1. CASE UNCHANGED formVars
  <2>1. UNCHANGED <<form, whole>>
    BY <1>1
  <2> QED
    BY <2>1, UnchangedFormsGrow
<1>2. CASE EnsureSystemDefault /\ UNCHANGED <<department, category, job, resolving, filed, saves, changes>>
  <2> DEFINE row == form'[SystemDefault]
  <2>1. whole' = whole \cup {Committed(SystemDefault, row)}
    BY <1>2 DEF EnsureSystemDefault
  <2>2. CASE Exists(SystemDefault)
    <3>1. UNCHANGED form
      BY <2>2, <1>2 DEF EnsureSystemDefault
    <3>2. Committed(SystemDefault, row) \in whole
      BY <2>2, <3>1, FormsAssumption DEF CommittedInv
    <3>3. whole' = whole
      BY <2>1, <3>2
    <3> QED
      BY <3>1, <3>3, UnchangedFormsGrow
  <2>3. CASE ~Exists(SystemDefault)
    <3>1. form' = [form EXCEPT ![SystemDefault] = FirstForm]
      BY <2>3, <1>2 DEF EnsureSystemDefault
    <3>2. /\ row = FirstForm /\ Exists(SystemDefault)'
          /\ \A f \in Forms \ {SystemDefault} : form'[f] = form[f]
      BY <3>1, FirstFormIsTyped, FormsAssumption DEF FormsTypeOK, Exists
    <3>3. /\ Committed(SystemDefault, FirstForm).form = SystemDefault
          /\ FirstForm.isActive
      BY FirstFormIsTyped, CommittedIs, FormsAssumption
    <3> HIDE DEF row
    <3>4. \A h \in whole : h.form # SystemDefault
      BY <2>3 DEF DefaultIsThere
    <3>5. /\ whole' = whole \cup {Committed(SystemDefault, FirstForm)}
          /\ form'[SystemDefault] = FirstForm
      BY <2>1, <3>2 DEF row
    <3> QED
      BY <2>3, <3>2, <3>3, <3>4, <3>5
         DEF FormsGrow, Exists, FormsTypeOK, FormRow, CommittedInv, DefaultIsThere
  <2> QED
    BY <2>2, <2>3
<1>3. ASSUME NEW new \in Forms, NEW source \in Forms, CloneForm(new, source)
      PROVE  FormsGrow
  <2> DEFINE row == [version |-> 1, rows |-> form[source].rows, isActive |-> TRUE]
  <2>1. row \in FormRow /\ row.isActive
    BY <1>3 DEF CloneForm, Exists, FormRow, FormsTypeOK
  <2>2. /\ form' = [form EXCEPT ![new] = row]
        /\ whole' = whole \cup {Committed(new, form'[new])}
        /\ \A h \in whole : h.form # new
    BY <1>3 DEF CloneForm
  <2>3. Committed(new, row).form = new /\ row # Missing
    <3>1. row # Missing
      <4> HIDE DEF row
      <4> QED BY Zenon, <2>1, MissingAssumption
    <3> HIDE DEF row
    <3> QED
      BY <2>1, <3>1, CommittedIs
  <2> HIDE DEF row
  <2>4. ~Exists(new)
    <3>1. Exists(new) => Committed(new, form[new]) \in whole /\ form[new] \in FormRow
      BY DEF CommittedInv, Exists, FormsTypeOK
    <3> QED
      BY <2>2, <3>1, CommittedIs
  <2>5. /\ form'[new] = row /\ \A f \in Forms \ {new} : form'[f] = form[f]
    BY <2>2 DEF FormsTypeOK
  <2>6. whole' = whole \cup {Committed(new, row)}
    BY <2>2, <2>5
  <2> QED
    BY <2>1, <2>2, <2>3, <2>4, <2>5, <2>6
       DEF FormsGrow, Exists, FormsTypeOK, FormRow, CommittedInv, DefaultIsThere
<1>4. ASSUME NEW f \in Forms, NEW archived \in BOOLEAN, SetTemplateArchived(f, archived)
      PROVE  FormsGrow
  <2> DEFINE row == [form[f] EXCEPT !.isActive = ~archived]
  <2>1. /\ row \in FormRow /\ form[f] \in FormRow
        /\ row.version = form[f].version /\ row.rows = form[f].rows
    BY <1>4 DEF SetTemplateArchived, Exists, FormRow, FormsTypeOK
  <2>2. form' = [form EXCEPT ![f] = row] /\ f # SystemDefault /\ Exists(f) /\ UNCHANGED whole
    BY <1>4 DEF SetTemplateArchived
  <2> HIDE DEF row
  <2>3. Committed(f, row) = Committed(f, form[f])
    BY <2>1 DEF Committed
  <2>4. form'[f] = row /\ \A g \in Forms \ {f} : form'[g] = form[g]
    BY <2>2 DEF FormsTypeOK
  <2>5. row # Missing
    BY Zenon, <2>1, MissingAssumption
  <2> QED
    BY <2>1, <2>2, <2>3, <2>4, <2>5, FormsAssumption
       DEF FormsGrow, Exists, FormsTypeOK, FormRow, CommittedInv, DefaultIsThere
<1>5. ASSUME NEW d \in Departments, DeleteDepartment(d) PROVE FormsGrow
  <2>1. UNCHANGED <<form, whole>>
    BY <1>5 DEF DeleteDepartment, Change
  <2> QED
    BY <2>1, UnchangedFormsGrow
<1>6. ASSUME NEW d \in Departments, NEW x \in BOOLEAN, SetDepartmentActive(d, x)
      PROVE  FormsGrow
  <2>1. UNCHANGED <<form, whole>>
    BY <1>6 DEF SetDepartmentActive, Change
  <2> QED
    BY <2>1, UnchangedFormsGrow
<1>7. ASSUME NEW c \in Categories, DeleteCategory(c) PROVE FormsGrow
  <2>1. UNCHANGED <<form, whole>>
    BY <1>7 DEF DeleteCategory, Change
  <2> QED
    BY <2>1, UnchangedFormsGrow
<1>8. ASSUME NEW c \in Categories, NEW x \in BOOLEAN, SetCategoryActive(c, x)
      PROVE  FormsGrow
  <2>1. UNCHANGED <<form, whole>>
    BY <1>8 DEF SetCategoryActive, Change
  <2> QED
    BY <2>1, UnchangedFormsGrow
<1>9. ASSUME NEW j \in Jobs, NEW f \in Forms, NEW keys \in SUBSET FieldKeys, DeleteFields(j, f, keys)
      PROVE  FormsGrow
  <2>1. UNCHANGED <<form, whole>>
    BY <1>9 DEF DeleteFields, Take
  <2> QED
    BY <2>1, UnchangedFormsGrow
<1>10. ASSUME NEW j \in Jobs, NEW f \in Forms, NEW heir \in Forms \cup {Missing}, CheckUsage(j, f, heir)
      PROVE  FormsGrow
  <2>1. UNCHANGED <<form, whole>>
    BY <1>10 DEF CheckUsage, Change, Take
  <2> QED
    BY <2>1, UnchangedFormsGrow
<1>11. ASSUME NEW j \in Jobs, NEW d \in Departments, NEW f \in Forms \cup {Missing}, CheckAssignment(j, "default", d, f)
      PROVE  FormsGrow
  <2>1. UNCHANGED <<form, whole>>
    BY <1>11 DEF CheckAssignment, Change, Take
  <2> QED
    BY <2>1, UnchangedFormsGrow
<1>12. ASSUME NEW j \in Jobs, NEW c \in Categories, NEW f \in Forms \cup {Missing}, CheckAssignment(j, "override", c, f)
      PROVE  FormsGrow
  <2>1. UNCHANGED <<form, whole>>
    BY <1>12 DEF CheckAssignment, Change, Take
  <2> QED
    BY <2>1, UnchangedFormsGrow
<1>13. ASSUME NEW j \in Jobs, NEW c \in Categories, NEW d \in Departments, CheckMove(j, c, d)
      PROVE  FormsGrow
  <2>1. UNCHANGED <<form, whole>>
    BY <1>13 DEF CheckMove, Change, Take
  <2> QED
    BY <2>1, UnchangedFormsGrow
<1>14. ASSUME NEW j \in Jobs, CommitSave(j) PROVE FormsGrow
  <2> PICK f \in Forms : f = job[j].form
    BY <1>14, JobsAre DEF CommitSave, Doing, FormsTypeOK
  <2> DEFINE rows == RowsAfter(f, job[j].seen, job[j].new)
             version == form[f].version + 1
             row == [form[f] EXCEPT !.rows = rows, !.version = version]
  <2>1. form[f] \in FormRow /\ job[j].new \in SUBSET FieldRow /\ Exists(f)
    BY <1>14, JobsAre DEF CommitSave, Doing, Exists, FormsTypeOK
  <2>2. rows \in SUBSET FieldRow /\ version \in Nat /\ version >= form[f].version
    BY <2>1 DEF RowsAfter, FormRow
  <2>3. /\ form' = [form EXCEPT ![f] = row]
        /\ whole' = whole \cup {Committed(f, form'[f])}
    BY Zenon, <1>14 DEF CommitSave, Finish
  <2>4. row \in FormRow /\ row.version = version /\ (row.isActive <=> form[f].isActive)
    <3> HIDE DEF rows, version
    <3> QED BY <2>1, <2>2 DEF FormRow
  <2> HIDE DEF row, version
  <2>5. Committed(f, row).form = f /\ row # Missing
    <3>1. row # Missing
      BY Zenon, <2>4, MissingAssumption
    <3> QED
      BY <2>4, <3>1, CommittedIs
  <2>6. form'[f] = row /\ \A g \in Forms \ {f} : form'[g] = form[g]
    BY <2>3 DEF FormsTypeOK
  <2>7. whole' = whole \cup {Committed(f, row)}
    BY <2>3, <2>6
  <2>8. row.version >= form[f].version
    BY <2>2, <2>4
  <2>9. form'[SystemDefault] # Missing => form'[SystemDefault].isActive
    <3>1. CASE f = SystemDefault
      <4>1. form[f].isActive
        BY <2>1, <3>1 DEF DefaultIsThere
      <4> QED
        BY <2>4, <2>6, <3>1, <4>1
    <3>2. CASE f # SystemDefault
      BY <2>6, <3>2, FormsAssumption DEF DefaultIsThere, Exists
    <3> QED
      BY <3>1, <3>2
  <2>10. \A g \in Forms : Exists(g) => form[g].version \in Nat
    BY DEF FormsTypeOK, Exists, FormRow
  <2> HIDE DEF rows
  <2>11. \A g \in Forms : form'[g] # Missing => Committed(g, form'[g]) \in whole'
    BY <2>6, <2>7 DEF CommittedInv, Exists
  <2>12. \A g \in Forms : Exists(g) /\ form'[g] # Missing => form'[g].version >= form[g].version
    BY <2>6, <2>8, <2>10 DEF Exists
  <2>13. \A g \in Forms : ~Exists(g) => form'[g] = Missing
    BY <2>1, <2>6 DEF Exists
  <2>14. Exists(SystemDefault) => form'[SystemDefault] # Missing
    BY <2>5, <2>6, FormsAssumption DEF Exists
  <2>15. \A h \in whole' : h.form = SystemDefault => form'[SystemDefault] # Missing
    BY <2>1, <2>5, <2>6, <2>7, <2>14 DEF DefaultIsThere, Exists
  <2> QED
    BY <2>7, <2>9, <2>11, <2>12, <2>13, <2>14, <2>15 DEF FormsGrow, Exists
<1>15. ASSUME NEW j \in Jobs, HardDelete(j) PROVE FormsGrow
  <2> PICK f \in Forms : f = job[j].form /\ f # SystemDefault
    BY <1>15, JobsAre DEF HardDelete, Doing, FormsTypeOK
  <2>1. form' = [form EXCEPT ![f] = Missing] /\ UNCHANGED whole
    BY Zenon, <1>15 DEF HardDelete
  <2>2. form'[f] = Missing /\ \A g \in Forms \ {f} : form'[g] = form[g]
    BY <2>1 DEF FormsTypeOK
  <2> QED
    BY <2>1, <2>2, FormsAssumption
       DEF FormsGrow, Exists, FormsTypeOK, FormRow, CommittedInv, DefaultIsThere
<1>16. ASSUME NEW j \in Jobs, AssignDefault(j) PROVE FormsGrow
  <2>1. UNCHANGED <<form, whole>>
    BY <1>16 DEF AssignDefault, Finish
  <2> QED
    BY <2>1, UnchangedFormsGrow
<1>17. ASSUME NEW j \in Jobs, AssignOverride(j) PROVE FormsGrow
  <2>1. UNCHANGED <<form, whole>>
    BY <1>17 DEF AssignOverride, Finish
  <2> QED
    BY <2>1, UnchangedFormsGrow
<1>18. ASSUME NEW j \in Jobs, MoveCategory(j) PROVE FormsGrow
  <2>1. UNCHANGED <<form, whole>>
    BY <1>18 DEF MoveCategory, Finish
  <2> QED
    BY <2>1, UnchangedFormsGrow
<1>19. ASSUME NEW j \in Jobs, EndJob(j) PROVE FormsGrow
  <2>1. UNCHANGED <<form, whole>>
    BY <1>19 DEF EndJob, Finish
  <2> QED
    BY <2>1, UnchangedFormsGrow
<1>20. ASSUME NEW s \in Submissions, NEW d \in Departments, NEW c \in Categories \cup {Missing}, ReadDepartment(s, d, c)
      PROVE  FormsGrow
  <2>1. UNCHANGED <<form, whole>>
    BY <1>20 DEF ReadDepartment
  <2> QED
    BY <2>1, UnchangedFormsGrow
<1>21. ASSUME NEW s \in Submissions, ReadCategory(s) PROVE FormsGrow
  <2> DEFINE row == form'[SystemDefault]
  <2>1. whole' = whole \cup {Committed(SystemDefault, row)}
    BY <1>21 DEF ReadCategory, EnsureSystemDefault
  <2>2. CASE Exists(SystemDefault)
    <3>1. UNCHANGED form
      BY <2>2, <1>21 DEF ReadCategory, EnsureSystemDefault
    <3>2. Committed(SystemDefault, row) \in whole
      BY <2>2, <3>1, FormsAssumption DEF CommittedInv
    <3>3. whole' = whole
      BY <2>1, <3>2
    <3> QED
      BY <3>1, <3>3, UnchangedFormsGrow
  <2>3. CASE ~Exists(SystemDefault)
    <3>1. form' = [form EXCEPT ![SystemDefault] = FirstForm]
      BY <2>3, <1>21 DEF ReadCategory, EnsureSystemDefault
    <3>2. /\ row = FirstForm /\ Exists(SystemDefault)'
          /\ \A f \in Forms \ {SystemDefault} : form'[f] = form[f]
      BY <3>1, FirstFormIsTyped, FormsAssumption DEF FormsTypeOK, Exists
    <3>3. /\ Committed(SystemDefault, FirstForm).form = SystemDefault
          /\ FirstForm.isActive
      BY FirstFormIsTyped, CommittedIs, FormsAssumption
    <3> HIDE DEF row
    <3>4. \A h \in whole : h.form # SystemDefault
      BY <2>3 DEF DefaultIsThere
    <3>5. /\ whole' = whole \cup {Committed(SystemDefault, FirstForm)}
          /\ form'[SystemDefault] = FirstForm
      BY <2>1, <3>2 DEF row
    <3> QED
      BY <2>3, <3>2, <3>3, <3>4, <3>5
         DEF FormsGrow, Exists, FormsTypeOK, FormRow, CommittedInv, DefaultIsThere
  <2> QED
    BY <2>2, <2>3
<1>22. ASSUME NEW s \in Submissions, ReadTemplates(s) PROVE FormsGrow
  <2>1. UNCHANGED <<form, whole>>
    BY <1>22 DEF ReadTemplates
  <2> QED
    BY <2>1, UnchangedFormsGrow
<1>23. ASSUME NEW s \in Submissions, ReadFields(s) PROVE FormsGrow
  <2>1. UNCHANGED <<form, whole>>
    BY <1>23 DEF ReadFields
  <2> QED
    BY <2>1, UnchangedFormsGrow
<1>24. ASSUME NEW s \in Submissions, FileTicket(s) PROVE FormsGrow
  <2>1. UNCHANGED <<form, whole>>
    BY <1>24 DEF FileTicket
  <2> QED
    BY <2>1, UnchangedFormsGrow
<1>25. ASSUME NEW s \in Submissions, Refuse(s) PROVE FormsGrow
  <2>1. UNCHANGED <<form, whole>>
    BY <1>25 DEF Refuse
  <2> QED
    BY <2>1, UnchangedFormsGrow
<1> QED
  BY <1>1, <1>2, <1>3, <1>4, <1>5, <1>6, <1>7, <1>8, <1>9, <1>10, <1>11, <1>12, <1>13,
     <1>14, <1>15, <1>16, <1>17, <1>18, <1>19, <1>20, <1>21, <1>22, <1>23, <1>24, <1>25
     DEF FormsNext

-----------------------------------------------------------------------------
(* What a submission has read.                                             *)

(* It is of a template that was committed and, while that one is there,    *)
(* of a field list of it that is no older than the version that was read.  *)
Sound(s) ==
  /\ Reached(s, "category") =>
       Exists(SystemDefault) /\ form[SystemDefault].version >= resolving[s].systemVersion
  /\ Reached(s, "template") \/ Reached(s, "read") => \E h \in whole : h.form = resolving[s].form
  /\ Reached(s, "template") /\ Exists(resolving[s].form) =>
       form[resolving[s].form].version >= resolving[s].version
  /\ Reached(s, "read") /\ Exists(resolving[s].form) =>
       \E h \in whole :
         /\ h.form = resolving[s].form /\ h.rows = resolving[s].rows
         /\ h.version >= resolving[s].version

ResolvingInv == \A s \in Submissions : Sound(s)

LEMMA SoundStays ==
  ASSUME FormsTypeOK, FormsTypeOK', ResolvingInv, FormsGrow,
         NEW s \in Submissions, resolving'[s] = resolving[s]
  PROVE  Sound(s)'
<1> DEFINE was == resolving[s]
<1>1. CASE Reached(s, "category")
  <2>1. /\ was \in Resolving /\ was.stage = "category" /\ was # Missing
        /\ form[SystemDefault] # Missing /\ form[SystemDefault].version >= was.systemVersion
    BY <1>1 DEF Reached, FormsTypeOK, ResolvingInv, Sound, Exists
  <2>2. was.systemVersion \in Nat
    BY <2>1, ResolvingIs
  <2>3. /\ form'[SystemDefault] # Missing
        /\ form'[SystemDefault].version >= form[SystemDefault].version
    BY <2>1, FormsAssumption DEF FormsGrow, Exists
  <2>4. form[SystemDefault].version \in Nat /\ form'[SystemDefault].version \in Nat
    BY <2>1, <2>3, FormsAssumption DEF FormsTypeOK, FormRow
  <2>5. form'[SystemDefault].version >= was.systemVersion
    <3> HIDE DEF was
    <3> QED
      BY <2>1, <2>2, <2>3, <2>4
  <2> QED
    BY <2>1, <2>3, <2>5 DEF Sound, Reached, Exists
<1>2. CASE Reached(s, "template") \/ Reached(s, "read")
  <2>1. /\ was \in Resolving /\ was.stage \in {"template", "read"} /\ was # Missing
        /\ \E h \in whole : h.form = was.form
    BY <1>2 DEF Reached, FormsTypeOK, ResolvingInv, Sound
  <2>2. was.form \in Forms /\ was.version \in Nat
    BY <2>1, ResolvingIs
  <2>3. form'[was.form] # Missing => form[was.form] # Missing
    BY <2>1, <2>2 DEF FormsGrow, Exists
  <2>4. was.stage = "template" /\ form'[was.form] # Missing => form'[was.form].version >= was.version
    <3> SUFFICES ASSUME was.stage = "template", form'[was.form] # Missing
                 PROVE  form'[was.form].version >= was.version
      OBVIOUS
    <3>1. /\ form[was.form].version >= was.version
          /\ form'[was.form].version >= form[was.form].version
      BY <2>1, <2>2, <2>3 DEF ResolvingInv, Sound, Reached, FormsGrow, Exists
    <3>2. form[was.form].version \in Nat /\ form'[was.form].version \in Nat
      BY <2>2, <2>3 DEF FormsTypeOK, FormRow
    <3> HIDE DEF was
    <3> QED
      BY <2>2, <3>1, <3>2
  <2>5. was.stage = "read" /\ form'[was.form] # Missing =>
          \E h \in whole' :
            h.form = was.form /\ h.rows = was.rows /\ h.version >= was.version
    BY <2>1, <2>3 DEF ResolvingInv, Sound, Reached, FormsGrow, Exists
  <2>6. \E h \in whole' : h.form = was.form
    BY <2>1 DEF FormsGrow
  <2> QED
    BY <2>1, <2>4, <2>5, <2>6 DEF Sound, Reached, Exists
<1>3. CASE ~Reached(s, "category") /\ ~Reached(s, "template") /\ ~Reached(s, "read")
  BY <1>3 DEF Sound, Reached
<1> QED
  BY <1>1, <1>2, <1>3

LEMMA ReadingsStay ==
  ASSUME FormsTypeOK, FormsTypeOK', ResolvingInv, FormsGrow, UNCHANGED resolving
  PROVE  ResolvingInv'
BY SoundStays DEF ResolvingInv

LEMMA OneReading ==
  ASSUME FormsTypeOK, FormsTypeOK', ResolvingInv, FormsGrow, NEW s \in Submissions, Sound(s)',
         \A u \in Submissions \ {s} : resolving'[u] = resolving[u]
  PROVE  ResolvingInv'
BY SoundStays DEF ResolvingInv

LEMMA ResolvingStep ==
  ASSUME FormsTypeOK, FormsTypeOK', DefaultIsThere, CommittedInv, ResolvingInv, FormsGrow,
         [FormsNext]_formVars
  PROVE  ResolvingInv'
<1>1. CASE UNCHANGED formVars
  <2>1. UNCHANGED resolving
    BY <1>1
  <2> QED
    BY <2>1, ReadingsStay
<1>2. CASE EnsureSystemDefault /\ UNCHANGED <<department, category, job, resolving, filed, saves, changes>>
  <2>1. UNCHANGED resolving
    BY <1>2 DEF EnsureSystemDefault
  <2> QED
    BY <2>1, ReadingsStay
<1>3. ASSUME NEW new \in Forms, NEW source \in Forms, CloneForm(new, source)
      PROVE  ResolvingInv'
  <2>1. UNCHANGED resolving
    BY <1>3 DEF CloneForm, Change
  <2> QED
    BY <2>1, ReadingsStay
<1>4. ASSUME NEW f \in Forms, NEW archived \in BOOLEAN, SetTemplateArchived(f, archived)
      PROVE  ResolvingInv'
  <2>1. UNCHANGED resolving
    BY <1>4 DEF SetTemplateArchived, Change
  <2> QED
    BY <2>1, ReadingsStay
<1>5. ASSUME NEW d \in Departments, DeleteDepartment(d) PROVE ResolvingInv'
  <2>1. UNCHANGED resolving
    BY <1>5 DEF DeleteDepartment, Change
  <2> QED
    BY <2>1, ReadingsStay
<1>6. ASSUME NEW d \in Departments, NEW x \in BOOLEAN, SetDepartmentActive(d, x)
      PROVE  ResolvingInv'
  <2>1. UNCHANGED resolving
    BY <1>6 DEF SetDepartmentActive, Change
  <2> QED
    BY <2>1, ReadingsStay
<1>7. ASSUME NEW c \in Categories, DeleteCategory(c) PROVE ResolvingInv'
  <2>1. UNCHANGED resolving
    BY <1>7 DEF DeleteCategory, Change
  <2> QED
    BY <2>1, ReadingsStay
<1>8. ASSUME NEW c \in Categories, NEW x \in BOOLEAN, SetCategoryActive(c, x)
      PROVE  ResolvingInv'
  <2>1. UNCHANGED resolving
    BY <1>8 DEF SetCategoryActive, Change
  <2> QED
    BY <2>1, ReadingsStay
<1>9. ASSUME NEW j \in Jobs, NEW f \in Forms, NEW keys \in SUBSET FieldKeys, DeleteFields(j, f, keys)
      PROVE  ResolvingInv'
  <2>1. UNCHANGED resolving
    BY <1>9 DEF DeleteFields, Take
  <2> QED
    BY <2>1, ReadingsStay
<1>10. ASSUME NEW j \in Jobs, NEW f \in Forms, NEW heir \in Forms \cup {Missing}, CheckUsage(j, f, heir)
      PROVE  ResolvingInv'
  <2>1. UNCHANGED resolving
    BY <1>10 DEF CheckUsage, Change, Take
  <2> QED
    BY <2>1, ReadingsStay
<1>11. ASSUME NEW j \in Jobs, NEW d \in Departments, NEW f \in Forms \cup {Missing}, CheckAssignment(j, "default", d, f)
      PROVE  ResolvingInv'
  <2>1. UNCHANGED resolving
    BY <1>11 DEF CheckAssignment, Change, Take
  <2> QED
    BY <2>1, ReadingsStay
<1>12. ASSUME NEW j \in Jobs, NEW c \in Categories, NEW f \in Forms \cup {Missing}, CheckAssignment(j, "override", c, f)
      PROVE  ResolvingInv'
  <2>1. UNCHANGED resolving
    BY <1>12 DEF CheckAssignment, Change, Take
  <2> QED
    BY <2>1, ReadingsStay
<1>13. ASSUME NEW j \in Jobs, NEW c \in Categories, NEW d \in Departments, CheckMove(j, c, d)
      PROVE  ResolvingInv'
  <2>1. UNCHANGED resolving
    BY <1>13 DEF CheckMove, Change, Take
  <2> QED
    BY <2>1, ReadingsStay
<1>14. ASSUME NEW j \in Jobs, CommitSave(j) PROVE ResolvingInv'
  <2>1. UNCHANGED resolving
    BY <1>14 DEF CommitSave, Finish
  <2> QED
    BY <2>1, ReadingsStay
<1>15. ASSUME NEW j \in Jobs, HardDelete(j) PROVE ResolvingInv'
  <2>1. UNCHANGED resolving
    BY <1>15 DEF HardDelete, Finish
  <2> QED
    BY <2>1, ReadingsStay
<1>16. ASSUME NEW j \in Jobs, AssignDefault(j) PROVE ResolvingInv'
  <2>1. UNCHANGED resolving
    BY <1>16 DEF AssignDefault, Finish
  <2> QED
    BY <2>1, ReadingsStay
<1>17. ASSUME NEW j \in Jobs, AssignOverride(j) PROVE ResolvingInv'
  <2>1. UNCHANGED resolving
    BY <1>17 DEF AssignOverride, Finish
  <2> QED
    BY <2>1, ReadingsStay
<1>18. ASSUME NEW j \in Jobs, MoveCategory(j) PROVE ResolvingInv'
  <2>1. UNCHANGED resolving
    BY <1>18 DEF MoveCategory, Finish
  <2> QED
    BY <2>1, ReadingsStay
<1>19. ASSUME NEW j \in Jobs, EndJob(j) PROVE ResolvingInv'
  <2>1. UNCHANGED resolving
    BY <1>19 DEF EndJob, Finish
  <2> QED
    BY <2>1, ReadingsStay
<1>20. ASSUME NEW s \in Submissions, NEW d \in Departments, NEW c \in Categories \cup {Missing}, ReadDepartment(s, d, c)
      PROVE  ResolvingInv'
  <2>1. resolving'[s].stage = "department" /\ \A u \in Submissions \ {s} : resolving'[u] = resolving[u]
    BY <1>20 DEF ReadDepartment, FormsTypeOK
  <2>2. Sound(s)'
    BY <2>1 DEF Sound, Reached
  <2> QED
    BY <2>1, <2>2, OneReading
<1>21. ASSUME NEW s \in Submissions, ReadCategory(s) PROVE ResolvingInv'
  <2>1. /\ resolving'[s].stage = "category" /\ resolving'[s].systemVersion = form'[SystemDefault].version
        /\ \A u \in Submissions \ {s} : resolving'[u] = resolving[u]
    BY <1>21 DEF ReadCategory, FormsTypeOK
  <2>2. form'[SystemDefault] # Missing
    <3>1. CASE Exists(SystemDefault)
      BY <3>1, <1>21 DEF ReadCategory, EnsureSystemDefault, Exists
    <3>2. CASE ~Exists(SystemDefault)
      BY <3>2, <1>21, FirstFormIsTyped, FormsAssumption
         DEF ReadCategory, EnsureSystemDefault, FormsTypeOK
    <3> QED
      BY <3>1, <3>2
  <2>3. form'[SystemDefault].version \in Nat
    BY <2>2, FormsAssumption DEF FormsTypeOK, FormRow
  <2>4. Sound(s)'
    BY <2>1, <2>2, <2>3 DEF Sound, Reached, Exists
  <2> QED
    BY <2>1, <2>4, OneReading
<1>22. ASSUME NEW s \in Submissions, ReadTemplates(s) PROVE ResolvingInv'
  <2> DEFINE was == resolving[s]
             chosen == ChooseEffectiveTemplate(was.override, was.default)
             isFallback == ~IsEffective(was.override) /\ ~IsEffective(was.default)
             stage == IF isFallback THEN "read" ELSE "template"
             version == IF isFallback THEN was.systemVersion ELSE form[chosen].version
             held == [stage |-> stage, department |-> was.department, category |-> was.category,
                      form |-> chosen, version |-> version, rows |-> form[SystemDefault].rows]
  <2>1. /\ was \in Resolving /\ was # Missing /\ was.stage = "category"
        /\ UNCHANGED <<form, whole>>
    BY <1>22 DEF ReadTemplates, Reached, FormsTypeOK
  <2>2. resolving' = [resolving EXCEPT ![s] = held]
    BY Zenon, <1>22 DEF ReadTemplates
  <2>3. resolving'[s] = held /\ \A u \in Submissions \ {s} : resolving'[u] = resolving[u]
    <3> HIDE DEF held
    <3> QED
      BY <2>2 DEF FormsTypeOK
  <2>4. /\ Exists(SystemDefault) /\ form[SystemDefault].version >= was.systemVersion
        /\ Committed(SystemDefault, form[SystemDefault]) \in whole
        /\ form[SystemDefault] \in FormRow
    BY <2>1, FormsAssumption DEF ResolvingInv, Sound, Reached, CommittedInv, Exists, FormsTypeOK
  <2>5. CASE isFallback
    <3>1. chosen = SystemDefault /\ stage = "read" /\ version = was.systemVersion
      BY <2>5 DEF ChooseEffectiveTemplate
    <3> PICK h \in whole : h = Committed(SystemDefault, form[SystemDefault])
      BY <2>4
    <3>2. /\ h.form = SystemDefault /\ h.rows = form[SystemDefault].rows
          /\ h.version = form[SystemDefault].version
      BY <2>4, CommittedIs, FormsAssumption
    <3>3. /\ held.stage = "read" /\ held.form = SystemDefault
          /\ held.rows = form[SystemDefault].rows /\ held.version = was.systemVersion
      BY <3>1
    <3> HIDE DEF held, was
    <3>4. Sound(s)'
      BY <2>1, <2>3, <2>4, <3>2, <3>3 DEF Sound, Reached
    <3> QED
      BY <2>3, <3>4, OneReading
  <2>6. CASE ~isFallback
    <3>1. /\ chosen \in Forms /\ Exists(chosen) /\ stage = "template"
          /\ version = form[chosen].version
      BY <2>1, <2>6, ResolvingIs DEF ChooseEffectiveTemplate, IsEffective
    <3> HIDE DEF chosen, was
    <3>2. Committed(chosen, form[chosen]) \in whole /\ form[chosen] \in FormRow
      BY <3>1 DEF CommittedInv, Exists, FormsTypeOK
    <3>3. Committed(chosen, form[chosen]).form = chosen /\ form[chosen].version \in Nat
      BY <3>1, <3>2, CommittedIs DEF FormRow
    <3>4. /\ held.stage = "template" /\ held.form = chosen /\ held.version = form[chosen].version
      BY <3>1
    <3> HIDE DEF held
    <3>5. Sound(s)'
      BY <2>1, <2>3, <3>2, <3>3, <3>4 DEF Sound, Reached
    <3> QED
      BY <2>3, <3>5, OneReading
  <2> QED
    BY <2>5, <2>6
<1>23. ASSUME NEW s \in Submissions, ReadFields(s) PROVE ResolvingInv'
  <2> DEFINE was == resolving[s]
             rows == IF Exists(was.form) THEN form[was.form].rows ELSE {}
             held == [was EXCEPT !.stage = "read", !.rows = rows]
  <2>1. /\ was \in Resolving /\ was # Missing /\ was.stage = "template"
        /\ UNCHANGED <<form, whole>>
    BY <1>23 DEF ReadFields, Reached, FormsTypeOK
  <2>2. resolving' = [resolving EXCEPT ![s] = held]
    BY Zenon, <1>23 DEF ReadFields
  <2>3. resolving'[s] = held /\ \A u \in Submissions \ {s} : resolving'[u] = resolving[u]
    <3> HIDE DEF held
    <3> QED
      BY <2>2 DEF FormsTypeOK
  <2>4. /\ held.stage = "read" /\ held.rows = rows
        /\ held.form = was.form /\ held.version = was.version
    <3> HIDE DEF rows
    <3> QED
      BY <2>1 DEF Resolving
  <2>5. /\ was.form \in Forms /\ \E h \in whole : h.form = was.form
        /\ Exists(was.form) => form[was.form].version >= was.version
    BY <2>1, ResolvingIs DEF ResolvingInv, Sound, Reached
  <2>6. Exists(was.form) =>
          /\ Committed(was.form, form[was.form]) \in whole
          /\ Committed(was.form, form[was.form]).form = was.form
          /\ Committed(was.form, form[was.form]).rows = rows
          /\ Committed(was.form, form[was.form]).version = form[was.form].version
    BY <2>5, CommittedIs DEF CommittedInv, Exists, FormsTypeOK
  <2> HIDE DEF held, was, rows
  <2>7. Sound(s)'
    BY <2>1, <2>3, <2>4, <2>5, <2>6 DEF Sound, Reached, Exists
  <2> QED
    BY <2>3, <2>7, OneReading
<1>24. ASSUME NEW s \in Submissions, FileTicket(s) PROVE ResolvingInv'
  <2>1. resolving'[s] = Missing /\ \A u \in Submissions \ {s} : resolving'[u] = resolving[u]
    BY <1>24 DEF FileTicket, FormsTypeOK
  <2>2. Sound(s)'
    BY <2>1 DEF Sound, Reached
  <2> QED
    BY <2>1, <2>2, OneReading
<1>25. ASSUME NEW s \in Submissions, Refuse(s) PROVE ResolvingInv'
  <2>1. resolving'[s] = Missing /\ \A u \in Submissions \ {s} : resolving'[u] = resolving[u]
    BY <1>25 DEF Refuse, FormsTypeOK
  <2>2. Sound(s)'
    BY <2>1 DEF Sound, Reached
  <2> QED
    BY <2>1, <2>2, OneReading
<1> QED
  BY <1>1, <1>2, <1>3, <1>4, <1>5, <1>6, <1>7, <1>8, <1>9, <1>10, <1>11, <1>12, <1>13,
     <1>14, <1>15, <1>16, <1>17, <1>18, <1>19, <1>20, <1>21, <1>22, <1>23, <1>24, <1>25
     DEF FormsNext

-----------------------------------------------------------------------------
(* What tickets refer to.                                                  *)

(* Nothing is replaced by itself.                                          *)
JobsInv == \A j \in Jobs : Doing(j, "delete") => job[j].replacement # job[j].form

(* Nothing goes that a ticket refers to, nor a form that is assigned.      *)
PlacesKept ==
  /\ UNCHANGED filed
  /\ \A f \in Forms : Exists(f) /\ form'[f] = Missing => FiledWith(f) = {}
  /\ \A d \in Departments : department[d] # Missing /\ department'[d] = Missing => FiledIn(d) = {}
  /\ \A c \in Categories : category[c] # Missing /\ category'[c] = Missing => FiledUnder(c) = {}
  /\ \A d \in Departments : department'[d] # Missing /\ department'[d].form # Missing =>
       form'[department'[d].form] # Missing

LEMMA PlacesUnchanged ==
  ASSUME FormsTypeOK, SnapshotsAreWhole, UNCHANGED <<department, category, filed>>,
         \A f \in Forms : Exists(f) => form'[f] # Missing
  PROVE  PlacesKept
<1>1. \A d \in Departments : department[d] # Missing => department[d].form \in Forms \cup {Missing}
  BY DEF FormsTypeOK, DepartmentRow
<1> QED
  BY <1>1 DEF PlacesKept, SnapshotsAreWhole, Exists

LEMMA KeptPlacesAreWhole ==
  ASSUME FormsTypeOK, SnapshotsAreWhole, FormsGrow, PlacesKept
  PROVE  SnapshotsAreWhole'
<1>1. ASSUME NEW s \in Submissions, filed[s] # Missing
      PROVE  /\ \E h \in whole' : /\ h.form = filed[s].form /\ h.rows = filed[s].rows
                                  /\ h.version >= filed[s].version
             /\ form'[filed[s].form] # Missing /\ department'[filed[s].department] # Missing
             /\ filed[s].category # Missing => category'[filed[s].category] # Missing
  <2>1. /\ filed[s].form \in Forms /\ filed[s].department \in Departments
        /\ filed[s].category \in Categories \cup {Missing}
    BY <1>1 DEF FormsTypeOK, Ticket
  <2>2. /\ \E h \in whole : /\ h.form = filed[s].form /\ h.rows = filed[s].rows
                            /\ h.version >= filed[s].version
        /\ Exists(filed[s].form) /\ department[filed[s].department] # Missing
        /\ filed[s].category # Missing => category[filed[s].category] # Missing
    BY <1>1 DEF SnapshotsAreWhole
  <2>3. form'[filed[s].form] # Missing
    BY <1>1, <2>1, <2>2 DEF PlacesKept, FiledWith
  <2>4. department'[filed[s].department] # Missing
    BY <1>1, <2>1, <2>2 DEF PlacesKept, FiledIn
  <2>5. filed[s].category # Missing => category'[filed[s].category] # Missing
    BY <1>1, <2>1, <2>2 DEF PlacesKept, FiledUnder
  <2> QED
    BY <2>2, <2>3, <2>4, <2>5 DEF FormsGrow
<1>2. form'[SystemDefault] # Missing => form'[SystemDefault].isActive
  BY DEF FormsGrow
<1>3. SystemDefault # Missing
  BY FormsAssumption, MissingAssumption
<1> QED
  BY <1>1, <1>2, <1>3 DEF SnapshotsAreWhole, PlacesKept, Exists, IsEffective

LEMMA JobsStep ==
  ASSUME FormsTypeOK, JobsInv, [FormsNext]_formVars
  PROVE  JobsInv'
<1>1. CASE UNCHANGED formVars
  BY <1>1 DEF JobsInv, Doing
<1>2. CASE EnsureSystemDefault /\ UNCHANGED <<department, category, job, resolving, filed, saves, changes>>
  <2>1. UNCHANGED job
    BY <1>2 DEF EnsureSystemDefault
  <2> QED
    BY <2>1 DEF JobsInv, Doing
<1>3. ASSUME NEW new \in Forms, NEW source \in Forms, CloneForm(new, source)
      PROVE  JobsInv'
  <2>1. UNCHANGED job
    BY <1>3 DEF CloneForm, Change
  <2> QED
    BY <2>1 DEF JobsInv, Doing
<1>4. ASSUME NEW f \in Forms, NEW archived \in BOOLEAN, SetTemplateArchived(f, archived)
      PROVE  JobsInv'
  <2>1. UNCHANGED job
    BY <1>4 DEF SetTemplateArchived, Change
  <2> QED
    BY <2>1 DEF JobsInv, Doing
<1>5. ASSUME NEW d \in Departments, DeleteDepartment(d) PROVE JobsInv'
  <2>1. UNCHANGED job
    BY <1>5 DEF DeleteDepartment, Change
  <2> QED
    BY <2>1 DEF JobsInv, Doing
<1>6. ASSUME NEW d \in Departments, NEW x \in BOOLEAN, SetDepartmentActive(d, x)
      PROVE  JobsInv'
  <2>1. UNCHANGED job
    BY <1>6 DEF SetDepartmentActive, Change
  <2> QED
    BY <2>1 DEF JobsInv, Doing
<1>7. ASSUME NEW c \in Categories, DeleteCategory(c) PROVE JobsInv'
  <2>1. UNCHANGED job
    BY <1>7 DEF DeleteCategory, Change
  <2> QED
    BY <2>1 DEF JobsInv, Doing
<1>8. ASSUME NEW c \in Categories, NEW x \in BOOLEAN, SetCategoryActive(c, x)
      PROVE  JobsInv'
  <2>1. UNCHANGED job
    BY <1>8 DEF SetCategoryActive, Change
  <2> QED
    BY <2>1 DEF JobsInv, Doing
<1>9. ASSUME NEW j \in Jobs, NEW f \in Forms, NEW keys \in SUBSET FieldKeys, DeleteFields(j, f, keys)
      PROVE  JobsInv'
  <2>1. job'[j].op = "save" /\ \A i \in Jobs \ {j} : job'[i] = job[i]
    BY <1>9 DEF DeleteFields, Take, FormsTypeOK
  <2> QED
    BY <2>1 DEF JobsInv, Doing
<1>10. ASSUME NEW j \in Jobs, NEW f \in Forms, NEW heir \in Forms \cup {Missing}, CheckUsage(j, f, heir)
      PROVE  JobsInv'
  <2>1. /\ job'[j].form = f /\ job'[j].replacement = heir
        /\ \A i \in Jobs \ {j} : job'[i] = job[i]
    BY <1>10 DEF CheckUsage, Take, FormsTypeOK
  <2>2. heir # f
    BY <1>10, MissingAssumption DEF CheckUsage
  <2> QED
    BY <2>1, <2>2 DEF JobsInv, Doing
<1>11. ASSUME NEW j \in Jobs, NEW d \in Departments, NEW f \in Forms \cup {Missing}, CheckAssignment(j, "default", d, f)
      PROVE  JobsInv'
  <2>1. job'[j].op = "default" /\ \A i \in Jobs \ {j} : job'[i] = job[i]
    BY <1>11 DEF CheckAssignment, Take, FormsTypeOK
  <2> QED
    BY <2>1 DEF JobsInv, Doing
<1>12. ASSUME NEW j \in Jobs, NEW c \in Categories, NEW f \in Forms \cup {Missing}, CheckAssignment(j, "override", c, f)
      PROVE  JobsInv'
  <2>1. job'[j].op = "override" /\ \A i \in Jobs \ {j} : job'[i] = job[i]
    BY <1>12 DEF CheckAssignment, Take, FormsTypeOK
  <2> QED
    BY <2>1 DEF JobsInv, Doing
<1>13. ASSUME NEW j \in Jobs, NEW c \in Categories, NEW d \in Departments, CheckMove(j, c, d)
      PROVE  JobsInv'
  <2>1. job'[j].op = "move" /\ \A i \in Jobs \ {j} : job'[i] = job[i]
    BY <1>13 DEF CheckMove, Take, FormsTypeOK
  <2> QED
    BY <2>1 DEF JobsInv, Doing
<1>14. ASSUME NEW j \in Jobs, CommitSave(j) PROVE JobsInv'
  <2>1. job'[j] = Missing /\ \A i \in Jobs \ {j} : job'[i] = job[i]
    BY <1>14 DEF CommitSave, Finish, FormsTypeOK
  <2> QED
    BY <2>1 DEF JobsInv, Doing
<1>15. ASSUME NEW j \in Jobs, HardDelete(j) PROVE JobsInv'
  <2>1. job'[j] = Missing /\ \A i \in Jobs \ {j} : job'[i] = job[i]
    BY <1>15 DEF HardDelete, Finish, FormsTypeOK
  <2> QED
    BY <2>1 DEF JobsInv, Doing
<1>16. ASSUME NEW j \in Jobs, AssignDefault(j) PROVE JobsInv'
  <2>1. job'[j] = Missing /\ \A i \in Jobs \ {j} : job'[i] = job[i]
    BY <1>16 DEF AssignDefault, Finish, FormsTypeOK
  <2> QED
    BY <2>1 DEF JobsInv, Doing
<1>17. ASSUME NEW j \in Jobs, AssignOverride(j) PROVE JobsInv'
  <2>1. job'[j] = Missing /\ \A i \in Jobs \ {j} : job'[i] = job[i]
    BY <1>17 DEF AssignOverride, Finish, FormsTypeOK
  <2> QED
    BY <2>1 DEF JobsInv, Doing
<1>18. ASSUME NEW j \in Jobs, MoveCategory(j) PROVE JobsInv'
  <2>1. job'[j] = Missing /\ \A i \in Jobs \ {j} : job'[i] = job[i]
    BY <1>18 DEF MoveCategory, Finish, FormsTypeOK
  <2> QED
    BY <2>1 DEF JobsInv, Doing
<1>19. ASSUME NEW j \in Jobs, EndJob(j) PROVE JobsInv'
  <2>1. job'[j] = Missing /\ \A i \in Jobs \ {j} : job'[i] = job[i]
    BY <1>19 DEF EndJob, Finish, FormsTypeOK
  <2> QED
    BY <2>1 DEF JobsInv, Doing
<1>20. ASSUME NEW s \in Submissions, NEW d \in Departments, NEW c \in Categories \cup {Missing}, ReadDepartment(s, d, c)
      PROVE  JobsInv'
  <2>1. UNCHANGED job
    BY <1>20 DEF ReadDepartment
  <2> QED
    BY <2>1 DEF JobsInv, Doing
<1>21. ASSUME NEW s \in Submissions, ReadCategory(s) PROVE JobsInv'
  <2>1. UNCHANGED job
    BY <1>21 DEF ReadCategory
  <2> QED
    BY <2>1 DEF JobsInv, Doing
<1>22. ASSUME NEW s \in Submissions, ReadTemplates(s) PROVE JobsInv'
  <2>1. UNCHANGED job
    BY <1>22 DEF ReadTemplates
  <2> QED
    BY <2>1 DEF JobsInv, Doing
<1>23. ASSUME NEW s \in Submissions, ReadFields(s) PROVE JobsInv'
  <2>1. UNCHANGED job
    BY <1>23 DEF ReadFields
  <2> QED
    BY <2>1 DEF JobsInv, Doing
<1>24. ASSUME NEW s \in Submissions, FileTicket(s) PROVE JobsInv'
  <2>1. UNCHANGED job
    BY <1>24 DEF FileTicket
  <2> QED
    BY <2>1 DEF JobsInv, Doing
<1>25. ASSUME NEW s \in Submissions, Refuse(s) PROVE JobsInv'
  <2>1. UNCHANGED job
    BY <1>25 DEF Refuse
  <2> QED
    BY <2>1 DEF JobsInv, Doing
<1> QED
  BY <1>1, <1>2, <1>3, <1>4, <1>5, <1>6, <1>7, <1>8, <1>9, <1>10, <1>11, <1>12, <1>13,
     <1>14, <1>15, <1>16, <1>17, <1>18, <1>19, <1>20, <1>21, <1>22, <1>23, <1>24, <1>25
     DEF FormsNext

LEMMA PlacesStep ==
  ASSUME FormsTypeOK, JobsInv, SnapshotsAreWhole, [FormsNext]_formVars
  PROVE  PlacesKept \/ \E u \in Submissions : FileTicket(u)
<1>1. CASE UNCHANGED formVars
  <2>1. UNCHANGED <<form, department, category, filed>>
    BY <1>1
  <2>2. \A f \in Forms : Exists(f) => form'[f] # Missing
    BY <2>1 DEF Exists
  <2> QED
    BY <2>1, <2>2, PlacesUnchanged
<1>2. CASE EnsureSystemDefault /\ UNCHANGED <<department, category, job, resolving, filed, saves, changes>>
  <2>1. UNCHANGED <<department, category, filed>>
    BY <1>2 DEF EnsureSystemDefault
  <2>2. \A g \in Forms : Exists(g) => form'[g] # Missing
    BY <1>2, FirstFormIsTyped DEF EnsureSystemDefault, Exists, FormsTypeOK
  <2> QED
    BY <2>1, <2>2, PlacesUnchanged
<1>3. ASSUME NEW new \in Forms, NEW source \in Forms, CloneForm(new, source)
      PROVE  PlacesKept \/ \E u \in Submissions : FileTicket(u)
  <2> DEFINE row == [version |-> 1, rows |-> form[source].rows, isActive |-> TRUE]
  <2>1. form' = [form EXCEPT ![new] = row] /\ UNCHANGED <<department, category, filed>>
    BY <1>3 DEF CloneForm
  <2>2. row \in FormRow
    BY <1>3 DEF CloneForm, Exists, FormRow, FormsTypeOK
  <2> HIDE DEF row
  <2>3. row # Missing
    BY Zenon, <2>2, MissingAssumption
  <2>4. \A g \in Forms : Exists(g) => form'[g] # Missing
    BY <2>1, <2>3 DEF Exists, FormsTypeOK
  <2> QED
    BY <2>1, <2>4, PlacesUnchanged
<1>4. ASSUME NEW f \in Forms, NEW archived \in BOOLEAN, SetTemplateArchived(f, archived)
      PROVE  PlacesKept \/ \E u \in Submissions : FileTicket(u)
  <2> DEFINE row == [form[f] EXCEPT !.isActive = ~archived]
  <2>1. form' = [form EXCEPT ![f] = row] /\ UNCHANGED <<department, category, filed>>
    BY <1>4 DEF SetTemplateArchived
  <2>2. row \in FormRow
    BY <1>4 DEF SetTemplateArchived, Exists, FormRow, FormsTypeOK
  <2> HIDE DEF row
  <2>3. row # Missing
    BY Zenon, <2>2, MissingAssumption
  <2>4. \A g \in Forms : Exists(g) => form'[g] # Missing
    BY <2>1, <2>3 DEF Exists, FormsTypeOK
  <2> QED
    BY <2>1, <2>4, PlacesUnchanged
<1>5. ASSUME NEW d \in Departments, DeleteDepartment(d) PROVE PlacesKept \/ \E u \in Submissions : FileTicket(u)
  BY <1>5 DEF DeleteDepartment, PlacesKept, FormsTypeOK, Exists, SnapshotsAreWhole
<1>6. ASSUME NEW d \in Departments, NEW x \in BOOLEAN, SetDepartmentActive(d, x)
      PROVE  PlacesKept \/ \E u \in Submissions : FileTicket(u)
  <2> DEFINE row == [department[d] EXCEPT !.isActive = x]
  <2>1. department' = [department EXCEPT ![d] = row] /\ department[d] # Missing
        /\ UNCHANGED <<form, category, filed>>
    BY <1>6 DEF SetDepartmentActive
  <2>2. row \in DepartmentRow /\ row.form = department[d].form
    BY <2>1 DEF DepartmentRow, FormsTypeOK
  <2>3. row # Missing
    <3> HIDE DEF row
    <3> QED BY Zenon, <2>2, MissingAssumption
  <2> HIDE DEF row
  <2> QED
    BY <2>1, <2>2, <2>3 DEF PlacesKept, FormsTypeOK, Exists, SnapshotsAreWhole
<1>7. ASSUME NEW c \in Categories, DeleteCategory(c) PROVE PlacesKept \/ \E u \in Submissions : FileTicket(u)
  BY <1>7 DEF DeleteCategory, PlacesKept, FormsTypeOK, Exists, SnapshotsAreWhole
<1>8. ASSUME NEW c \in Categories, NEW x \in BOOLEAN, SetCategoryActive(c, x)
      PROVE  PlacesKept \/ \E u \in Submissions : FileTicket(u)
  <2> DEFINE row == [category[c] EXCEPT !.isActive = x]
  <2>1. category' = [category EXCEPT ![c] = row] /\ category[c] # Missing
        /\ UNCHANGED <<form, department, filed>>
    BY <1>8 DEF SetCategoryActive
  <2>2. row \in CategoryRow
    BY <2>1 DEF CategoryRow, FormsTypeOK
  <2> HIDE DEF row
  <2>3. row # Missing
    BY Zenon, <2>2, MissingAssumption
  <2> QED
    BY <2>1, <2>2, <2>3 DEF PlacesKept, FormsTypeOK, Exists, SnapshotsAreWhole
<1>9. ASSUME NEW j \in Jobs, NEW f \in Forms, NEW keys \in SUBSET FieldKeys, DeleteFields(j, f, keys)
      PROVE  PlacesKept \/ \E u \in Submissions : FileTicket(u)
  <2>1. UNCHANGED <<form, department, category, filed>>
    BY <1>9 DEF DeleteFields, Take
  <2>2. \A g \in Forms : Exists(g) => form'[g] # Missing
    BY <2>1 DEF Exists
  <2> QED
    BY <2>1, <2>2, PlacesUnchanged
<1>10. ASSUME NEW j \in Jobs, NEW f \in Forms, NEW heir \in Forms \cup {Missing}, CheckUsage(j, f, heir)
      PROVE  PlacesKept \/ \E u \in Submissions : FileTicket(u)
  <2>1. UNCHANGED <<form, department, category, filed>>
    BY <1>10 DEF CheckUsage, Change, Take
  <2>2. \A g \in Forms : Exists(g) => form'[g] # Missing
    BY <2>1 DEF Exists
  <2> QED
    BY <2>1, <2>2, PlacesUnchanged
<1>11. ASSUME NEW j \in Jobs, NEW d \in Departments, NEW f \in Forms \cup {Missing}, CheckAssignment(j, "default", d, f)
      PROVE  PlacesKept \/ \E u \in Submissions : FileTicket(u)
  <2>1. UNCHANGED <<form, department, category, filed>>
    BY <1>11 DEF CheckAssignment, Change, Take
  <2>2. \A g \in Forms : Exists(g) => form'[g] # Missing
    BY <2>1 DEF Exists
  <2> QED
    BY <2>1, <2>2, PlacesUnchanged
<1>12. ASSUME NEW j \in Jobs, NEW c \in Categories, NEW f \in Forms \cup {Missing}, CheckAssignment(j, "override", c, f)
      PROVE  PlacesKept \/ \E u \in Submissions : FileTicket(u)
  <2>1. UNCHANGED <<form, department, category, filed>>
    BY <1>12 DEF CheckAssignment, Change, Take
  <2>2. \A g \in Forms : Exists(g) => form'[g] # Missing
    BY <2>1 DEF Exists
  <2> QED
    BY <2>1, <2>2, PlacesUnchanged
<1>13. ASSUME NEW j \in Jobs, NEW c \in Categories, NEW d \in Departments, CheckMove(j, c, d)
      PROVE  PlacesKept \/ \E u \in Submissions : FileTicket(u)
  <2>1. UNCHANGED <<form, department, category, filed>>
    BY <1>13 DEF CheckMove, Change, Take
  <2>2. \A g \in Forms : Exists(g) => form'[g] # Missing
    BY <2>1 DEF Exists
  <2> QED
    BY <2>1, <2>2, PlacesUnchanged
<1>14. ASSUME NEW j \in Jobs, CommitSave(j) PROVE PlacesKept \/ \E u \in Submissions : FileTicket(u)
  <2>1. UNCHANGED <<department, category, filed>>
    BY <1>14 DEF CommitSave
  <2> PICK f \in Forms : f = job[j].form
    BY <1>14, JobsAre DEF CommitSave, Doing, FormsTypeOK
  <2> DEFINE rows == RowsAfter(f, job[j].seen, job[j].new)
             version == form[f].version + 1
             row == [form[f] EXCEPT !.rows = rows, !.version = version]
  <2>2. form' = [form EXCEPT ![f] = row]
    BY Zenon, <1>14 DEF CommitSave
  <2>3. form'[f] = row /\ \A g \in Forms \ {f} : form'[g] = form[g]
    <3> HIDE DEF row
    <3> QED BY <2>2 DEF FormsTypeOK
  <2>4. form'[f] # Missing
    <3>1. form[f] \in FormRow /\ job[j].new \in SUBSET FieldRow
      BY <1>14, JobsAre DEF CommitSave, Doing, Exists, FormsTypeOK
    <3>2. rows \in SUBSET FieldRow /\ version \in Nat
      BY <3>1 DEF RowsAfter, FormRow
    <3>3. row \in FormRow
      <4> HIDE DEF rows, version
      <4> QED BY <3>1, <3>2 DEF FormRow
    <3> HIDE DEF row
    <3> QED
      BY Zenon, <2>3, <3>3, MissingAssumption
  <2>5. \A g \in Forms : Exists(g) => form'[g] # Missing
    BY <2>3, <2>4 DEF Exists
  <2> QED
    BY <2>1, <2>5, PlacesUnchanged
<1>15. ASSUME NEW j \in Jobs, HardDelete(j) PROVE PlacesKept \/ \E u \in Submissions : FileTicket(u)
  <2> PICK f \in Forms, heir \in Forms \cup {Missing} : f = job[j].form /\ heir = job[j].replacement
    BY <1>15, JobsAre DEF HardDelete, Doing, FormsTypeOK
  <2>1. f # heir
    BY <1>15 DEF HardDelete, JobsInv, Doing
  <2>2. /\ department' = [d \in Departments |->
             IF d \in DefaultOf(f) THEN [department[d] EXCEPT !.form = heir] ELSE department[d]]
        /\ category' = [c \in Categories |->
             IF c \in OverrideOf(f) THEN [category[c] EXCEPT !.form = heir] ELSE category[c]]
        /\ form' = [form EXCEPT ![f] = Missing]
        /\ FiledWith(f) = {} /\ UNCHANGED filed
        /\ DefaultOf(f) \cup OverrideOf(f) # {} => (heir # Missing => Exists(heir))
    BY Zenon, <1>15 DEF HardDelete
  <2>3. \A d \in Departments : d \in DefaultOf(f) =>
          /\ [department[d] EXCEPT !.form = heir] \in DepartmentRow
          /\ [department[d] EXCEPT !.form = heir].form = heir
    BY DEF DefaultOf, DepartmentRow, FormsTypeOK
  <2>4. \A c \in Categories : c \in OverrideOf(f) => [category[c] EXCEPT !.form = heir] \in CategoryRow
    BY DEF OverrideOf, CategoryRow, FormsTypeOK
  <2>5. \A d \in Departments :
          /\ d \in DefaultOf(f) => department'[d] # Missing /\ department'[d].form = heir
          /\ d \notin DefaultOf(f) => department'[d] = department[d]
    BY <2>2, <2>3, MissingAssumption
  <2>6. \A c \in Categories : category[c] # Missing => category'[c] # Missing
    BY <2>2, <2>4, MissingAssumption DEF FormsTypeOK
  <2>7. form'[f] = Missing /\ \A g \in Forms \ {f} : form'[g] = form[g]
    BY <2>2 DEF FormsTypeOK
  <2>8. \A d \in Departments : d \in DefaultOf(f) /\ heir # Missing => form'[heir] # Missing
    BY <2>1, <2>2, <2>7 DEF Exists
  <2>9. \A d \in Departments :
          department'[d] # Missing /\ department'[d].form # Missing => form'[department'[d].form] # Missing
    <3> SUFFICES ASSUME NEW d \in Departments, department'[d] # Missing, department'[d].form # Missing
                 PROVE  form'[department'[d].form] # Missing
      OBVIOUS
    <3>1. CASE d \in DefaultOf(f)
      BY <3>1, <2>5, <2>8
    <3>2. CASE d \notin DefaultOf(f)
      <4>1. /\ department'[d] = department[d] /\ department[d].form # f
            /\ Exists(department[d].form)
        BY <3>2, <2>5 DEF DefaultOf, SnapshotsAreWhole
      <4>2. department[d].form \in Forms
        BY <4>1, <3>2 DEF FormsTypeOK, DepartmentRow
      <4> QED
        BY <2>7, <4>1, <4>2 DEF Exists
    <3> QED
      BY <3>1, <3>2
  <2>10. \A d \in Departments : department[d] # Missing => department'[d] # Missing
    BY <2>5
  <2>11. \A g \in Forms : Exists(g) /\ form'[g] = Missing => FiledWith(g) = {}
    BY <2>2, <2>7 DEF Exists
  <2> QED
    BY <2>2, <2>6, <2>9, <2>10, <2>11 DEF PlacesKept
<1>16. ASSUME NEW j \in Jobs, AssignDefault(j) PROVE PlacesKept \/ \E u \in Submissions : FileTicket(u)
  <2> PICK d \in Departments, f \in Forms \cup {Missing} : d = job[j].place /\ f = job[j].form
    BY <1>16, JobsAre DEF AssignDefault, Doing, FormsTypeOK
  <2> DEFINE row == [department[d] EXCEPT !.form = f]
  <2>1. /\ department' = [department EXCEPT ![d] = row] /\ department[d] # Missing
        /\ f # Missing => Exists(f)
        /\ UNCHANGED <<form, category, filed>>
    BY <1>16 DEF AssignDefault
  <2>2. row \in DepartmentRow /\ row.form = f
    BY <2>1 DEF DepartmentRow, FormsTypeOK
  <2>3. row # Missing
    <3> HIDE DEF row
    <3> QED BY Zenon, <2>2, MissingAssumption
  <2> HIDE DEF row
  <2> QED
    BY <2>1, <2>2, <2>3 DEF PlacesKept, FormsTypeOK, Exists, SnapshotsAreWhole
<1>17. ASSUME NEW j \in Jobs, AssignOverride(j) PROVE PlacesKept \/ \E u \in Submissions : FileTicket(u)
  <2> PICK c \in Categories, f \in Forms \cup {Missing} : c = job[j].place /\ f = job[j].form
    BY <1>17, JobsAre DEF AssignOverride, Doing, FormsTypeOK
  <2> DEFINE row == [category[c] EXCEPT !.form = f]
  <2>1. /\ category' = [category EXCEPT ![c] = row] /\ category[c] # Missing
        /\ UNCHANGED <<form, department, filed>>
    BY <1>17 DEF AssignOverride
  <2>2. row \in CategoryRow
    BY <2>1 DEF CategoryRow, FormsTypeOK
  <2> HIDE DEF row
  <2>3. row # Missing
    BY Zenon, <2>2, MissingAssumption
  <2> QED
    BY <2>1, <2>2, <2>3 DEF PlacesKept, FormsTypeOK, Exists, SnapshotsAreWhole
<1>18. ASSUME NEW j \in Jobs, MoveCategory(j) PROVE PlacesKept \/ \E u \in Submissions : FileTicket(u)
  <2> PICK c \in Categories, d \in Departments : c = job[j].category /\ d = job[j].to
    BY <1>18, JobsAre DEF MoveCategory, Doing, FormsTypeOK
  <2> DEFINE row == [category[c] EXCEPT !.department = d]
  <2>1. /\ category' = [category EXCEPT ![c] = row] /\ category[c] # Missing
        /\ UNCHANGED <<form, department, filed>>
    BY <1>18 DEF MoveCategory
  <2>2. row \in CategoryRow
    BY <2>1 DEF CategoryRow, FormsTypeOK
  <2> HIDE DEF row
  <2>3. row # Missing
    BY Zenon, <2>2, MissingAssumption
  <2> QED
    BY <2>1, <2>2, <2>3 DEF PlacesKept, FormsTypeOK, Exists, SnapshotsAreWhole
<1>19. ASSUME NEW j \in Jobs, EndJob(j) PROVE PlacesKept \/ \E u \in Submissions : FileTicket(u)
  <2>1. UNCHANGED <<form, department, category, filed>>
    BY <1>19 DEF EndJob, Finish
  <2>2. \A g \in Forms : Exists(g) => form'[g] # Missing
    BY <2>1 DEF Exists
  <2> QED
    BY <2>1, <2>2, PlacesUnchanged
<1>20. ASSUME NEW s \in Submissions, NEW d \in Departments, NEW c \in Categories \cup {Missing}, ReadDepartment(s, d, c)
      PROVE  PlacesKept \/ \E u \in Submissions : FileTicket(u)
  <2>1. UNCHANGED <<form, department, category, filed>>
    BY <1>20 DEF ReadDepartment
  <2>2. \A g \in Forms : Exists(g) => form'[g] # Missing
    BY <2>1 DEF Exists
  <2> QED
    BY <2>1, <2>2, PlacesUnchanged
<1>21. ASSUME NEW s \in Submissions, ReadCategory(s) PROVE PlacesKept \/ \E u \in Submissions : FileTicket(u)
  <2>1. UNCHANGED <<department, category, filed>>
    BY <1>21 DEF ReadCategory, EnsureSystemDefault
  <2>2. \A g \in Forms : Exists(g) => form'[g] # Missing
    BY <1>21, FirstFormIsTyped DEF ReadCategory, EnsureSystemDefault, Exists, FormsTypeOK
  <2> QED
    BY <2>1, <2>2, PlacesUnchanged
<1>22. ASSUME NEW s \in Submissions, ReadTemplates(s) PROVE PlacesKept \/ \E u \in Submissions : FileTicket(u)
  <2>1. UNCHANGED <<form, department, category, filed>>
    BY <1>22 DEF ReadTemplates
  <2>2. \A g \in Forms : Exists(g) => form'[g] # Missing
    BY <2>1 DEF Exists
  <2> QED
    BY <2>1, <2>2, PlacesUnchanged
<1>23. ASSUME NEW s \in Submissions, ReadFields(s) PROVE PlacesKept \/ \E u \in Submissions : FileTicket(u)
  <2>1. UNCHANGED <<form, department, category, filed>>
    BY <1>23 DEF ReadFields
  <2>2. \A g \in Forms : Exists(g) => form'[g] # Missing
    BY <2>1 DEF Exists
  <2> QED
    BY <2>1, <2>2, PlacesUnchanged
<1>24. ASSUME NEW s \in Submissions, FileTicket(s) PROVE PlacesKept \/ \E u \in Submissions : FileTicket(u)
  BY <1>24
<1>25. ASSUME NEW s \in Submissions, Refuse(s) PROVE PlacesKept \/ \E u \in Submissions : FileTicket(u)
  <2>1. UNCHANGED <<form, department, category, filed>>
    BY <1>25 DEF Refuse
  <2>2. \A g \in Forms : Exists(g) => form'[g] # Missing
    BY <2>1 DEF Exists
  <2> QED
    BY <2>1, <2>2, PlacesUnchanged
<1> QED
  BY <1>1, <1>2, <1>3, <1>4, <1>5, <1>6, <1>7, <1>8, <1>9, <1>10, <1>11, <1>12, <1>13,
     <1>14, <1>15, <1>16, <1>17, <1>18, <1>19, <1>20, <1>21, <1>22, <1>23, <1>24, <1>25
     DEF FormsNext

LEMMA FilingIsWhole ==
  ASSUME FormsTypeOK, ResolvingInv, SnapshotsAreWhole, NEW s \in Submissions, FileTicket(s)
  PROVE  SnapshotsAreWhole'
<1> DEFINE was == resolving[s]
           ticket == [department |-> was.department, category |-> was.category,
                      form |-> was.form, version |-> was.version, rows |-> was.rows]
<1>1. /\ was \in Resolving /\ was # Missing /\ was.stage = "read"
      /\ department[was.department] # Missing /\ Exists(was.form)
      /\ was.category # Missing => category[was.category] # Missing
      /\ UNCHANGED <<form, department, category, whole>>
  BY DEF FileTicket, Reached, FormsTypeOK
<1>2. filed' = [filed EXCEPT ![s] = ticket]
  BY Zenon DEF FileTicket, ReadVersion
<1>3. filed'[s] = ticket /\ \A u \in Submissions \ {s} : filed'[u] = filed[u]
  <2> HIDE DEF ticket
  <2> QED BY <1>2 DEF FormsTypeOK
<1>4. \E h \in whole :
        /\ h.form = was.form /\ h.rows = was.rows /\ h.version >= was.version
  BY <1>1 DEF ResolvingInv, Sound, Reached
<1>5. /\ ticket.form = was.form /\ ticket.rows = was.rows /\ ticket.version = was.version
      /\ ticket.department = was.department /\ ticket.category = was.category
  OBVIOUS
<1> HIDE DEF ticket, was
<1> QED
  BY <1>1, <1>3, <1>4, <1>5 DEF SnapshotsAreWhole, Exists, IsEffective

-----------------------------------------------------------------------------
(* The whole.                                                              *)
FormsInv ==
  FormsTypeOK /\ DefaultIsThere /\ CommittedInv /\ ResolvingInv /\ JobsInv /\ SnapshotsAreWhole

LEMMA FormsInvInit == FormsInit => FormsInv
<1> SUFFICES ASSUME FormsInit PROVE FormsInv
  OBVIOUS
<1>1. \A f \in Forms : form[f] # Missing => form[f] = FirstForm
  BY DEF FormsInit
<1>2. \A f \in Forms : Committed(f, FirstForm) \in FieldList /\ Committed(f, FirstForm).form = f
  BY FirstFormIsTyped, CommittedIs
<1>3. \A h \in whole : \E f \in Forms : h = Committed(f, FirstForm) /\ form[f] # Missing
  BY <1>1 DEF FormsInit
<1>4. /\ \A d \in Departments : department[d] \in DepartmentRow /\ department[d].form = Missing
      /\ \A c \in Categories : category[c] \in CategoryRow
  BY DEF FormsInit, DepartmentRow, CategoryRow
<1>5. FormsTypeOK
  <2>1. form \in [Forms -> FormRow \cup {Missing}]
    BY <1>1, FirstFormIsTyped DEF FormsInit
  <2>2. whole \subseteq FieldList
    BY <1>2, <1>3
  <2>3. /\ department \in [Departments -> DepartmentRow \cup {Missing}]
        /\ category \in [Categories -> CategoryRow \cup {Missing}]
    BY <1>4 DEF FormsInit
  <2> QED
    BY <2>1, <2>2, <2>3 DEF FormsInit, FormsTypeOK
<1>6. DefaultIsThere
  BY <1>1, <1>2, <1>3, FirstFormIsTyped, FormsAssumption
     DEF FormsInit, DefaultIsThere, Exists, Reached
<1>7. CommittedInv
  BY <1>1 DEF FormsInit, CommittedInv, Exists
<1>8. ResolvingInv /\ JobsInv
  BY DEF FormsInit, ResolvingInv, Sound, Reached, JobsInv, Doing
<1>9. SnapshotsAreWhole
  BY <1>4, <1>6, FormsAssumption, MissingAssumption
     DEF FormsInit, SnapshotsAreWhole, DefaultIsThere, Exists, IsEffective
<1> QED
  BY <1>5, <1>6, <1>7, <1>8, <1>9 DEF FormsInv

LEMMA FormsInvStep == FormsInv /\ [FormsNext]_formVars => FormsInv'
<1> SUFFICES ASSUME FormsInv, [FormsNext]_formVars PROVE FormsInv'
  OBVIOUS
<1>1. FormsTypeOK /\ DefaultIsThere /\ CommittedInv /\ ResolvingInv /\ JobsInv /\ SnapshotsAreWhole
  BY DEF FormsInv
<1>2. FormsTypeOK'
  BY <1>1, FormTypesStep
<1>3. FormsGrow
  BY <1>1, FormsGrowStep
<1>4. ResolvingInv'
  BY <1>1, <1>2, <1>3, ResolvingStep
<1>5. CommittedInv' /\ DefaultIsThere'
  BY <1>3, <1>4 DEF FormsGrow, CommittedInv, DefaultIsThere, ResolvingInv, Sound, Exists
<1>6. JobsInv'
  BY <1>1, JobsStep
<1>7. SnapshotsAreWhole'
  <2>1. CASE PlacesKept
    BY <1>1, <1>3, <2>1, KeptPlacesAreWhole
  <2>2. CASE \E u \in Submissions : FileTicket(u)
    BY <1>1, <2>2, FilingIsWhole
  <2> QED
    BY <1>1, <2>1, <2>2, PlacesStep
<1> QED
  BY <1>2, <1>4, <1>5, <1>6, <1>7 DEF FormsInv

(* Templates, departments, categories, requests and tickets keep their     *)
(* shape.                                                                  *)
THEOREM FormsAreTyped == FormsSpec => []FormsTypeOK
<1>1. FormsInv => FormsTypeOK
  BY DEF FormsInv
<1> QED
  BY <1>1, FormsInvInit, FormsInvStep, PTL DEF FormsSpec

(* Whoever saves, archives, deletes, assigns or moves what while tickets   *)
(* are filed, each ticket keeps one whole field list of its form, that is  *)
(* no older than the version it names, and its form, department and        *)
(* category stay.                                                          *)
THEOREM SnapshotsStayWhole == FormsSpec => []SnapshotsAreWhole
<1>1. FormsInv => SnapshotsAreWhole
  BY DEF FormsInv
<1> QED
  BY <1>1, FormsInvInit, FormsInvStep, PTL DEF FormsSpec

-----------------------------------------------------------------------------
(* A nonempty set of natural numbers has a least element.                  *)
LEMMA Least ==
  ASSUME NEW T \in SUBSET Nat, T # {}
  PROVE  \E n \in T : \A m \in T : n <= m
<1>1. IsWellFoundedOn(OpToRel(<, Nat), Nat)
  BY NatLessThanWellFounded
<1>2. PICK n \in T : \A m \in T : ~(<<m, n>> \in OpToRel(<, Nat))
  BY <1>1, WFMin
<1>3. \A m \in T : ~(m < n)
  BY <1>2 DEF OpToRel
<1> QED
  BY <1>3

-----------------------------------------------------------------------------
(* What is done again and again to a value is a function of how often.     *)
Iterates(g, m, a, f) == \A i \in 0 .. m : g[i] = IF i = 0 THEN a ELSE f[<<i, g[i - 1]>>]

LEMMA Iterated ==
  ASSUME NEW n \in Nat, NEW S, NEW a \in S, NEW f \in [(1 .. n) \X S -> S]
  PROVE  \E g \in [0 .. n -> S] : Iterates(g, n, a, f)
<1> DEFINE T == {m \in 0 .. n : ~ \E g \in [0 .. m -> S] : Iterates(g, m, a, f)}
<1> SUFFICES ASSUME T # {} PROVE FALSE
  OBVIOUS
<1>1. PICK m \in T : \A l \in T : m <= l
  <2>1. T \in SUBSET Nat
    OBVIOUS
  <2> HIDE DEF T
  <2> QED BY <2>1, Least
<1>2. CASE m = 0
  <2>1. [i \in 0 .. 0 |-> a] \in [0 .. 0 -> S] /\ Iterates([i \in 0 .. 0 |-> a], 0, a, f)
    BY DEF Iterates
  <2> QED BY <1>1, <1>2, <2>1
<1>3. CASE m # 0
  <2>1. m - 1 \in 0 .. n /\ m - 1 \notin T /\ m \in 1 .. n
    BY <1>1, <1>3
  <2>2. PICK g \in [0 .. m - 1 -> S] : Iterates(g, m - 1, a, f)
    BY <2>1
  <2>3. f[<<m, g[m - 1]>>] \in S
    BY <2>1
  <2> DEFINE h == [i \in 0 .. m |-> IF i = m THEN f[<<m, g[m - 1]>>] ELSE g[i]]
  <2>4. h \in [0 .. m -> S]
    BY <2>1, <2>3
  <2>5. Iterates(h, m, a, f)
    <3> SUFFICES ASSUME NEW i \in 0 .. m
                 PROVE  h[i] = IF i = 0 THEN a ELSE f[<<i, h[i - 1]>>]
      BY DEF Iterates
    <3>1. CASE i = m
      <4>1. h[i] = f[<<m, g[m - 1]>>] /\ h[i - 1] = g[m - 1]
        BY <3>1, <2>1
      <4> HIDE DEF h
      <4> QED BY <3>1, <4>1, <1>3
    <3>2. CASE i # m
      <4>1. i \in 0 .. m - 1 /\ h[i] = g[i] /\ (i # 0 => h[i - 1] = g[i - 1])
        BY <3>2, <2>1
      <4> HIDE DEF h
      <4> QED BY <4>1, <2>2 DEF Iterates
    <3> QED
      BY <3>1, <3>2
  <2> QED
    BY <1>1, <2>4, <2>5
<1> QED
  BY <1>2, <1>3

(* A set of numbers up to n with 0 and with the successor of each is all.  *)
LEMMA UpTo ==
  ASSUME NEW n \in Nat, NEW T, 0 \in T, \A m \in 0 .. n : m \in T /\ m # n => m + 1 \in T
  PROVE  \A m \in 0 .. n : m \in T
<1> DEFINE U == {m \in 0 .. n : m \notin T}
<1> SUFFICES ASSUME U # {} PROVE FALSE
  OBVIOUS
<1>1. PICK m \in U : \A l \in U : m <= l
  <2>1. U \in SUBSET Nat
    OBVIOUS
  <2> HIDE DEF U
  <2> QED BY <2>1, Least
<1>2. m # 0 /\ m - 1 \in 0 .. n /\ m - 1 \notin U
  BY <1>1
<1>3. m - 1 \in T /\ m - 1 # n /\ (m - 1) + 1 = m
  BY <1>1, <1>2
<1> QED
  BY <1>1, <1>2, <1>3

-----------------------------------------------------------------------------
(* One pass, and all of them.                                              *)
Within(v, w) == \A k \in Keys : v[k] \in {w[k], Nil}
Settled(layout, v) ==
  \A k \in Keys : v[k] # Nil => IsFieldConditionVisible(layout[k].rule, v)
Present(v) == {k \in Keys : v[k] # Nil}

LEMMA KeyOrderIs ==
  /\ KeyCount \in Nat
  /\ \A i \in 1 .. KeyCount : KeyOrder[i] \in Keys
  /\ \A k \in Keys : \E i \in 1 .. KeyCount : KeyOrder[i] = k
  /\ IsFiniteSet(Keys) /\ Cardinality(Keys) \in Nat /\ Cardinality(Keys) <= KeyCount
<1>1. KeyCount \in Nat
  BY SubmissionAssumption
<1> DEFINE f == [i \in 1 .. KeyCount |-> KeyOrder[i]]
<1>2. f \in Surjection(1 .. KeyCount, Keys)
  BY DEF Keys, Surjection
<1>3. IsFiniteSet(1 .. KeyCount) /\ Cardinality(1 .. KeyCount) = KeyCount
  <2>1. 1 \in Int /\ KeyCount \in Int /\ (IF 1 > KeyCount THEN 0 ELSE KeyCount - 1 + 1) = KeyCount
    BY <1>1
  <2> QED
    BY <2>1, FS_Interval
<1>4. IsFiniteSet(Keys) /\ Cardinality(Keys) <= KeyCount
  <2> HIDE DEF f
  <2> QED BY <1>2, <1>3, FS_Surjection
<1> QED
  BY <1>1, <1>4, FS_CardinalityType DEF Keys

LEMMA UnhiddenIs ==
  ASSUME NEW layout, NEW v \in Answers, NEW k \in Keys
  PROVE  Unhidden(layout, v, k) \in Answers /\ Within(Unhidden(layout, v, k), v)
BY DEF Unhidden, Answers, Within

LEMMA WithinIsTransitive ==
  ASSUME NEW u, NEW v, NEW w, Within(u, v), Within(v, w)
  PROVE  Within(u, w)
BY DEF Within

(* g[i]: the answers after i fields of a pass, or after i passes.          *)
Passes(g, layout, v) ==
  /\ g \in [0 .. KeyCount -> Answers]
  /\ g[0] = v /\ Pass(layout, v) = g[KeyCount]
  /\ \A i \in 1 .. KeyCount : g[i] = Unhidden(layout, g[i - 1], KeyOrder[i])
Submits(g, layout, v, role) ==
  /\ g \in [0 .. KeyCount -> Answers]
  /\ g[0] = Only(v, Editable(layout, role))
  /\ SubmissionValues(layout, v, role) = g[KeyCount]
  /\ \A i \in 1 .. KeyCount : g[i] = Pass(layout, g[i - 1])

LEMMA PassIs ==
  ASSUME NEW layout, NEW v \in Answers
  PROVE  \E g : Passes(g, layout, v)
<1> DEFINE n == KeyCount
           f == [x \in (1 .. n) \X Answers |-> Unhidden(layout, x[2], KeyOrder[x[1]])]
           after[i \in 0 .. n] == IF i = 0 THEN v ELSE Unhidden(layout, after[i - 1], KeyOrder[i])
<1>1. n \in Nat
  BY KeyOrderIs
<1>2. f \in [(1 .. n) \X Answers -> Answers]
  BY KeyOrderIs, UnhiddenIs
<1>3. PICK g \in [0 .. n -> Answers] : Iterates(g, n, v, f)
  <2> HIDE DEF f, n
  <2> QED BY <1>1, <1>2, Iterated
<1>4. \A i \in 0 .. n : g[i] = IF i = 0 THEN v ELSE Unhidden(layout, g[i - 1], KeyOrder[i])
  <2> SUFFICES ASSUME NEW i \in 0 .. n
               PROVE  g[i] = IF i = 0 THEN v ELSE Unhidden(layout, g[i - 1], KeyOrder[i])
    OBVIOUS
  <2>1. g[i] = IF i = 0 THEN v ELSE f[<<i, g[i - 1]>>]
    BY <1>3 DEF Iterates
  <2>2. i # 0 => i \in 1 .. n /\ g[i - 1] \in Answers
    BY <1>1, <1>3
  <2>3. i # 0 => f[<<i, g[i - 1]>>] = Unhidden(layout, g[i - 1], KeyOrder[i])
    BY <2>2
  <2> QED
    BY <2>1, <2>3
<1>5. g = [i \in 0 .. n |-> IF i = 0 THEN v ELSE Unhidden(layout, g[i - 1], KeyOrder[i])]
  BY <1>3, <1>4
<1>6. after = [i \in 0 .. n |-> IF i = 0 THEN v ELSE Unhidden(layout, after[i - 1], KeyOrder[i])]
  BY <1>5, Zenon
<1>7. Pass(layout, v) = after[n]
  BY Zenon DEF Pass
<1> HIDE DEF after, n, f
<1>8. \A i \in 0 .. n : after[i] = IF i = 0 THEN v ELSE Unhidden(layout, after[i - 1], KeyOrder[i])
  BY <1>6
<1>9. \A i \in 0 .. n : after[i] \in Answers
  <2> DEFINE T == {i \in 0 .. n : after[i] \in Answers}
  <2>1. 0 \in T
    BY <1>1, <1>8
  <2>2. \A i \in 0 .. n : i \in T /\ i # n => i + 1 \in T
    <3> SUFFICES ASSUME NEW i \in 0 .. n, i \in T, i # n PROVE i + 1 \in T
      OBVIOUS
    <3>1. i + 1 \in 1 .. n /\ (i + 1) - 1 = i
      BY <1>1
    <3>2. after[i + 1] = Unhidden(layout, after[i], KeyOrder[i + 1])
      BY <3>1, <1>1, <1>8
    <3> QED
      BY <3>1, <3>2, KeyOrderIs, UnhiddenIs DEF n
  <2>3. \A i \in 0 .. n : i \in T
    <3> HIDE DEF T
    <3> QED BY <1>1, <2>1, <2>2, UpTo
  <2> QED
    BY <2>3
<1>10. after \in [0 .. n -> Answers]
  BY <1>6, <1>9
<1>11. 0 \in 0 .. n /\ \A i \in 1 .. n : i \in 0 .. n /\ i # 0
  BY <1>1
<1>12. after[0] = v /\ \A i \in 1 .. n : after[i] = Unhidden(layout, after[i - 1], KeyOrder[i])
  BY <1>8, <1>11
<1> QED
  BY <1>7, <1>10, <1>12 DEF n, Passes

(* A pass only takes answers away; if it takes none, none is hidden.       *)
LEMMA PassShrinks ==
  ASSUME NEW layout, NEW v \in Answers
  PROVE  /\ Pass(layout, v) \in Answers /\ Within(Pass(layout, v), v)
         /\ Pass(layout, v) = v => Settled(layout, v)
<1> DEFINE n == KeyCount
<1>1. n \in Nat
  BY KeyOrderIs
<1>2. PICK g : Passes(g, layout, v)
  BY Zenon, PassIs
<1>3. /\ g \in [0 .. n -> Answers] /\ g[0] = v /\ Pass(layout, v) = g[n]
      /\ \A i \in 1 .. n : g[i] = Unhidden(layout, g[i - 1], KeyOrder[i])
  BY <1>2 DEF Passes
<1> HIDE DEF n
<1>4. \A i \in 0 .. n : g[i] \in Answers
  BY <1>3
<1>5. \A i \in 1 .. n : Within(g[i], g[i - 1])
  <2> SUFFICES ASSUME NEW i \in 1 .. n PROVE Within(g[i], g[i - 1])
    OBVIOUS
  <2>1. g[i - 1] \in Answers /\ KeyOrder[i] \in Keys
    BY <1>1, <1>4, KeyOrderIs DEF n
  <2> QED
    BY <2>1, <1>3, UnhiddenIs
<1>6. \A i \in 0 .. n : Within(g[i], v)
  <2> DEFINE T == {i \in 0 .. n : Within(g[i], v)}
  <2>1. 0 \in T
    BY <1>1, <1>3 DEF Within
  <2>2. \A i \in 0 .. n : i \in T /\ i # n => i + 1 \in T
    <3> SUFFICES ASSUME NEW i \in T, i # n PROVE i + 1 \in T
      OBVIOUS
    <3>1. i + 1 \in 1 .. n /\ (i + 1) - 1 = i
      BY <1>1
    <3>2. Within(g[i + 1], g[i])
      BY <3>1, <1>5
    <3> QED
      BY <3>1, <3>2, WithinIsTransitive
  <2>3. \A i \in 0 .. n : i \in T
    <3> HIDE DEF T
    <3> QED BY <1>1, <2>1, <2>2, UpTo
  <2> QED
    BY <2>3
<1>7. ASSUME g[n] = v PROVE Settled(layout, v)
  <2>1. \A i \in 0 .. n : g[i] = v
    <3> DEFINE T == {i \in 0 .. n : g[n - i] = v}
    <3>1. 0 \in T
      BY <1>1, <1>7
    <3>2. \A i \in 0 .. n : i \in T /\ i # n => i + 1 \in T
      <4> SUFFICES ASSUME NEW i \in 0 .. n, i \in T, i # n PROVE i + 1 \in T
        OBVIOUS
      <4>1. n - i \in 1 .. n /\ (n - i) - 1 = n - (i + 1) /\ n - (i + 1) \in 0 .. n /\ i + 1 \in 0 .. n
        BY <1>1
      <4>2. Within(v, g[n - (i + 1)]) /\ Within(g[n - (i + 1)], v)
        BY <4>1, <1>5, <1>6
      <4>3. g[n - (i + 1)] = v
        BY <4>1, <4>2, <1>4 DEF Within, Answers
      <4> QED
        BY <4>1, <4>3
    <3>3. \A i \in 0 .. n : i \in T
      <4> HIDE DEF T
      <4> QED BY <1>1, <3>1, <3>2, UpTo
    <3>4. \A i \in 0 .. n : n - i \in 0 .. n /\ n - (n - i) = i
      BY <1>1
    <3> QED
      BY <3>3, <3>4
  <2> SUFFICES ASSUME NEW k \in Keys, v[k] # Nil
               PROVE  IsFieldConditionVisible(layout[k].rule, v)
    BY DEF Settled
  <2>2. PICK i \in 1 .. n : KeyOrder[i] = k
    BY KeyOrderIs DEF n
  <2>3. g[i] = v /\ g[i - 1] = v
    BY <1>1, <2>1
  <2>4. v = Unhidden(layout, v, k)
    BY <1>3, <2>2, <2>3
  <2> QED
    BY <2>4 DEF Unhidden, Answers
<1>8. n \in 0 .. n
  BY <1>1
<1> QED
  BY <1>3, <1>4, <1>6, <1>7, <1>8

LEMMA OnlyIs ==
  ASSUME NEW v \in Answers, NEW keys
  PROVE  Only(v, keys) \in Answers
BY DEF Only, Answers

LEMMA SubmissionIs ==
  ASSUME NEW layout, NEW v \in Answers, NEW role
  PROVE  \E g : Submits(g, layout, v, role)
<1> DEFINE n == KeyCount
           start == Only(v, Editable(layout, role))
           f == [x \in (1 .. n) \X Answers |-> Pass(layout, x[2])]
           after[i \in 0 .. n] ==
             IF i = 0 THEN Only(v, Editable(layout, role)) ELSE Pass(layout, after[i - 1])
<1>1. n \in Nat /\ start \in Answers
  BY KeyOrderIs, OnlyIs
<1>2. f \in [(1 .. n) \X Answers -> Answers]
  BY PassShrinks
<1>3. PICK g \in [0 .. n -> Answers] : Iterates(g, n, start, f)
  <2> HIDE DEF f, n, start
  <2> QED BY <1>1, <1>2, Iterated
<1>4. \A i \in 0 .. n : g[i] = IF i = 0 THEN start ELSE Pass(layout, g[i - 1])
  <2> SUFFICES ASSUME NEW i \in 0 .. n
               PROVE  g[i] = IF i = 0 THEN start ELSE Pass(layout, g[i - 1])
    OBVIOUS
  <2>1. g[i] = IF i = 0 THEN start ELSE f[<<i, g[i - 1]>>]
    <3> HIDE DEF f, start
    <3> QED BY <1>3 DEF Iterates
  <2>2. i # 0 => i \in 1 .. n /\ g[i - 1] \in Answers
    BY <1>1, <1>3
  <2>3. i # 0 => f[<<i, g[i - 1]>>] = Pass(layout, g[i - 1])
    BY <2>2
  <2> QED
    BY <2>1, <2>3
<1>5. g = [i \in 0 .. n |-> IF i = 0 THEN start ELSE Pass(layout, g[i - 1])]
  <2> HIDE DEF start
  <2> QED BY <1>3, <1>4
<1>6. after = [i \in 0 .. n |-> IF i = 0 THEN start ELSE Pass(layout, after[i - 1])]
  BY <1>5, Zenon
<1>7. SubmissionValues(layout, v, role) = after[n]
  BY Zenon DEF SubmissionValues
<1> HIDE DEF after, n, f
<1>8. \A i \in 0 .. n : after[i] = IF i = 0 THEN start ELSE Pass(layout, after[i - 1])
  <2> HIDE DEF start
  <2> QED BY <1>6
<1>9. \A i \in 0 .. n : after[i] \in Answers
  <2> DEFINE T == {i \in 0 .. n : after[i] \in Answers}
  <2> HIDE DEF start
  <2>1. 0 \in T
    BY <1>1, <1>8
  <2>2. \A i \in 0 .. n : i \in T /\ i # n => i + 1 \in T
    <3> SUFFICES ASSUME NEW i \in 0 .. n, i \in T, i # n PROVE i + 1 \in T
      OBVIOUS
    <3>1. i + 1 \in 1 .. n /\ (i + 1) - 1 = i
      BY <1>1
    <3>2. after[i + 1] = Pass(layout, after[i])
      BY <3>1, <1>1, <1>8
    <3> QED
      BY <3>1, <3>2, PassShrinks
  <2>3. \A i \in 0 .. n : i \in T
    <3> HIDE DEF T
    <3> QED BY <1>1, <2>1, <2>2, UpTo
  <2> QED
    BY <2>3
<1>10. after \in [0 .. n -> Answers]
  <2> HIDE DEF start
  <2> QED BY <1>6, <1>9
<1>11. 0 \in 0 .. n /\ \A i \in 1 .. n : i \in 0 .. n /\ i # 0
  BY <1>1
<1>12. after[0] = start /\ \A i \in 1 .. n : after[i] = Pass(layout, after[i - 1])
  <2> HIDE DEF start
  <2> QED BY <1>8, <1>11
<1> QED
  BY <1>7, <1>10, <1>12 DEF n, Submits

(* After as many passes as there are fields nothing is left hidden: each   *)
(* pass takes an answer away, or none that comes after it does.            *)
THEOREM SubmissionsSettle ==
  ASSUME NEW layout, NEW v \in Answers, NEW role
  PROVE  LET submitted == SubmissionValues(layout, v, role)
         IN  /\ submitted \in Answers
             /\ \A k \in Keys : submitted[k] # Nil => k \in Editable(layout, role) /\ submitted[k] = v[k]
             /\ Settled(layout, submitted)
<1> DEFINE n == KeyCount
           start == Only(v, Editable(layout, role))
<1>0. PICK g : Submits(g, layout, v, role)
  BY Zenon, SubmissionIs
<1>1. /\ g \in [0 .. n -> Answers] /\ g[0] = start /\ SubmissionValues(layout, v, role) = g[n]
      /\ \A i \in 1 .. n : g[i] = Pass(layout, g[i - 1])
  BY <1>0 DEF Submits
<1>2. n \in Nat /\ IsFiniteSet(Keys) /\ Cardinality(Keys) \in Nat /\ Cardinality(Keys) <= n
  BY KeyOrderIs
<1> HIDE DEF n
<1>3. \A i \in 0 .. n : g[i] \in Answers
  BY <1>1
<1>4. \A i \in 0 .. n : i # n =>
        /\ i + 1 \in 0 .. n /\ g[i + 1] = Pass(layout, g[i])
        /\ Within(g[i + 1], g[i]) /\ (g[i + 1] = g[i] => Settled(layout, g[i]))
  <2> SUFFICES ASSUME NEW i \in 0 .. n, i # n
               PROVE  /\ i + 1 \in 0 .. n /\ g[i + 1] = Pass(layout, g[i])
                      /\ Within(g[i + 1], g[i]) /\ (g[i + 1] = g[i] => Settled(layout, g[i]))
    OBVIOUS
  <2>1. i + 1 \in 1 .. n /\ (i + 1) - 1 = i
    BY <1>2
  <2>2. g[i + 1] = Pass(layout, g[i])
    BY <1>1, <2>1
  <2> QED
    BY <2>1, <2>2, <1>3, PassShrinks
<1>5. \A i \in 0 .. n : Within(g[i], start)
  <2> DEFINE T == {i \in 0 .. n : Within(g[i], start)}
  <2>1. 0 \in T
    <3> HIDE DEF start
    <3> QED BY <1>1, <1>2 DEF Within
  <2>2. \A i \in 0 .. n : i \in T /\ i # n => i + 1 \in T
    <3> HIDE DEF start
    <3> QED BY <1>4, WithinIsTransitive
  <2>3. \A i \in 0 .. n : i \in T
    <3> HIDE DEF T
    <3> QED BY <1>2, <2>1, <2>2, UpTo
  <2> QED
    BY <2>3
<1> DEFINE Steady(i) == Pass(layout, g[i]) = g[i]
           Few(i) == Cardinality(Present(g[i])) \in Nat /\ Cardinality(Present(g[i])) <= n - i
<1>6. \A i \in 0 .. n : Steady(i) \/ Few(i)
  <2> DEFINE T == {i \in 0 .. n : Steady(i) \/ Few(i)}
  <2>1. 0 \in T
    <3>1. Present(g[0]) \in SUBSET Keys
      BY DEF Present
    <3>2. Cardinality(Present(g[0])) <= Cardinality(Keys) /\ IsFiniteSet(Present(g[0]))
      BY <1>2, <3>1, FS_Subset
    <3>3. Few(0)
      BY <1>2, <3>2, FS_CardinalityType
    <3> QED
      BY <1>2, <3>3
  <2>2. \A i \in 0 .. n : i \in T /\ i # n => i + 1 \in T
    <3> SUFFICES ASSUME NEW i \in 0 .. n, i \in T, i # n PROVE i + 1 \in T
      OBVIOUS
    <3>1. CASE Steady(i)
      BY <3>1, <1>4
    <3>2. CASE ~Steady(i) /\ Few(i)
      <4>1. g[i + 1] # g[i] /\ Within(g[i + 1], g[i]) /\ i + 1 \in 0 .. n
        BY <3>2, <1>4
      <4>2. g[i + 1] \in Answers /\ g[i] \in Answers
        BY <4>1, <1>3
      <4>3. Present(g[i + 1]) \in SUBSET Present(g[i]) /\ Present(g[i + 1]) # Present(g[i])
        BY <4>1, <4>2 DEF Within, Present, Answers
      <4>4. IsFiniteSet(Present(g[i]))
        <5>1. Present(g[i]) \in SUBSET Keys
          BY DEF Present
        <5> QED
          BY <1>2, <5>1, FS_Subset
      <4>5. /\ Cardinality(Present(g[i + 1])) \in Nat
            /\ Cardinality(Present(g[i + 1])) <= Cardinality(Present(g[i]))
            /\ Cardinality(Present(g[i + 1])) # Cardinality(Present(g[i]))
        BY <4>3, <4>4, FS_Subset, FS_CardinalityType
      <4>6. Few(i + 1)
        BY <1>2, <3>2, <4>5
      <4> QED
        BY <4>1, <4>6
    <3> QED
      BY <3>1, <3>2
  <2>3. \A i \in 0 .. n : i \in T
    <3> HIDE DEF T
    <3> QED BY <1>2, <2>1, <2>2, UpTo
  <2> QED
    BY <2>3
<1>7. n \in 0 .. n /\ g[n] \in Answers
  BY <1>2, <1>3
<1>8. Settled(layout, g[n])
  <2>1. CASE Steady(n)
    BY <2>1, <1>7, PassShrinks
  <2>2. CASE Few(n)
    <3>1. Cardinality(Present(g[n])) = 0
      BY <2>2, <1>2
    <3>2. IsFiniteSet(Present(g[n]))
      <4>1. Present(g[n]) \in SUBSET Keys
        BY DEF Present
      <4> QED
        BY <1>2, <4>1, FS_Subset
    <3>3. Present(g[n]) = {}
      BY <3>1, <3>2, FS_EmptySet
    <3> QED
      BY <3>3 DEF Settled, Present
  <2> QED
    BY <2>1, <2>2, <1>6, <1>7
<1>9. \A k \in Keys : g[n][k] # Nil => k \in Editable(layout, role) /\ g[n][k] = v[k]
  <2>1. Within(g[n], start)
    BY <1>5, <1>7
  <2> QED
    BY <2>1 DEF Within, Only
<1> QED
  BY <1>1, <1>7, <1>8, <1>9

-----------------------------------------------------------------------------
(* Fields, answers and what is made of them.                               *)
FormLayouts == [Keys -> FormField \cup {Nil}]

LEMMA AnswerIs ==
  ASSUME NEW a \in Answer
  PROVE  /\ a.type \in FieldType /\ a.items \in SUBSET (Typed \cup {Upfile})
         /\ a.type # "FILE" => Upfile \notin a.items
BY SubmissionAssumption DEF Answer, FieldType

LEMMA FieldIs ==
  ASSUME NEW f \in FormField
  PROVE  f.default \in Answer \cup {Nil} /\ f.type \in FieldType /\ f.options \in SUBSET Words
BY DEF FormField

LEMMA LayoutIs ==
  ASSUME NEW version \in Versions
  PROVE  Layout[version] \in FormLayouts
BY SubmissionAssumption DEF FormLayouts

LEMMA ItemsAre ==
  ASSUME NEW v \in Answers, NEW k \in Keys
  PROVE  ItemsOf(v, k) \in SUBSET (Typed \cup {Upfile})
BY AnswerIs DEF ItemsOf, Answers

LEMMA ShownLayoutIs ==
  ASSUME NEW version \in Versions \cup {Nil}
  PROVE  ShownTo(version) \in FormLayouts
<1>1. \A k \in Keys : version # Nil /\ k \in Visible(Layout[version], Filer) =>
        Layout[version][k] \in FormField \cup {Nil}
  BY LayoutIs DEF FormLayouts
<1> QED
  BY <1>1 DEF ShownTo, FormLayouts

LEMMA CompatibleValuesAre ==
  ASSUME NEW v \in Answers, NEW previous, NEW next \in FormLayouts
  PROVE  CompatibleValues(v, previous, next) \in Answers
<1>1. \A k \in Keys : next[k] # Nil => next[k].default \in Answer \cup {Nil}
  BY FieldIs DEF FormLayouts
<1>2. \A k \in Keys : v[k] \in Answer \cup {Nil}
  BY DEF Answers
<1> QED
  BY <1>1, <1>2 DEF CompatibleValues, Answers

LEMMA AnswersToAre ==
  ASSUME NEW f \in FormField
  PROVE  AnswersTo(f) \in SUBSET Answer
<1>1. f.type \in FieldType /\ f.options \in SUBSET Words
  BY FieldIs
<1>2. ASSUME NEW a \in AnswersTo(f) PROVE a \in Answer
  <2>1. CASE f.type = "TEXT"
    BY <1>2, <2>1 DEF AnswersTo, Answer, Text, Typed, FieldType
  <2>2. CASE f.type = "DROPDOWN"
    BY <1>1, <1>2, <2>2 DEF AnswersTo, Answer, Typed, FieldType
  <2>3. CASE f.type = "CHECKBOX"
    BY <1>2, <2>3 DEF AnswersTo, Answer, Typed, FieldType
  <2>4. CASE f.type = "FILE"
    BY <1>2, <2>4 DEF AnswersTo, Answer
  <2> QED
    BY <1>1, <2>1, <2>2, <2>3, <2>4 DEF FieldType
<1> QED
  BY <1>2

LEMMA UsedIs ==
  ASSUME NEW layout \in FormLayouts, NEW input \in Answers, NEW k \in Asked(layout, Filer, input)
  PROVE  /\ Used(layout[k], input[k]) \in Answer \cup {Nil}
         /\ ~Unanswered(Used(layout[k], input[k])) =>
              Used(layout[k], input[k]) \in Answer /\ Used(layout[k], input[k]) # Nil
<1>1. k \in Keys /\ layout[k] # Nil
  BY DEF Asked, Editable, Visible, FieldsOf
<1>2. layout[k].default \in Answer \cup {Nil} /\ input[k] \in Answer \cup {Nil}
  BY <1>1, FieldIs DEF FormLayouts, Answers
<1> QED
  BY <1>2 DEF Used, Unanswered

LEMMA SanitizedIs ==
  ASSUME NEW layout \in FormLayouts, NEW input \in Answers
  PROVE  Sanitized(layout, Filer, input) \in Answers
BY UsedIs DEF Sanitized, Answers

-----------------------------------------------------------------------------
(* The page and what it sends keep their shape.                            *)
LEMMA MountedTypes ==
  ASSUME PageTypeOK, NEW version \in Versions \cup {Nil}, Mounted(version)
  PROVE  answers' \in Answers /\ uploads' \in SUBSET PageUpload /\ shown' \in Versions \cup {Nil}
<1>1. answers \in Answers /\ uploads \in SUBSET PageUpload /\ shown \in Versions \cup {Nil}
  BY DEF PageTypeOK
<1>2. CASE version = Nil
  <2>1. \A u \in uploads : [u EXCEPT !.live = FALSE, !.base = ItemsOf(answers, u.key)] \in PageUpload
    BY <1>1, ItemsAre DEF PageUpload
  <2>2. \A x \in uploads' : x \in PageUpload
    <3>1. uploads' = {IF u.live THEN [u EXCEPT !.live = FALSE, !.base = ItemsOf(answers, u.key)]
                      ELSE u : u \in uploads}
      BY <1>2 DEF Mounted
    <3> QED
      BY <1>1, <2>1, <3>1
  <2>3. answers' = answers /\ shown' = shown
    BY <1>2 DEF Mounted
  <2> QED
    BY <1>1, <2>2, <2>3
<1>3. CASE version # Nil
  <2>1. ShownTo(version) \in FormLayouts
    BY ShownLayoutIs
  <2>2. CompatibleValues(answers, ShownTo(shown), ShownTo(version)) \in Answers
    BY <1>1, <2>1, CompatibleValuesAre
  <2> QED
    BY <1>1, <1>3, <2>2 DEF Mounted
<1> QED
  BY <1>2, <1>3

LEMMA FormIs == ASSUME PageTypeOK PROVE Form \in FormLayouts
<1>1. (IF route = Nil THEN Nil ELSE loaded[route]) \in Versions \cup {Nil}
  BY DEF PageTypeOK
<1> QED
  BY <1>1, ShownLayoutIs DEF Form

LEMMA PageTypesStep ==
  ASSUME PageTypeOK, [PageNext]_pageVars
  PROVE  PageTypeOK'
<1>1. CASE UNCHANGED pageVars
  BY <1>1 DEF PageTypeOK
<1>2. ASSUME NEW r \in Routes \cup {Nil}, ChooseRoute(r)
      PROVE  PageTypeOK'
  <2>1. (IF r = Nil THEN Nil ELSE loaded[r]) \in Versions \cup {Nil}
    BY DEF PageTypeOK
  <2>2. /\ answers' \in Answers /\ uploads' \in SUBSET PageUpload
        /\ shown' \in Versions \cup {Nil}
    BY <1>2, <2>1, MountedTypes DEF ChooseRoute
  <2> QED
    BY <1>2, <2>2 DEF ChooseRoute, PageTypeOK
<1>3. ASSUME NEW r \in Routes, LoadLayout(r)
      PROVE  PageTypeOK'
  <2>1. published[r] \in Versions \cup {Nil}
    BY DEF PageTypeOK
  <2>2. /\ answers' \in Answers /\ uploads' \in SUBSET PageUpload
        /\ shown' \in Versions \cup {Nil}
    <3>1. CASE r = route
      BY <1>3, <2>1, <3>1, MountedTypes DEF LoadLayout
    <3>2. CASE r # route
      BY <1>3, <3>2 DEF LoadLayout, PageTypeOK
    <3> QED
      BY <3>1, <3>2
  <2>3. loaded' \in [Routes -> Versions \cup {Nil}]
    BY <1>3, <2>1 DEF LoadLayout, PageTypeOK
  <2> QED
    BY <1>3, <2>2, <2>3 DEF LoadLayout, PageTypeOK
<1>4. ASSUME NEW r \in Routes, NEW version \in Versions, PublishLayout(r, version)
      PROVE  PageTypeOK'
  BY <1>4 DEF PublishLayout, PageTypeOK
<1>5. ASSUME NEW k \in Enabled, NEW value \in AnswersTo(Form[k]), EnterAnswer(k, value)
      PROVE  PageTypeOK'
  <2>1. Form \in FormLayouts /\ k \in Keys /\ Form[k] # Nil
    BY FormIs DEF Enabled, OnPage, Editable, Visible, FieldsOf
  <2>2. value \in Answer
    BY <1>5, <2>1, AnswersToAre DEF FormLayouts
  <2>3. answers' \in Answers
    BY <1>5, <2>1, <2>2 DEF EnterAnswer, PageTypeOK, Answers
  <2> QED
    BY <1>5, <2>3 DEF EnterAnswer, PageTypeOK
<1>6. ASSUME NEW k \in Keys, StartUpload(k)
      PROVE  PageTypeOK'
  <2>1. [key |-> k, live |-> TRUE, base |-> {}] \in PageUpload
    BY DEF PageUpload
  <2>2. uploads' = uploads \cup {[key |-> k, live |-> TRUE, base |-> {}]}
    BY <1>6 DEF StartUpload
  <2>3. uploads' \in SUBSET PageUpload
    BY <2>1, <2>2 DEF PageTypeOK
  <2> QED
    BY <1>6, <2>3 DEF StartUpload, PageTypeOK
<1>7. ASSUME NEW u \in uploads, FinishUpload(u)
      PROVE  PageTypeOK'
  <2>1. u \in PageUpload /\ answers \in Answers
    BY DEF PageTypeOK
  <2>2. PICK seen : /\ seen = (IF ~u.live THEN u.base
                               ELSE IF answers[u.key] # Nil /\ answers[u.key].type = "FILE"
                               THEN answers[u.key].items ELSE {})
                    /\ answers' = [answers EXCEPT ![u.key] = [type |-> "FILE", items |-> seen \cup {Upfile}]]
    BY <1>7 DEF FinishUpload
  <2>3. u.key \in Keys /\ u.base \in SUBSET (Typed \cup {Upfile})
    BY <2>1 DEF PageUpload
  <2>4. answers[u.key] # Nil => answers[u.key].items \in SUBSET (Typed \cup {Upfile})
    BY <2>1, <2>3, AnswerIs DEF Answers
  <2>5. seen \in SUBSET (Typed \cup {Upfile})
    BY <2>2, <2>3, <2>4
  <2>6. [type |-> "FILE", items |-> seen \cup {Upfile}] \in Answer
    BY <2>5 DEF Answer
  <2>7. answers' \in Answers
    BY <2>1, <2>2, <2>6 DEF Answers
  <2> QED
    BY <1>7, <2>7 DEF FinishUpload, PageTypeOK
<1>8. ASSUME NEW u \in uploads, FailFormUpload(u)
      PROVE  PageTypeOK'
  BY <1>8 DEF FailFormUpload, PageTypeOK
<1>9. CASE Submit
  <2>1. SubmissionValues(Form, answers, Filer) \in Answers
    BY SubmissionsSettle DEF PageTypeOK
  <2>2. route \in Routes /\ loaded[route] \in Versions \cup {Nil}
    BY <1>9 DEF Submit, PageTypeOK
  <2>3. sending' \in Submission
    BY <1>9, <2>1, <2>2 DEF Submit, Submission
  <2> QED
    BY <1>9, <2>3 DEF Submit, PageTypeOK
<1>10. CASE HandleSubmission
  <2>1. sending \in Submission
    BY <1>10 DEF HandleSubmission, PageTypeOK
  <2>2. sending.input \in Answers /\ published[sending.route] \in Versions
    BY <2>1 DEF Submission, PageTypeOK
  <2>3. Sanitized(Layout[published[sending.route]], Filer, sending.input) \in Answers
    BY <2>2, LayoutIs, SanitizedIs
  <2>4. created' \in Filed \cup {Nil}
    BY <1>10, <2>2, <2>3 DEF HandleSubmission, Filed
  <2> QED
    BY <1>10, <2>4 DEF HandleSubmission, PageTypeOK
<1>11. CASE SubmitByApi
  <2>1. \A input \in ApiInputs : input \in Answers
    <3>1. [type |-> "FILE", items |-> {Upfile}] \in Answer
      BY DEF Answer
    <3>2. \A w \in Words : Text(w) \in Answer
      BY DEF Answer, Text, Typed, FieldType
    <3>3. \A a \in [type : {"CHECKBOX"}, items : {{}, {"ticked"}}] : a \in Answer
      BY DEF Answer, Typed, FieldType
    <3> QED
      BY <3>1, <3>2, <3>3 DEF ApiInputs, Answers
  <2>2. sending' \in Submission
    BY <1>11, <2>1 DEF SubmitByApi, Submission
  <2> QED
    BY <1>11, <2>2 DEF SubmitByApi, PageTypeOK
<1> QED
  BY <1>1, <1>2, <1>3, <1>4, <1>5, <1>6, <1>7, <1>8, <1>9, <1>10, <1>11 DEF PageNext

-----------------------------------------------------------------------------
(* What was filed.                                                          *)

(* Each answer is well formed, and its author could see and edit its field.*)
Answered(ticket) ==
  \A k \in Keys : ticket.values[k] # Nil =>
    /\ k \in Editable(Layout[ticket.version], Filer)
    /\ WellFormed(Layout[ticket.version][k], ticket.values[k])

LEMMA FiledIsAnswered ==
  ASSUME NEW version \in Versions, NEW input \in Answers,
         ErrorsOf(Layout[version], Filer, input) = {}
  PROVE  Answered([version |-> version, values |-> Sanitized(Layout[version], Filer, input)])
<1> DEFINE layout == Layout[version]
           values == Sanitized(layout, Filer, input)
<1> SUFFICES ASSUME NEW k \in Keys, values[k] # Nil
             PROVE  k \in Editable(layout, Filer) /\ WellFormed(layout[k], values[k])
  BY DEF Answered
<1>1. /\ k \in Asked(layout, Filer, input) /\ values[k] = Used(layout[k], input[k])
      /\ ~Unanswered(Used(layout[k], input[k]))
  BY DEF Sanitized
<1>2. WellFormed(layout[k], Used(layout[k], input[k]))
  BY <1>1 DEF ErrorsOf
<1> QED
  BY <1>1, <1>2 DEF Asked

(* Whoever gets an answer may see its field, and each field that holds the *)
(* file which the answer shows.                                            *)
LEMMA AnsweredIsAllowed ==
  ASSUME NEW ticket \in Filed, Answered(ticket), NEW role, NEW k \in Keys,
         ItemsOf(ProjectForRole(ticket, role), k) # {}
  PROVE  /\ role \in Layout[ticket.version][k].visibleTo
         /\ Upfile \in ItemsOf(ProjectForRole(ticket, role), k) =>
              \A j \in FileFields(ticket, Upfile) : role \in Layout[ticket.version][j].visibleTo
<1> DEFINE layout == Layout[ticket.version]
           shared == ProjectForRole(ticket, role)
<1>1. ticket.values \in Answers
  BY DEF Filed
<1>2. shared[k] # Nil /\ ItemsOf(shared, k) = shared[k].items
  BY DEF ItemsOf
<1>3. k \in Visible(layout, role) /\ ticket.values[k] # Nil
  BY <1>2 DEF ProjectForRole
<1>4. role \in layout[k].visibleTo
  BY <1>3 DEF Visible
<1>5. ASSUME Upfile \in ItemsOf(shared, k), NEW j \in FileFields(ticket, Upfile)
      PROVE  role \in layout[j].visibleTo
  <2>1. CASE layout[k].type = "FILE"
    <3>1. shared[k] = [ticket.values[k] EXCEPT !.items = {f \in @ : AttachmentVisible(ticket, f, role)}]
      BY <1>3, <2>1 DEF ProjectForRole
    <3>2. ticket.values[k] \in Answer
      BY <1>1, <1>3 DEF Answers
    <3>3. shared[k].items = {f \in ticket.values[k].items : AttachmentVisible(ticket, f, role)}
      BY <3>1, <3>2 DEF Answer
    <3>4. AttachmentVisible(ticket, Upfile, role)
      BY <1>2, <1>5, <3>3
    <3> QED
      BY <1>5, <3>4 DEF AttachmentVisible
  <2>2. CASE layout[k].type # "FILE"
    <3>1. shared[k] = ticket.values[k]
      BY <1>3, <2>2 DEF ProjectForRole
    <3>2. ticket.values[k].type # "FILE"
      BY <1>3, <2>2 DEF Answered, WellFormed
    <3>3. Upfile \notin ticket.values[k].items
      BY <1>1, <1>3, <3>2, AnswerIs DEF Answers
    <3> QED
      BY <1>2, <1>5, <3>1, <3>3
  <2> QED
    BY <2>1, <2>2
<1> QED
  BY <1>4, <1>5

FiledInv == created # Nil => Answered(created)

LEMMA FiledInvIsEnough ==
  ASSUME PageTypeOK, FiledInv
  PROVE  AnswersAreAllowed
<1> SUFFICES ASSUME created # Nil PROVE AnswersAreAllowed
  BY DEF AnswersAreAllowed
<1>1. created \in Filed /\ Answered(created)
  BY DEF PageTypeOK, FiledInv
<1> QED
  BY <1>1, AnsweredIsAllowed DEF AnswersAreAllowed, Gets, Answered

(* What the page has sent suits the form that it had loaded: nothing is    *)
(* hidden or foreign in it, and nothing required is missing.               *)
SendingInv ==
  sending # Nil /\ sending.form # Nil =>
    LET layout == Layout[sending.form]
    IN  /\ \A k \in Keys : sending.input[k] # Nil =>
             /\ k \in Editable(layout, Filer)
             /\ IsFieldConditionVisible(layout[k].rule, sending.input)
        /\ \A k \in Editable(layout, Filer) :
             layout[k].required /\ IsFieldConditionVisible(layout[k].rule, sending.input) =>
               ItemsOf(sending.input, k) # {}

LEMMA SubmitSuits ==
  ASSUME PageTypeOK, Submit
  PROVE  SendingInv'
<1> SUFFICES ASSUME sending'.form # Nil
             PROVE  LET layout == Layout[sending'.form]
                    IN  /\ \A k \in Keys : sending'.input[k] # Nil =>
                             /\ k \in Editable(layout, Filer)
                             /\ IsFieldConditionVisible(layout[k].rule, sending'.input)
                        /\ \A k \in Editable(layout, Filer) :
                             layout[k].required
                               /\ IsFieldConditionVisible(layout[k].rule, sending'.input) =>
                             ItemsOf(sending'.input, k) # {}
  BY DEF SendingInv
<1> DEFINE version == loaded[route]
           input == SubmissionValues(Form, answers, Filer)
<1>1. /\ route # Nil /\ route \in Routes /\ version # Nil /\ version \in Versions
      /\ sending' = [route |-> route, input |-> input, form |-> version]
      /\ MissingRequired(Form, answers, Filer) = {}
  BY DEF Submit, PageTypeOK
<1>2. Form = ShownTo(version)
  BY <1>1 DEF Form
<1>3. \A k \in Keys : k \in Visible(Layout[version], Filer) => Form[k] = Layout[version][k]
  BY <1>1, <1>2 DEF ShownTo
<1>4. \A k \in Keys : k \notin Visible(Layout[version], Filer) => Form[k] = Nil
  BY <1>1, <1>2 DEF ShownTo
<1>5. Editable(Form, Filer) = Editable(Layout[version], Filer)
  BY <1>3, <1>4 DEF Editable, Visible, FieldsOf
<1>6. answers \in Answers
  BY DEF PageTypeOK
<1>7. \A k \in Keys : input[k] # Nil =>
        k \in Editable(Form, Filer) /\ IsFieldConditionVisible(Form[k].rule, input)
  BY <1>6, SubmissionsSettle DEF Settled
<1>8. \A k \in Editable(Form, Filer) :
        Form[k].required /\ IsFieldConditionVisible(Form[k].rule, input) => ItemsOf(input, k) # {}
  BY <1>1 DEF MissingRequired
<1>9. \A k \in Editable(Form, Filer) : k \in Keys /\ Form[k] = Layout[version][k]
  BY <1>3, <1>5 DEF Editable, Visible, FieldsOf
<1>10. sending'.form = version /\ sending'.input = input
  BY <1>1
<1> HIDE DEF version, input
<1> QED
  BY <1>5, <1>7, <1>8, <1>9, <1>10

LEMMA FiledStep ==
  ASSUME PageTypeOK, FiledInv, [PageNext]_pageVars
  PROVE  FiledInv'
<1>1. CASE UNCHANGED pageVars
  BY <1>1 DEF FiledInv
<1>2. ASSUME NEW r \in Routes \cup {Nil}, ChooseRoute(r)
      PROVE  FiledInv'
  BY <1>2 DEF ChooseRoute, FiledInv
<1>3. ASSUME NEW r \in Routes, LoadLayout(r)
      PROVE  FiledInv'
  BY <1>3 DEF LoadLayout, FiledInv
<1>4. ASSUME NEW r \in Routes, NEW version \in Versions, PublishLayout(r, version)
      PROVE  FiledInv'
  BY <1>4 DEF PublishLayout, FiledInv
<1>5. ASSUME NEW k \in Enabled, NEW value \in AnswersTo(Form[k]), EnterAnswer(k, value)
      PROVE  FiledInv'
  BY <1>5 DEF EnterAnswer, FiledInv
<1>6. ASSUME NEW k \in Keys, StartUpload(k)
      PROVE  FiledInv'
  BY <1>6 DEF StartUpload, FiledInv
<1>7. ASSUME NEW u \in uploads, FinishUpload(u)
      PROVE  FiledInv'
  BY <1>7 DEF FinishUpload, FiledInv
<1>8. ASSUME NEW u \in uploads, FailFormUpload(u)
      PROVE  FiledInv'
  BY <1>8 DEF FailFormUpload, FiledInv
<1>9. CASE Submit
  BY <1>9 DEF Submit, FiledInv
<1>10. CASE HandleSubmission
  <2>1. sending # Nil /\ sending \in Submission
    BY <1>10 DEF HandleSubmission, PageTypeOK
  <2> DEFINE version == published[sending.route]
             ticket == [version |-> version,
                        values |-> Sanitized(Layout[version], Filer, sending.input)]
  <2>2. created' = IF ErrorsOf(Layout[version], Filer, sending.input) # {} THEN Nil ELSE ticket
    BY <1>10 DEF HandleSubmission
  <2>3. version \in Versions /\ sending.input \in Answers
    BY <2>1 DEF Submission, PageTypeOK
  <2>4. ErrorsOf(Layout[version], Filer, sending.input) = {} => Answered(ticket)
    BY <2>3, FiledIsAnswered
  <2> HIDE DEF ticket
  <2> QED
    BY <2>2, <2>4 DEF FiledInv
<1>11. CASE SubmitByApi
  BY <1>11 DEF SubmitByApi, FiledInv
<1> QED
  BY <1>1, <1>2, <1>3, <1>4, <1>5, <1>6, <1>7, <1>8, <1>9, <1>10, <1>11 DEF PageNext

LEMMA SendingStep ==
  ASSUME PageTypeOK, SendingInv, [PageNext]_pageVars
  PROVE  SendingInv'
<1>1. CASE UNCHANGED pageVars
  BY <1>1 DEF SendingInv
<1>2. ASSUME NEW r \in Routes \cup {Nil}, ChooseRoute(r)
      PROVE  SendingInv'
  BY <1>2 DEF ChooseRoute, SendingInv
<1>3. ASSUME NEW r \in Routes, LoadLayout(r)
      PROVE  SendingInv'
  BY <1>3 DEF LoadLayout, SendingInv
<1>4. ASSUME NEW r \in Routes, NEW version \in Versions, PublishLayout(r, version)
      PROVE  SendingInv'
  BY <1>4 DEF PublishLayout, SendingInv
<1>5. ASSUME NEW k \in Enabled, NEW value \in AnswersTo(Form[k]), EnterAnswer(k, value)
      PROVE  SendingInv'
  BY <1>5 DEF EnterAnswer, SendingInv
<1>6. ASSUME NEW k \in Keys, StartUpload(k)
      PROVE  SendingInv'
  BY <1>6 DEF StartUpload, SendingInv
<1>7. ASSUME NEW u \in uploads, FinishUpload(u)
      PROVE  SendingInv'
  BY <1>7 DEF FinishUpload, SendingInv
<1>8. ASSUME NEW u \in uploads, FailFormUpload(u)
      PROVE  SendingInv'
  BY <1>8 DEF FailFormUpload, SendingInv
<1>9. CASE Submit
  BY <1>9, SubmitSuits
<1>10. CASE HandleSubmission
  BY <1>10 DEF HandleSubmission, SendingInv
<1>11. CASE SubmitByApi
  <2>1. sending'.form = Nil
    BY <1>11 DEF SubmitByApi
  <2> QED
    BY <2>1 DEF SendingInv
<1> QED
  BY <1>1, <1>2, <1>3, <1>4, <1>5, <1>6, <1>7, <1>8, <1>9, <1>10, <1>11 DEF PageNext

PageInv == PageTypeOK /\ FiledInv /\ SendingInv

LEMMA PageInvInit == PageInit => PageInv
BY DEF PageInit, PageInv, PageTypeOK, FiledInv, SendingInv, NoAnswers, Answers

LEMMA PageInvStep == PageInv /\ [PageNext]_pageVars => PageInv'
BY PageTypesStep, FiledStep, SendingStep DEF PageInv

(* Answers, submissions and tickets keep their shape.                      *)
THEOREM PageIsTyped == PageSpec => []PageTypeOK
<1>1. PageInv => PageTypeOK
  BY DEF PageInv
<1> QED
  BY <1>1, PageInvInit, PageInvStep, PTL DEF PageSpec

(* Whatever the page, another client or an outdated form sends, a ticket   *)
(* holds only answers that its author was allowed to give and that suit    *)
(* the form, and no role gets an answer or a file that is hidden from it.  *)
THEOREM AnswersAreAlwaysAllowed == PageSpec => []AnswersAreAllowed
<1>1. PageInv => AnswersAreAllowed
  BY FiledInvIsEnough DEF PageInv
<1> QED
  BY <1>1, PageInvInit, PageInvStep, PTL DEF PageSpec

(* One handled submission: page and server agree.                          *)
HandledAsAsked ==
  sending # Nil /\ sending' = Nil =>
    LET layout == Layout[published[sending.route]]
        asked == Asked(layout, Filer, sending.input)
    IN /\ sending.form = published[sending.route] =>
            \/ created' # Nil
            \/ \E k \in asked : Breaks(layout[k], Used(layout[k], sending.input[k]))
       /\ created' # Nil => \A k \in asked : layout[k].required => created'.values[k] # Nil

LEMMA SubmissionIsHandled ==
  ASSUME PageInv, HandleSubmission
  PROVE  HandledAsAsked
<1> DEFINE version == published[sending.route]
           layout == Layout[version]
           input == sending.input
           asked == Asked(layout, Filer, input)
           errors == ErrorsOf(layout, Filer, input)
<1>1. /\ sending # Nil /\ sending \in Submission
      /\ created' = IF errors # {} THEN Nil
                    ELSE [version |-> version, values |-> Sanitized(layout, Filer, input)]
  BY DEF HandleSubmission, PageInv, PageTypeOK
<1>2. version \in Versions /\ input \in Answers /\ version # Nil
  BY <1>1, NilAssumption DEF Submission, PageInv, PageTypeOK
<1>3. layout \in FormLayouts
  BY <1>2, LayoutIs
<1>4. created' # Nil => \A k \in asked : layout[k].required => created'.values[k] # Nil
  <2> SUFFICES ASSUME created' # Nil, NEW k \in asked, layout[k].required
               PROVE  created'.values[k] # Nil
    OBVIOUS
  <2>1. errors = {} /\ created'.values = Sanitized(layout, Filer, input)
    BY <1>1
  <2>2. k \in Keys /\ ~Unanswered(Used(layout[k], input[k]))
    BY <2>1 DEF ErrorsOf, Asked, Editable, Visible, FieldsOf
  <2>3. Used(layout[k], input[k]) # Nil
    BY <2>2 DEF Unanswered
  <2> QED
    BY <2>1, <2>2, <2>3 DEF Sanitized
<1>5. ASSUME sending.form = version, created' = Nil
      PROVE  \E k \in asked : Breaks(layout[k], Used(layout[k], input[k]))
  <2>1. errors # {}
    <3>1. errors = {} => created' \in Filed
      BY <1>1, <1>2, <1>3, SanitizedIs DEF Filed
    <3> QED
      BY <3>1, <1>5, NilAssumption
  <2>2. /\ \A k \in Keys : input[k] # Nil =>
             k \in Editable(layout, Filer) /\ IsFieldConditionVisible(layout[k].rule, input)
        /\ \A k \in Editable(layout, Filer) :
             layout[k].required /\ IsFieldConditionVisible(layout[k].rule, input) =>
               ItemsOf(input, k) # {}
    BY <1>1, <1>2, <1>5 DEF PageInv, SendingInv
  <2>3. RefusedKeys(layout, Filer, input) = {}
    BY <2>2 DEF RefusedKeys
  <2>4. PICK k \in asked : IF Unanswered(Used(layout[k], input[k])) THEN layout[k].required
                           ELSE ~WellFormed(layout[k], Used(layout[k], input[k]))
    BY <2>1, <2>3 DEF ErrorsOf
  <2>5. ~Unanswered(Used(layout[k], input[k]))
    <3> SUFFICES ASSUME layout[k].required PROVE ~Unanswered(Used(layout[k], input[k]))
      BY <2>4
    <3>1. ItemsOf(input, k) # {}
      BY <2>2 DEF Asked
    <3>2. ~Unanswered(input[k])
      BY <3>1 DEF ItemsOf, Unanswered
    <3> QED
      BY <3>2 DEF Used
  <2> QED
    BY <2>4, <2>5 DEF Breaks
<1> QED
  BY <1>4, <1>5 DEF HandledAsAsked

LEMMA HandledStep ==
  ASSUME PageInv, [PageNext]_pageVars
  PROVE  HandledAsAsked
<1>1. CASE UNCHANGED pageVars
  BY <1>1 DEF HandledAsAsked
<1>2. ASSUME NEW r \in Routes \cup {Nil}, ChooseRoute(r)
      PROVE  HandledAsAsked
  <2>1. sending' = sending
    BY <1>2 DEF ChooseRoute
  <2> QED
    BY <2>1 DEF HandledAsAsked
<1>3. ASSUME NEW r \in Routes, LoadLayout(r)
      PROVE  HandledAsAsked
  <2>1. sending' = sending
    BY <1>3 DEF LoadLayout
  <2> QED
    BY <2>1 DEF HandledAsAsked
<1>4. ASSUME NEW r \in Routes, NEW version \in Versions, PublishLayout(r, version)
      PROVE  HandledAsAsked
  <2>1. sending' = sending
    BY <1>4 DEF PublishLayout
  <2> QED
    BY <2>1 DEF HandledAsAsked
<1>5. ASSUME NEW k \in Enabled, NEW value \in AnswersTo(Form[k]), EnterAnswer(k, value)
      PROVE  HandledAsAsked
  <2>1. sending' = sending
    BY <1>5 DEF EnterAnswer
  <2> QED
    BY <2>1 DEF HandledAsAsked
<1>6. ASSUME NEW k \in Keys, StartUpload(k)
      PROVE  HandledAsAsked
  <2>1. sending' = sending
    BY <1>6 DEF StartUpload
  <2> QED
    BY <2>1 DEF HandledAsAsked
<1>7. ASSUME NEW u \in uploads, FinishUpload(u)
      PROVE  HandledAsAsked
  <2>1. sending' = sending
    BY <1>7 DEF FinishUpload
  <2> QED
    BY <2>1 DEF HandledAsAsked
<1>8. ASSUME NEW u \in uploads, FailFormUpload(u)
      PROVE  HandledAsAsked
  <2>1. sending' = sending
    BY <1>8 DEF FailFormUpload
  <2> QED
    BY <2>1 DEF HandledAsAsked
<1>9. CASE Submit
  <2>1. sending = Nil
    BY <1>9 DEF Submit
  <2> QED
    BY <2>1 DEF HandledAsAsked
<1>10. CASE HandleSubmission
  BY <1>10, SubmissionIsHandled
<1>11. CASE SubmitByApi
  <2>1. sending = Nil
    BY <1>11 DEF SubmitByApi
  <2> QED
    BY <2>1 DEF HandledAsAsked
<1> QED
  BY <1>1, <1>2, <1>3, <1>4, <1>5, <1>6, <1>7, <1>8, <1>9, <1>10, <1>11 DEF PageNext

(* As long as the form has not changed, the server refuses of the page     *)
(* only what breaks a field's type or format: what the page removes and    *)
(* asks for is what the server refuses and wants, for every form, however  *)
(* its fields depend on each other.                                        *)
THEOREM PageAlwaysAgreesWithServer == PageSpec => ClientAgreesWithServer
<1>1. PageInv /\ [PageNext]_pageVars => [HandledAsAsked]_pageVars
  BY HandledStep
<1>2. ClientAgreesWithServer <=> [][HandledAsAsked]_pageVars
  BY PTL DEF ClientAgreesWithServer, HandledAsAsked
<1> QED
  BY <1>1, <1>2, PageInvInit, PageInvStep, PTL DEF PageSpec
-----------------------------------------------------------------------------
(* What a row's files have become since the first start: a public copy is  *)
(* as it was, or is gone because the private storage has its equal; a      *)
(* private file that was there is as it was.  A private file that is cut   *)
(* short still has a public copy to be compared with.                      *)
FilesDerive ==
  \A a \in Legacy :
    /\ \A r \in PublicRoots : public[a][r] # before.public[a][r] =>
         public[a][r] = NoFile /\ private[a] = before.public[a][r]
    /\ before.private[a] # NoFile => private[a] = before.private[a]
    /\ private[a] = Partial => \E r \in PublicRoots : public[a][r] # NoFile

(* What the run knows is still so: the copies it found are the copies that *)
(* are there, it copies over nothing, and it has compared what it removes. *)
RunIsRight ==
  script \in Run =>
    /\ \A a \in script.done : path[a] = "private"
    /\ script.stage # "next" => script.sources = Sources(script.at)
    /\ script.stage \in {"found", "copying"} =>
         private[script.at] # NoFile \/ script.sources # {}
    /\ script.stage = "copying" => private[script.at] = Partial
    /\ script.stage \in {"verified", "moved"} =>
         /\ private[script.at] # NoFile
         /\ \A r \in script.sources : public[script.at][r] = private[script.at]
    /\ script.stage = "moved" => path[script.at] = "private"

NothingIsPublic ==
  script = Serving =>
    /\ ~orphan
    /\ \A a \in Legacy : path[a] = "private" /\ \A r \in PublicRoots : public[a][r] = NoFile

MigrationInv == MigrationTypeOK /\ FilesDerive /\ RunIsRight /\ NothingIsPublic

-----------------------------------------------------------------------------
LEMMA RunsAreRuns ==
  /\ Stopped \notin Run /\ Serving \notin Run /\ Stopped # Serving
  /\ Stopped.stage = "stopped" /\ Serving.stage = "serving"
BY DEF Run, Stopped, Serving

LEMMA MigrationInvInit == MigrationInit => MigrationInv
BY RunsAreRuns, MigrationAssumption
   DEF MigrationInit, MigrationInv, MigrationTypeOK, FilesDerive, RunIsRight,
       NothingIsPublic, Copies

(* One step of the script, or of what stops it.                            *)
LEMMA MigrationInvStep == MigrationInv /\ [MigrationNext]_migrationVars => MigrationInv'
<1> SUFFICES ASSUME MigrationInv, [MigrationNext]_migrationVars
             PROVE  MigrationInv'
  OBVIOUS
<1>1. CASE UNCHANGED migrationVars
  BY <1>1 DEF MigrationInv, MigrationTypeOK, FilesDerive, RunIsRight, NothingIsPublic, Sources
<1>2. CASE StopScript
  BY <1>2, RunsAreRuns
     DEF StopScript, MigrationInv, MigrationTypeOK, FilesDerive, RunIsRight, NothingIsPublic, Sources
<1>3. CASE StartScript
  <2>1. script' \in Run /\ script'.stage = "next" /\ script'.done = {}
    BY <1>3 DEF StartScript, Run
  <2> QED
    BY <1>3, <2>1, RunsAreRuns
       DEF StartScript, MigrationInv, MigrationTypeOK, FilesDerive, RunIsRight, NothingIsPublic
<1>4. CASE FinishScript
  <2>1. script \in Run
    BY <1>4, RunsAreRuns DEF FinishScript, MigrationInv, MigrationTypeOK
  <2>2. script' \in {Stopped, Serving}
    BY <1>4 DEF FinishScript
  <2>3. \A a \in Legacy : path[a] = "private"
    BY <1>4, <2>1 DEF FinishScript, MigrationInv, RunIsRight
  <2>4. ASSUME script' = Serving
        PROVE  ~orphan /\ \A a \in Legacy : Sources(a) = {}
    BY <1>4, <2>4, RunsAreRuns DEF FinishScript
  <2> QED
    BY <1>4, <2>1, <2>2, <2>3, <2>4, RunsAreRuns
       DEF FinishScript, MigrationInv, MigrationTypeOK, FilesDerive, RunIsRight, NothingIsPublic, Sources
<1>5. ASSUME NEW a \in Legacy, script.stage \in {"next", "found", "copying", "verified", "moved"}
      PROVE  script \in Run
  BY <1>5, RunsAreRuns DEF MigrationInv, MigrationTypeOK
<1>6. ASSUME NEW a \in Legacy, FindSources(a)
      PROVE  MigrationInv'
  <2>1. script \in Run /\ script.stage = "next" /\ UNCHANGED <<path, public, private, before, orphan, starts>>
    BY <1>5, <1>6 DEF FindSources
  <2>2. CASE Sources(a) = {} /\ private[a] = NoFile
    <3>1. script' = Stopped \/ (path[a] = "private" /\ script' = [script EXCEPT !.done = @ \cup {a}])
      BY <1>6, <2>2 DEF FindSources, MigrationInv, MigrationTypeOK
    <3>2. CASE script' = Stopped
      BY <2>1, <3>2, RunsAreRuns
         DEF MigrationInv, MigrationTypeOK, FilesDerive, RunIsRight, NothingIsPublic, Sources
    <3>3. CASE path[a] = "private" /\ script' = [script EXCEPT !.done = @ \cup {a}]
      <4>1. script' \in Run /\ script'.stage = "next" /\ script'.done = script.done \cup {a}
        BY <1>6, <2>1, <3>3 DEF Run, FindSources
      <4>2. MigrationTypeOK' /\ FilesDerive'
        BY <2>1, <4>1 DEF MigrationInv, MigrationTypeOK, FilesDerive
      <4>3. RunIsRight' /\ NothingIsPublic'
        BY <2>1, <3>3, <4>1, RunsAreRuns DEF MigrationInv, RunIsRight, NothingIsPublic, Sources
      <4> QED
        BY <4>2, <4>3 DEF MigrationInv
    <3> QED
      BY <3>1, <3>2, <3>3
  <2>3. CASE ~(Sources(a) = {} /\ private[a] = NoFile)
    <3>1. script' = [script EXCEPT !.stage = "found", !.at = a, !.sources = Sources(a)]
      BY <1>6, <2>3 DEF FindSources
    <3>2. /\ script' \in Run /\ script'.stage = "found" /\ script'.at = a
          /\ script'.done = script.done /\ script'.sources = Sources(a)
      BY <2>1, <3>1 DEF Run, Sources
    <3> QED
      BY <1>6, <2>1, <2>3, <3>2, RunsAreRuns
         DEF FindSources, MigrationInv, MigrationTypeOK, FilesDerive, RunIsRight, NothingIsPublic, Sources
  <2> QED
    BY <2>2, <2>3
<1>7. ASSUME NEW a \in Legacy, NEW stage \in {"found", "copying", "verified", "moved"},
             script \in Run, script.at = a, Keep(stage)
      PROVE  /\ script' \in Run /\ script'.stage = stage /\ script'.at = a
             /\ script'.done = script.done /\ script'.sources = script.sources
  BY <1>7 DEF Keep, Run
<1>8. ASSUME NEW a \in Legacy, BeginCopy(a)
      PROVE  MigrationInv'
  <2>1. script \in Run /\ script.stage = "found" /\ script.at = a
    BY <1>5, <1>8 DEF BeginCopy, At
  <2>2. /\ script' \in Run /\ script'.stage = "copying" /\ script'.at = a
        /\ script'.done = script.done /\ script'.sources = script.sources
    BY <1>7, <1>8, <2>1 DEF BeginCopy
  <2>3. private' = [private EXCEPT ![a] = Partial] /\ private[a] = NoFile /\ UNCHANGED <<path, public, before, orphan, starts>>
    BY <1>8 DEF BeginCopy
  <2>4. script.sources # {} /\ script.sources = Sources(a)
    BY <2>1, <2>3 DEF MigrationInv, RunIsRight
  <2>5. MigrationTypeOK'
    BY <2>2, <2>3 DEF MigrationInv, MigrationTypeOK
  <2>6. FilesDerive'
    BY <2>3, <2>4, MigrationAssumption
       DEF MigrationInv, MigrationTypeOK, FilesDerive, Sources, Copies
  <2>7. RunIsRight' /\ NothingIsPublic'
    BY <2>1, <2>2, <2>3, <2>4, RunsAreRuns
       DEF MigrationInv, MigrationTypeOK, RunIsRight, NothingIsPublic, Sources
  <2> QED
    BY <2>5, <2>6, <2>7 DEF MigrationInv
<1>9. ASSUME NEW a \in Legacy, EndCopy(a)
      PROVE  MigrationInv'
  <2>1. script \in Run /\ script.stage = "copying" /\ script.at = a
    BY <1>5, <1>9 DEF EndCopy, At
  <2>2. /\ script' \in Run /\ script'.stage = "found" /\ script'.at = a
        /\ script'.done = script.done /\ script'.sources = script.sources
    BY <1>7, <1>9, <2>1 DEF EndCopy
  <2>3. script.sources # {} /\ script.sources = Sources(a) /\ private[a] = Partial
    BY <2>1, MigrationAssumption DEF MigrationInv, RunIsRight, FilesDerive, Sources
  <2>4. First(a) \in PublicRoots /\ public[a][First(a)] # NoFile
    BY <2>3 DEF First, Sources
  <2>5. PICK bytes \in Bytes0 : bytes = public[a][First(a)]
    BY <2>4 DEF MigrationInv, MigrationTypeOK, Copies
  <2>6. private' = [private EXCEPT ![a] = bytes] /\ UNCHANGED <<path, public, before, orphan, starts>>
    BY <1>9, <2>5 DEF EndCopy
  <2>7. MigrationTypeOK'
    BY <2>2, <2>6 DEF MigrationInv, MigrationTypeOK
  <2>8. FilesDerive'
    BY <2>3, <2>6, MigrationAssumption DEF MigrationInv, MigrationTypeOK, FilesDerive, Copies
  <2>9. RunIsRight' /\ NothingIsPublic'
    BY <2>1, <2>2, <2>3, <2>6, RunsAreRuns, MigrationAssumption
       DEF MigrationInv, MigrationTypeOK, RunIsRight, NothingIsPublic, Sources
  <2> QED
    BY <2>7, <2>8, <2>9 DEF MigrationInv
<1>10. ASSUME NEW a \in Legacy, Verify(a)
       PROVE  MigrationInv'
  <2>1. script \in Run /\ script.stage = "found" /\ script.at = a
    BY <1>5, <1>10 DEF Verify, At
  <2>2. CASE SameBytes(a)
    <3>1. /\ script' \in Run /\ script'.stage = "verified" /\ script'.at = a
          /\ script'.done = script.done /\ script'.sources = script.sources
      BY <1>7, <1>10, <2>1, <2>2 DEF Verify
    <3> QED
      BY <1>10, <2>1, <2>2, <3>1, RunsAreRuns
         DEF Verify, SameBytes, MigrationInv, MigrationTypeOK, FilesDerive, RunIsRight, NothingIsPublic, Sources
  <2>3. CASE ~SameBytes(a)
    BY <1>10, <2>3, RunsAreRuns
       DEF Verify, MigrationInv, MigrationTypeOK, FilesDerive, RunIsRight, NothingIsPublic, Sources
  <2> QED
    BY <2>2, <2>3
<1>11. ASSUME NEW a \in Legacy, UpdatePath(a)
       PROVE  MigrationInv'
  <2>1. script \in Run /\ script.stage = "verified" /\ script.at = a
    BY <1>5, <1>11 DEF UpdatePath, At
  <2>2. /\ script' \in Run /\ script'.stage = "moved" /\ script'.at = a
        /\ script'.done = script.done /\ script'.sources = script.sources
    BY <1>7, <1>11, <2>1 DEF UpdatePath
  <2>3. path' = [path EXCEPT ![a] = "private"] /\ UNCHANGED <<public, private, before, orphan, starts>>
    BY <1>11 DEF UpdatePath
  <2> QED
    BY <2>1, <2>2, <2>3, RunsAreRuns
       DEF MigrationInv, MigrationTypeOK, FilesDerive, RunIsRight, NothingIsPublic, Sources, Run
<1>12. ASSUME NEW a \in Legacy, NEW r \in PublicRoots, RemoveCopy(a, r)
       PROVE  MigrationInv'
  <2>1. script \in Run /\ script.stage = "moved" /\ script.at = a /\ r \in script.sources
    BY <1>5, <1>12 DEF RemoveCopy, At
  <2>2. /\ script' \in Run /\ script'.stage = "moved" /\ script'.at = a
        /\ script'.done = script.done /\ script'.sources = script.sources \ {r}
    BY <1>12, <2>1 DEF RemoveCopy, Run
  <2>3. /\ public' = [public EXCEPT ![a] = [@ EXCEPT ![r] = NoFile]]
        /\ UNCHANGED <<path, private, before, orphan, starts>>
    BY <1>12 DEF RemoveCopy
  <2>4. /\ script.sources = Sources(a) /\ path[a] = "private" /\ private[a] # NoFile
        /\ \A q \in script.sources : public[a][q] = private[a]
    BY <2>1 DEF MigrationInv, RunIsRight
  <2>5. public[a] \in Copies /\ public[a][r] \in Bytes0 /\ public[a][r] = private[a]
    BY <2>1, <2>4 DEF MigrationInv, MigrationTypeOK, Copies, Sources
  <2>6. /\ public' \in [Legacy -> Copies]
        /\ \A b \in Legacy, q \in PublicRoots :
             public'[b][q] = IF b = a /\ q = r THEN NoFile ELSE public[b][q]
    <3>1. [public[a] EXCEPT ![r] = NoFile] \in Copies
      BY <2>5 DEF Copies
    <3>2. public \in [Legacy -> Copies]
      BY DEF MigrationInv, MigrationTypeOK
    <3> QED
      BY <2>3, <2>5, <3>1, <3>2 DEF Copies
  <2>7. MigrationTypeOK'
    BY <2>2, <2>3, <2>6 DEF MigrationInv, MigrationTypeOK
  <2>8. FilesDerive'
    BY <2>3, <2>5, <2>6, MigrationAssumption DEF MigrationInv, FilesDerive
  <2>9. RunIsRight' /\ NothingIsPublic'
    <3>1. Sources(a)' = Sources(a) \ {r}
      BY <2>6, <2>5, MigrationAssumption DEF Sources
    <3> QED
      BY <2>1, <2>2, <2>3, <2>4, <2>6, <3>1, RunsAreRuns
         DEF MigrationInv, RunIsRight, NothingIsPublic, Sources
  <2> QED
    BY <2>7, <2>8, <2>9 DEF MigrationInv
<1>13. ASSUME NEW a \in Legacy, EndRow(a)
       PROVE  MigrationInv'
  <2>1. script \in Run /\ script.stage = "moved" /\ script.at = a /\ path[a] = "private"
    BY <1>5, <1>13 DEF EndRow, At, MigrationInv, RunIsRight
  <2>2. script' \in Run /\ script'.stage = "next" /\ script'.done = script.done \cup {a}
    BY <1>13, <2>1 DEF EndRow, Run
  <2> QED
    BY <1>13, <2>1, <2>2, RunsAreRuns
       DEF EndRow, MigrationInv, MigrationTypeOK, FilesDerive, RunIsRight, NothingIsPublic, Sources
<1> QED
  BY <1>1, <1>2, <1>3, <1>4, <1>6, <1>8, <1>9, <1>10, <1>11, <1>12, <1>13 DEF MigrationNext

LEMMA MigrationInvMeans == MigrationInv => NoBytesAreLost
BY MigrationAssumption DEF MigrationInv, FilesDerive, NothingIsPublic, NoBytesAreLost, Sources

(* However often the script is stopped and started again, no bytes of an   *)
(* attachment are lost and the application runs only when all was moved.   *)
THEOREM BytesAreNeverLost == MigrationSpec => []NoBytesAreLost
BY MigrationInvInit, MigrationInvStep, MigrationInvMeans, PTL DEF MigrationSpec
-----------------------------------------------------------------------------
(* Who deleted an entry is known, and a changed text is marked.            *)
EntryIsMarked ==
  /\ entry.deletedAt => entry.deletedById # None
  /\ ~entry.deletedAt /\ entry.content # FirstText => "edited" \in entry.metadata

EditsHaveTexts ==
  \A r \in Requests : req[r] # None /\ req[r].op = "edit" => req[r].text \in Texts

TimelineInv == TypeOK /\ EntryIsMarked /\ EditsHaveTexts

LEMMA EntriesAreEntries ==
  ASSUME NEW now \in Entry, NEW held \in Entry
  PROVE  /\ \A text \in Texts : Edited(now, held, text) \in Entry
         /\ \A u \in Users : Tombstoned(now, held, u) \in Entry
BY DEF Entry, Edited, Tombstoned

LEMMA TimelineInvInit == Init => TimelineInv
<1> SUFFICES ASSUME Init PROVE TimelineInv
  OBVIOUS
<1>1. PICK type \in Types, author \in Users :
        entry = [type |-> type, userId |-> author, content |-> FirstText,
                 metadata |-> {}, deletedAt |-> FALSE, deletedById |-> None]
  BY DEF Init
<1>2. entry \in Entry /\ entry.deletedAt = FALSE /\ entry.content = FirstText
  BY <1>1 DEF Entry
<1> QED
  BY <1>2, TimelineAssumption DEF Init, TimelineInv, TypeOK, EntryIsMarked, EditsHaveTexts

LEMMA TimelineInvStep == TimelineInv /\ [Next]_vars => TimelineInv'
<1> SUFFICES ASSUME TimelineInv, [Next]_vars
             PROVE  TimelineInv'
  OBVIOUS
<1> DEFINE Request ==
             [op : {"edit", "delete"}, by : Users, text : Texts \cup {None},
              held : Entry, stage : {"loaded", "ready"}]
<1>1. entry \in Entry /\ req \in [Requests -> Request \cup {None}] /\ None \notin Users
  BY TimelineAssumption DEF TimelineInv, TypeOK
<1>2. CASE UNCHANGED vars
  BY <1>2 DEF vars, TimelineInv, TypeOK, EntryIsMarked, EditsHaveTexts
<1>3. ASSUME NEW r \in Requests, NEW u \in Users, NEW op \in {"edit", "delete"},
             NEW text \in Texts \cup {None}, Load(r, u, op, text), op = "edit" => text \in Texts
      PROVE  TimelineInv'
  <2>1. [op |-> op, by |-> u, text |-> text, held |-> entry, stage |-> "loaded"] \in Request
    BY <1>1
  <2> QED
    BY <1>3, <2>1 DEF Load, TimelineInv, TypeOK, EntryIsMarked, EditsHaveTexts
<1>4. ASSUME NEW r \in Requests, Authorize(r)
      PROVE  TimelineInv'
  <2>1. req[r] \in Request
    BY <1>1, <1>4 DEF Authorize
  <2> DEFINE ready == [req[r] EXCEPT !.stage = "ready"]
  <2>2. ready \in Request /\ ready.op = req[r].op /\ ready.text = req[r].text
    BY <2>1
  <2>3. req' = [req EXCEPT ![r] = ready] /\ UNCHANGED <<entry, isOld, access, writes>>
    BY <1>4 DEF Authorize
  <2>4. req[r] # None
    BY <1>4 DEF Authorize
  <2> HIDE DEF ready
  <2> QED
    BY <1>1, <2>2, <2>3, <2>4 DEF TimelineInv, TypeOK, EntryIsMarked, EditsHaveTexts
<1>5. ASSUME NEW r \in Requests, CommitEdit(r)
      PROVE  TimelineInv'
  <2>1. req[r] \in Request /\ req[r].text \in Texts
    BY <1>1, <1>5 DEF CommitEdit, Holds, TimelineInv, EditsHaveTexts
  <2>2. PICK row \in Entry : row = Edited(entry, req[r].held, req[r].text)
    BY <1>1, <2>1, EntriesAreEntries
  <2>3. /\ row.deletedAt = entry.deletedAt /\ row.deletedById = entry.deletedById
        /\ "edited" \in row.metadata
    BY <1>1, <2>1, <2>2 DEF Edited, Entry
  <2> QED
    BY <1>5, <2>2, <2>3 DEF CommitEdit, Commit, TimelineInv, TypeOK, EntryIsMarked, EditsHaveTexts
<1>6. ASSUME NEW r \in Requests, CommitDelete(r)
      PROVE  TimelineInv'
  <2>1. req[r] \in Request
    BY <1>1, <1>6 DEF CommitDelete, Holds
  <2>2. PICK row \in Entry : row = Tombstoned(entry, req[r].held, req[r].by)
    BY <1>1, <2>1, EntriesAreEntries
  <2>3. row.deletedAt = TRUE /\ row.deletedById # None
    BY <1>1, <2>1, <2>2 DEF Tombstoned, Entry
  <2> QED
    BY <1>6, <2>2, <2>3 DEF CommitDelete, Commit, TimelineInv, TypeOK, EntryIsMarked, EditsHaveTexts
<1>7. ASSUME NEW r \in Requests, EndWithoutEffect(r)
      PROVE  TimelineInv'
  BY <1>7 DEF EndWithoutEffect, TimelineInv, TypeOK, EntryIsMarked, EditsHaveTexts
<1>8. CASE GrowOld
  BY <1>8 DEF GrowOld, TimelineInv, TypeOK, EntryIsMarked, EditsHaveTexts
<1>9. ASSUME NEW u \in Users, LoseAccess(u)
      PROVE  TimelineInv'
  BY <1>9 DEF LoseAccess, TimelineInv, TypeOK, EntryIsMarked, EditsHaveTexts
<1> QED
  BY <1>2, <1>3, <1>4, <1>5, <1>6, <1>7, <1>8, <1>9 DEF Next

(* Whatever requests raced, a deleted entry stays deleted and attributed,  *)
(* and a text that is not the first one is marked as edited.               *)
THEOREM EntriesKeepTheirHistory == Spec => HistoryIsKept
<1>1. TimelineInv /\ TimelineInv' /\ [Next]_vars =>
        [/\ entry.deletedAt => entry'.deletedAt /\ entry'.deletedById # None
         /\ ~entry'.deletedAt /\ entry'.content # FirstText => "edited" \in entry'.metadata]_vars
  <2> SUFFICES ASSUME TimelineInv, TimelineInv', Next
               PROVE  entry.deletedAt => entry'.deletedAt
    BY DEF TimelineInv, EntryIsMarked
  <2>1. ASSUME NEW r \in Requests, CommitEdit(r)
        PROVE  entry.deletedAt => entry'.deletedAt
    <3>1. entry' = Edited(entry, req[r].held, req[r].text) /\ entry \in Entry
      BY <2>1 DEF CommitEdit, Commit, TimelineInv, TypeOK
    <3> QED
      BY <3>1 DEF Edited, Entry
  <2>2. ASSUME NEW r \in Requests, CommitDelete(r)
        PROVE  entry.deletedAt => entry'.deletedAt
    <3>1. entry' = Tombstoned(entry, req[r].held, req[r].by) /\ entry \in Entry
      BY <2>2 DEF CommitDelete, Commit, TimelineInv, TypeOK
    <3> QED
      BY <3>1 DEF Tombstoned, Entry
  <2>3. CASE UNCHANGED entry
    BY <2>3
  <2> QED
    BY <2>1, <2>2, <2>3 DEF Next, Load, Authorize, EndWithoutEffect, GrowOld, LoseAccess
<1> QED
  BY <1>1, TimelineInvInit, TimelineInvStep, PTL DEF Spec, HistoryIsKept
-----------------------------------------------------------------------------
(* The parts together: a ticket's timeline, files, form and answers.       *)
ContentInv ==
  /\ subject = "timeline" => TimelineInv
  /\ subject = "attachments" => QuotaInv /\ FilesInv
  /\ subject = "migration" => MigrationInv
  /\ subject = "forms" => FormsInv
  /\ subject = "page" => PageInv

contentVars == <<subject, vars, attachmentVars, migrationVars, formVars, pageVars>>

LEMMA ContentInvInit == MCInit => ContentInv
BY TimelineInvInit, QuotasInit, FilesInit, MigrationInvInit, FormsInvInit, PageInvInit
   DEF MCInit, ContentInv, PageStart

LEMMA ContentInvStep == ContentInv /\ [MCNext]_contentVars => ContentInv'
<1> SUFFICES ASSUME ContentInv, [MCNext]_contentVars PROVE ContentInv'
  OBVIOUS
<1>1. UNCHANGED subject
  BY DEF MCNext, contentVars
<1>2. CASE subject = "timeline"
  <2>1. [Next]_vars /\ TimelineInv
    BY <1>2 DEF MCNext, contentVars, ContentInv
  <2> QED
    BY <1>1, <1>2, <2>1, TimelineInvStep DEF ContentInv
<1>3. CASE subject = "attachments"
  <2>1. [AttachmentsNext]_attachmentVars /\ QuotaInv /\ FilesInv
    BY <1>3 DEF MCNext, contentVars, ContentInv
  <2> QED
    BY <1>1, <1>3, <2>1, QuotaInvStep, FilesInvStep DEF ContentInv
<1>4. CASE subject = "migration"
  <2>1. [MigrationNext]_migrationVars /\ MigrationInv
    BY <1>4 DEF MCNext, contentVars, ContentInv
  <2> QED
    BY <1>1, <1>4, <2>1, MigrationInvStep DEF ContentInv
<1>5. CASE subject = "forms"
  <2>1. [FormsNext]_formVars /\ FormsInv
    BY <1>5 DEF MCNext, contentVars, ContentInv
  <2> QED
    BY <1>1, <1>5, <2>1, FormsInvStep DEF ContentInv
<1>6. CASE subject = "page"
  <2>1. [PageNext]_pageVars /\ PageInv
    BY <1>6 DEF MCNext, contentVars, ContentInv
  <2> QED
    BY <1>1, <1>6, <2>1, PageInvStep DEF ContentInv
<1> QED
  BY <1>1, <1>2, <1>3, <1>4, <1>5, <1>6 DEF ContentInv

(* Rows, files, forms, answers and requests in flight keep their shape.    *)
THEOREM ContentIsTyped == MCSpec => []ContentTypeOK
<1>1. ContentInv => ContentTypeOK
  BY DEF ContentInv, ContentTypeOK, TimelineInv, QuotaInv, TypesInv, MigrationInv, FormsInv, PageInv
<1> QED
  BY <1>1, ContentInvInit, ContentInvStep, PTL DEF MCSpec, contentVars

(* What a row says of its file is so, through every crash, and the move to *)
(* the private storage loses no bytes, however often it is cut short.      *)
THEOREM FilesStaySafe == MCSpec => []FilesAreSafe
<1>1. ContentInv => FilesAreSafe
  BY RowsHaveTheirFiles, MigrationInvMeans DEF ContentInv, FilesAreSafe
<1> QED
  BY <1>1, ContentInvInit, ContentInvStep, PTL DEF MCSpec, contentVars
=============================================================================
