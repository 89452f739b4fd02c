-------------------------- MODULE MCTicketContent --------------------------
(***************************************************************************)
(* Small instances of the modules about what a ticket holds: its timeline, *)
(* its files, the values of its form and the page that sends them.  They   *)
(* share no variable, so that their interleavings show nothing that a      *)
(* behaviour of one of them does not: subject says which one takes steps.  *)
(***************************************************************************)
EXTENDS TimelineEntries, Attachments, AttachmentMigration, Forms,
  FormSubmission, TLC

VARIABLE subject

Subjects == {"timeline", "attachments", "migration", "forms", "page"}

CONSTANTS requester, agent, admin, large

MCRole ==
  [u \in Users |-> CASE u = requester -> "USER"
                     [] u = agent -> "AGENT"
                     [] u = admin -> "ADMIN"]

MCSize == [f \in Files |-> IF f = large THEN 2 ELSE 1]

(* Forms with rules on other fields, fields hidden from a role and keys    *)
(* that change their type.                                                 *)
CONSTANTS k1, k2, k3, ra, rb
MCKeyOrder == <<k3, k2, k1>>

Field(type, required, visibleTo, editableBy) ==
  [type |-> type, required |-> required, visibleTo |-> visibleTo, editableBy |-> editableBy,
   rule |-> Nil, default |-> Nil, options |-> {"yes"}]
OpenField(type, required) == Field(type, required, Viewers, Viewers)
Rule(k, operator, expected) == [key |-> k, operator |-> operator, expected |-> expected]

Layout1 ==
  (k1 :> OpenField("CHECKBOX", FALSE)) @@
  (k2 :> [OpenField("TEXT", TRUE) EXCEPT !.rule = Rule(k1, "equals", {"ticked"})]) @@
  (k3 :> [OpenField("FILE", FALSE) EXCEPT !.rule = Rule(k2, "truthy", {})])
Layout2 ==
  (k1 :> [OpenField("TEXT", TRUE) EXCEPT !.default = Text("yes")]) @@
  (k2 :> [Field("FILE", FALSE, {"USER"}, {"USER"}) EXCEPT
            !.rule = Rule(k1, "notEquals", {Bad})]) @@
  (k3 :> OpenField("FILE", TRUE))
Layout3 ==
  (k1 :> [Field("DROPDOWN", FALSE, Viewers, {"AGENT"}) EXCEPT
            !.rule = Rule(k2, "notEquals", {"yes"})]) @@
  (k2 :> OpenField("TEXT", FALSE)) @@ (k3 :> Nil)
MCLayout == (1 :> Layout1) @@ (2 :> Layout2) @@ (3 :> Layout3)

PageStart ==
  PageInit /\ <<published[ra], published[rb]>> \in
    {<<1, 2>>, <<2, 3>>, <<3, 1>>}

(* A module that takes no steps starts from one state.                     *)
PageIdle == PageInit /\ published = [r \in Routes |-> 1]
TimelineIdle == Init /\ entry.type = "COMMENT" /\ entry.userId = admin
FormsIdle == FormsInit /\ form = [f \in Forms |-> Missing]
MigrationIdle ==
  /\ path = [a \in Legacy |-> "private"]
  /\ public = [a \in Legacy |-> [r \in PublicRoots |-> NoFile]]
  /\ private = [a \in Legacy |-> NoFile]
  /\ before = [public |-> public, private |-> private]
  /\ script = Stopped /\ orphan = FALSE /\ starts = 0

MCInit ==
  /\ subject \in Subjects
  /\ IF subject = "timeline" THEN Init ELSE TimelineIdle
  /\ AttachmentsInit
  /\ IF subject = "migration" THEN MigrationInit ELSE MigrationIdle
  /\ IF subject = "forms" THEN FormsInit ELSE FormsIdle
  /\ IF subject = "page" THEN PageStart ELSE PageIdle

MCNext ==
  /\ UNCHANGED subject
  /\ \/ /\ subject = "timeline" /\ Next
        /\ UNCHANGED <<attachmentVars, migrationVars, formVars, pageVars>>
     \/ /\ subject = "attachments" /\ AttachmentsNext
        /\ UNCHANGED <<vars, migrationVars, formVars, pageVars>>
     \/ /\ subject = "migration" /\ MigrationNext
        /\ UNCHANGED <<vars, attachmentVars, formVars, pageVars>>
     \/ /\ subject = "forms" /\ FormsNext
        /\ UNCHANGED <<vars, attachmentVars, migrationVars, pageVars>>
     \/ /\ subject = "page" /\ PageNext
        /\ UNCHANGED <<vars, attachmentVars, migrationVars, formVars>>

MCSpec ==
  MCInit
    /\ [][MCNext]_<<subject, vars, attachmentVars, migrationVars, formVars, pageVars>>

(* The shape of the rows, of the files and of what is in flight.           *)
ContentTypeOK ==
  /\ subject = "timeline" => TypeOK
  /\ subject = "attachments" => AttachmentsTypeOK
  /\ subject = "migration" => MigrationTypeOK
  /\ subject = "forms" => FormsTypeOK
  /\ subject = "page" => PageTypeOK

(* Files: what rows say of them, through every crash, is so, and moving    *)
(* them to the private storage loses none: see the parts.                  *)
FilesAreSafe ==
  /\ subject = "attachments" => FilesMatchRows
  /\ subject = "migration" => NoBytesAreLost

(* The slots of the modules are the same model values.                     *)
Symmetry == Permutations(Requests) \cup Permutations(FieldKeys) \cup Permutations(Departments)
=============================================================================
