---------------------------- MODULE Conversation ----------------------------
(***************************************************************************)
(* The conversation on the page of a ticket,                               *)
(* src/app/(dashboard)/tickets/[id]/page.tsx: the box for a reply or an    *)
(* internal note, the files added to it, and one entry that is edited and  *)
(* removed.  The page shows the entry as a read found it some time ago,    *)
(* while other people work on it; what it offers follows its own copy of   *)
(* the rules of the server.  Its user is the one of TicketPage.            *)
(***************************************************************************)
EXTENDS TicketPage

CONSTANTS
  Phrases,   \* what can be written
  MaxTalk    \* bound: requests of the page

VARIABLES
  remark,             \* the entry at the server
  remarkShown,        \* the entry on the page, Blank when it is not for this user
  composer, posting,  \* the reply being written, and the one in flight
  replies,            \* the entries and the files that were accepted
  files,              \* the files in flight: each with its visibility
  editor, saving,     \* the text being edited, and the edit in flight
  talk

talkVars ==
  <<remark, remarkShown, composer, posting, replies, files, editor, saving, talk>>

Moderates == myRole \in {"ADMIN", "SUPER_ADMIN"}

Remark == [own : BOOLEAN, internal : BOOLEAN, text : Phrases, deleted : BOOLEAN,
           old : BOOLEAN]
Reply == [text : Phrases \cup {Blank}, internal : BOOLEAN]

(* Requesters get no internal notes, also when they wrote them as agents.  *)
Visible(e) == IF e.internal /\ ~IsAgent THEN Blank ELSE e

ConversationInit ==
  /\ remark \in [own : BOOLEAN, internal : BOOLEAN, text : Phrases, deleted : {FALSE},
                 old : {FALSE}]
  /\ remarkShown = Visible(remark)
  /\ composer = [text |-> Blank, internal |-> FALSE] /\ posting = Blank
  /\ replies = {} /\ files = {}
  /\ editor = Blank /\ saving = Blank
  /\ talk = 0

-----------------------------------------------------------------------------
(* What the page offers, and what the server permits.                      *)

\* Mutant: the page forgets that entries grow old.
CanEditForever(e) == ~e.deleted /\ (Moderates \/ (e.own /\ (myRole = "USER" => ~e.internal)))

CanEditTimelineEvent(e) ==
  ~e.deleted /\ (Moderates \/ (e.own /\ (myRole = "USER" => ~e.internal) /\ ~e.old))
CanDeleteTimelineEvent(e) ==
  ~e.deleted /\ (Moderates \/ (e.own /\ ~(myRole = "USER" /\ e.internal)))

OwnConversationEntry(e) == e.own /\ (IsAgent \/ ~e.internal)
EditPermitted(e) == ~e.deleted /\ (Moderates \/ (OwnConversationEntry(e) /\ ~e.old))
DeletionPermitted(e) == ~e.deleted /\ (Moderates \/ OwnConversationEntry(e))

-----------------------------------------------------------------------------
(* Replies and files.                                                      *)

Ask == talk < MaxTalk /\ talk' = talk + 1
Refresh == remarkShown' = Visible(remark)

\* Mutant: the box is open while its text is sent.
MayWriteAlways == TRUE

MayWrite == posting = Blank

Write(text) ==
  /\ MayWrite /\ composer' = [composer EXCEPT !.text = text]
  /\ UNCHANGED <<remark, remarkShown, posting, replies, files, editor, saving, talk>>

ToggleInternal ==
  /\ IsAgent /\ posting = Blank
  /\ composer' = [composer EXCEPT !.internal = ~@]
  /\ UNCHANGED <<remark, remarkShown, posting, replies, files, editor, saving, talk>>

AddComment ==
  /\ posting = Blank /\ composer.text # Blank
  /\ Ask /\ posting' = composer
  /\ UNCHANGED <<remark, remarkShown, composer, replies, files, editor, saving>>

(* The reply is stored and the box emptied, or its text stays.             *)
CommentAdded ==
  /\ posting # Blank /\ posting' = Blank
  /\ replies' = replies \cup {posting}
  /\ composer' = [composer EXCEPT !.text = Blank]
  /\ Refresh
  /\ UNCHANGED <<remark, files, editor, saving, talk>>

CommentFailed ==
  /\ posting # Blank /\ posting' = Blank
  /\ UNCHANGED <<remark, remarkShown, composer, replies, files, editor, saving, talk>>

(* A file goes out at once, chosen or pasted, with the visibility of the   *)
(* reply that is being written.                                            *)
UploadToTicket ==
  /\ Ask /\ files' = files \cup {composer.internal}
  /\ UNCHANGED <<remark, remarkShown, composer, posting, replies, editor, saving>>

Uploaded(internal) ==
  /\ internal \in files /\ files' = files \ {internal}
  /\ \/ replies' = replies \cup {[text |-> Blank, internal |-> internal]} /\ Refresh
     \/ UNCHANGED <<replies, remarkShown>>
  /\ UNCHANGED <<remark, composer, posting, editor, saving, talk>>

-----------------------------------------------------------------------------
(* The entry.                                                              *)

StartEdit ==
  /\ remarkShown # Blank /\ CanEditTimelineEvent(remarkShown) /\ editor = Blank
  /\ editor' = remarkShown.text
  /\ UNCHANGED <<remark, remarkShown, composer, posting, replies, files, saving, talk>>

(* Typing in the editor, and Cancel.                                       *)
EditTo(text) ==
  /\ editor # Blank /\ text # editor /\ editor' = text
  /\ UNCHANGED <<remark, remarkShown, composer, posting, replies, files, saving, talk>>

SaveEdit ==
  /\ editor # Blank /\ saving = Blank
  /\ Ask /\ saving' = editor
  /\ UNCHANGED <<remark, remarkShown, composer, posting, replies, files, editor>>

(* A success closes the editor, whatever it holds by then.                 *)
EditSaved ==
  /\ saving # Blank /\ saving' = Blank
  /\ IF EditPermitted(remark)
       THEN /\ remark' = [remark EXCEPT !.text = saving]
            /\ remarkShown' = Visible(remark') /\ editor' = Blank
       ELSE UNCHANGED <<remark, editor, remarkShown>>
  /\ UNCHANGED <<composer, posting, replies, files, talk>>

DeleteComment ==
  /\ remarkShown # Blank /\ CanDeleteTimelineEvent(remarkShown)
  /\ Ask
  /\ IF DeletionPermitted(remark)
       THEN remark' = [remark EXCEPT !.deleted = TRUE] /\ remarkShown' = Visible(remark')
       ELSE UNCHANGED <<remark, remarkShown>>
  /\ UNCHANGED <<composer, posting, replies, files, editor, saving>>

-----------------------------------------------------------------------------
(* The page reads again; other people remove the entry; a day passes.      *)

ReadAgain ==
  /\ Refresh
  /\ UNCHANGED <<remark, composer, posting, replies, files, editor, saving, talk>>

RemarkChanges ==
  /\ ~remark.deleted
  /\ \/ remark' = [remark EXCEPT !.deleted = TRUE]
     \/ remark' = [remark EXCEPT !.old = TRUE]
  /\ UNCHANGED <<remarkShown, composer, posting, replies, files, editor, saving, talk>>

ConversationNext ==
  \/ \E text \in Phrases \cup {Blank} : Write(text) \/ EditTo(text)
  \/ ToggleInternal \/ AddComment \/ CommentAdded \/ CommentFailed \/ UploadToTicket
  \/ \E internal \in BOOLEAN : Uploaded(internal)
  \/ StartEdit \/ SaveEdit \/ EditSaved \/ DeleteComment
  \/ ReadAgain \/ RemarkChanges

-----------------------------------------------------------------------------
(* The shape of the entry, of the box and of what is in flight.            *)
ConversationTypeOK ==
  /\ remark \in Remark /\ remarkShown \in Remark \cup {Blank}
  /\ composer \in Reply /\ posting \in Reply \cup {Blank}
  /\ replies \subseteq Reply /\ files \subseteq BOOLEAN
  /\ {editor, saving} \subseteq Phrases \cup {Blank}

(* The page and the server agree.  A page that shows the entry as it is    *)
(* offers no change of it that the server would refuse by its own rules,   *)
(* which are written twice, and offers a requester nothing that is not     *)
(* theirs to change; a requester writes no internal notes.                 *)
TalkIsPermitted ==
  /\ remarkShown = remark =>
       /\ CanEditTimelineEvent(remarkShown) <=> EditPermitted(remark)
       /\ CanDeleteTimelineEvent(remarkShown) <=> DeletionPermitted(remark)
  /\ \A r \in replies : r.internal => IsAgent

(* What leaves the box has been sent as it stood, note or reply.           *)
SentAsWritten ==
  posting # Blank /\ posting' = Blank /\ composer' # composer => posting = composer
=============================================================================
