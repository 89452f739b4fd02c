-------------------------- MODULE TimelineEntries --------------------------
(***************************************************************************)
(* Editing and deleting one timeline entry: PATCH and DELETE of            *)
(* src/app/api/tickets/[id]/comments/route.ts.  A request reads the entry  *)
(* (Load), reads the ticket and judges the permissions on both (Authorize) *)
(* and then updates the entry by id, without a condition (CommitEdit,      *)
(* CommitDelete).  Nothing tells it that the entry has changed meanwhile.  *)
(***************************************************************************)
EXTENDS Naturals

CONSTANTS
  Users,       \* user ids
  Role,        \* Role[u]: the role of user u
  Texts,       \* the contents users type, without the first one
  FirstText,   \* the content the entry was created with
  Requests,    \* slots for requests in flight
  MaxWrites,   \* bound: committed requests
  None         \* null

Types == {"COMMENT", "INTERNAL_NOTE", "STATUS_CHANGE"}
ConversationTypes == {"COMMENT", "INTERNAL_NOTE"}

ASSUME TimelineAssumption ==
  /\ Role \in [Users -> {"USER", "AGENT", "ADMIN", "SUPER_ADMIN"}]
  /\ FirstText \notin Texts
  /\ MaxWrites \in Nat
  /\ None \notin Users \cup Requests

VARIABLES
  entry,   \* the timeline_events row
  isOld,   \* it was created more than 24 hours ago
  access,  \* the users who can access its ticket
  req,     \* req[r]: what the handler of request r holds, or None
  writes   \* requests committed so far

vars == <<entry, isOld, access, req, writes>>

(* A date is TRUE when set; metadata is the set of its flags.              *)
Entry ==
  [type : Types, userId : Users, content : Texts \cup {FirstText},
   metadata : SUBSET {"edited", "deleted"}, deletedAt : BOOLEAN,
   deletedById : Users \cup {None}]

Init ==
  /\ \E type \in Types, author \in Users :
       entry = [type |-> type, userId |-> author, content |-> FirstText,
                metadata |-> {}, deletedAt |-> FALSE, deletedById |-> None]
  /\ isOld = FALSE
  /\ access = Users
  /\ req = [r \in Requests |-> None]
  /\ writes = 0

-----------------------------------------------------------------------------
\* Mutant: system events are not told apart.
Changeable(e) == e.type \in ConversationTypes /\ ~e.deletedAt

IsAdministrator(u) == Role[u] \in {"ADMIN", "SUPER_ADMIN"}

IsOwnConversationEntry(u, e) ==
  /\ e.userId = u
  /\ e.type = "COMMENT" \/ (e.type = "INTERNAL_NOTE" /\ Role[u] # "USER")

Permitted(u, e) == IsAdministrator(u) \/ IsOwnConversationEntry(u, e)

\* Mutants: the whole row that was read is written back; the flag is not set.
EditedWholeRow(now, held, text) ==
  [held EXCEPT !.content = text, !.metadata = @ \cup {"edited"}]
EditedUnmarked(now, held, text) ==
  [now EXCEPT !.content = text, !.metadata = held.metadata]

(* metadata is spread from the row that was read.                          *)
Edited(now, held, text) ==
  [now EXCEPT !.content = text, !.metadata = held.metadata \cup {"edited"}]

\* Mutant: the content is erased, not retained.
TombstonedErased(now, held, u) ==
  [now EXCEPT !.content = None, !.deletedAt = TRUE, !.deletedById = u,
              !.metadata = held.metadata \cup {"deleted"}]

Tombstoned(now, held, u) ==
  [now EXCEPT !.deletedAt = TRUE, !.deletedById = u,
              !.metadata = held.metadata \cup {"deleted"}]

-----------------------------------------------------------------------------
Load(r, u, op, text) ==
  /\ req[r] = None /\ writes < MaxWrites
  /\ Changeable(entry)
  /\ req' = [req EXCEPT ![r] =
       [op |-> op, by |-> u, text |-> text, held |-> entry, stage |-> "loaded"]]
  /\ UNCHANGED <<entry, isOld, access, writes>>

Holds(r, op, stage) ==
  req[r] # None /\ req[r].op = op /\ req[r].stage = stage

Authorize(r) ==
  /\ req[r] # None /\ req[r].stage = "loaded"
  /\ req[r].by \in access
  /\ Permitted(req[r].by, req[r].held)
  /\ req[r].op = "edit" /\ ~IsAdministrator(req[r].by) => ~isOld
  /\ req' = [req EXCEPT ![r].stage = "ready"]
  /\ UNCHANGED <<entry, isOld, access, writes>>

Commit(r, row) ==
  /\ entry' = row
  /\ req' = [req EXCEPT ![r] = None]
  /\ writes' = writes + 1
  /\ UNCHANGED <<isOld, access>>

CommitEdit(r) ==
  /\ Holds(r, "edit", "ready")
  /\ Commit(r, Edited(entry, req[r].held, req[r].text))

CommitDelete(r) ==
  /\ Holds(r, "delete", "ready")
  /\ Commit(r, Tombstoned(entry, req[r].held, req[r].by))

(* Refused, or the process died.                                           *)
EndWithoutEffect(r) ==
  /\ req[r] # None
  /\ req' = [req EXCEPT ![r] = None]
  /\ UNCHANGED <<entry, isOld, access, writes>>

GrowOld == ~isOld /\ isOld' = TRUE /\ UNCHANGED <<entry, access, req, writes>>

(* A department or a role is taken from a user, the ticket moves.          *)
LoseAccess(u) ==
  /\ u \in access /\ access' = access \ {u}
  /\ UNCHANGED <<entry, isOld, req, writes>>

Next ==
  \/ \E r \in Requests :
       \/ \E u \in Users :
            \/ \E text \in Texts : Load(r, u, "edit", text)
            \/ Load(r, u, "delete", None)
       \/ Authorize(r) \/ CommitEdit(r) \/ CommitDelete(r)
       \/ EndWithoutEffect(r)
  \/ GrowOld
  \/ \E u \in Users : LoseAccess(u)

Spec == Init /\ [][Next]_vars

-----------------------------------------------------------------------------
(* The shape of the entry and of the requests.                             *)
TypeOK ==
  /\ entry \in Entry
  /\ isOld \in BOOLEAN /\ access \subseteq Users /\ writes \in Nat
  /\ req \in [Requests ->
       [op : {"edit", "delete"}, by : Users, text : Texts \cup {None},
        held : Entry, stage : {"loaded", "ready"}] \cup {None}]

(* The history of an entry is kept, whichever edits and deletions raced    *)
(* (PATCH lines 153-166): a deleted entry stays deleted, and attributed,   *)
(* whatever an edit read before; and what a reader sees of an entry is its *)
(* first text, or is marked as edited.                                     *)
HistoryIsKept ==
  [][/\ entry.deletedAt => entry'.deletedAt /\ entry'.deletedById # None
     /\ ~entry'.deletedAt /\ entry'.content # FirstText => "edited" \in entry'.metadata]_vars

(* "Deleted timeline entries are immutable" (the 409 of line 118).         *)
TombstonesAreImmutable == [][entry.deletedAt => entry' = entry]_vars

=============================================================================
