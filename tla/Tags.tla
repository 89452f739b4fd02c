-------------------------------- MODULE Tags --------------------------------
(***************************************************************************)
(* Tags, where they may be added to tickets, and the page that edits them: *)
(* src/app/api/tags/route.ts, src/lib/tag-scope.ts and                     *)
(* src/app/(dashboard)/admin/tags/page.tsx.  A super administrator changes *)
(* every tag, an administrator only those that are limited to departments  *)
(* it administers.  A request reads the tag, then the departments and the  *)
(* categories, and then replaces all scopes of the tag, whatever they are  *)
(* by now.  Deleting a department or a category deletes its scopes.        *)
(***************************************************************************)
EXTENDS Naturals

CONSTANTS
  TagIds, TagQueues, Topics,  \* tags, departments and categories
  TagCalls,                \* slots for requests
  NoTag,                   \* no tag, no category, nothing
  MaxTagChanges            \* bound: requests and changes of departments

VARIABLES
  tag,          \* tag[t]: allDepartments and scopes, or NoTag
  topicQueue,   \* topicQueue[c]: the department of the category, or NoTag
  queues,       \* the departments that exist
  administers,  \* the departments of the one administrator who is no super one
  tagCall,      \* tagCall[r]: what a request holds, or NoTag
  tagged,       \* the tags of a ticket
  dialog,       \* the dialog of the page: what it edits and was opened with
  tagChanges

tagVars == <<tag, topicQueue, queues, administers, tagCall, tagged, dialog, tagChanges>>

Scope == [queueId : TagQueues, categoryId : Topics \cup {NoTag}]
TagRow == [allDepartments : BOOLEAN, scopes : SUBSET Scope]
TagEditors == {"ADMIN", "SUPER_ADMIN"}
TagRequest ==
  [by : TagEditors, op : {"create", "update", "delete"}, tag : TagIds, body : TagRow \cup {NoTag},
   administered : SUBSET TagQueues, seen : SUBSET Scope,
   stage : {"loaded", "resolved", "deleted"}]
TagDialog ==
  [op : {"create", "update"}, tag : TagIds, by : TagEditors, listed : SUBSET TagQueues,
   queueOf : [Topics -> TagQueues \cup {NoTag}], row : TagRow, opened : SUBSET Scope]

ASSUME TagsAssumption ==
  /\ MaxTagChanges \in Nat
  /\ NoTag \notin TagRow \cup TagQueues \cup Topics \cup TagIds \cup TagRequest \cup TagDialog

TagExists(t) == tag[t] # NoTag
CountTagChange == tagChanges < MaxTagChanges /\ tagChanges' = tagChanges + 1

-----------------------------------------------------------------------------
(* tag-scope.ts.                                                           *)

IsTagAvailable(row, q, c) ==
  \/ row.allDepartments
  \/ \E s \in row.scopes : s.queueId = q /\ s.categoryId \in {NoTag, c}

(* The filter of the database, for a ticket with or without a category.    *)
TagAvailabilityWhere(row, q, c) ==
  \/ row.allDepartments
  \/ \E s \in row.scopes :
       /\ s.queueId = q
       /\ s.categoryId = NoTag \/ (c # NoTag /\ s.categoryId = c)

WholeDepartments(scopes) == {s.queueId : s \in {x \in scopes : x.categoryId = NoTag}}
NormalizeTagScopes(scopes) ==
  {s \in scopes : ~(s.categoryId # NoTag /\ s.queueId \in WholeDepartments(scopes))}

(* Every chosen department, limited to the chosen categories it has.       *)
ScopesFromSelection(queueIds, categoryIds, queueOf) ==
  LET chosen(q) == {c \in categoryIds : queueOf[c] = q}
  IN UNION {IF chosen(q) = {} THEN {[queueId |-> q, categoryId |-> NoTag]}
            ELSE {[queueId |-> q, categoryId |-> c] : c \in chosen(q)} : q \in queueIds}

\* Mutant: the places of the new scopes are not looked at.
ManagesAnyLimited(by, administered, row) == by = "SUPER_ADMIN" \/ ~row.allDepartments

ManagesTag(by, administered, row) ==
  \/ by = "SUPER_ADMIN"
  \/ /\ ~row.allDepartments /\ row.scopes # {}
     /\ \A s \in row.scopes : s.queueId \in administered

TagsInit ==
  /\ \E q \in TagQueues : topicQueue = [c \in Topics |-> q]
  /\ tag \in [TagIds -> {NoTag, [allDepartments |-> TRUE, scopes |-> {}]}
       \cup {[allDepartments |-> FALSE, scopes |-> {[queueId |-> topicQueue[c], categoryId |-> c]}]
             : c \in Topics}]
  /\ queues = TagQueues
  /\ administers \in SUBSET TagQueues
  /\ tagCall = [r \in TagCalls |-> NoTag]
  /\ tagged = {} /\ dialog = NoTag /\ tagChanges = 0

-----------------------------------------------------------------------------
(* Requests.                                                               *)

TagStep(r, stage) == tagCall[r] # NoTag /\ tagCall[r].stage = stage
EndTagCall(r) == tagCall' = [tagCall EXCEPT ![r] = NoTag]

(* The tag of a PATCH or DELETE and the departments of the administrator.  *)
LoadTag(r, by, op, t, body) ==
  /\ tagCall[r] = NoTag /\ CountTagChange
  /\ op # "create" => TagExists(t) /\ ManagesTag(by, administers, tag[t])
  /\ op = "create" => ~TagExists(t)
  /\ tagCall' = [tagCall EXCEPT ![r] =
       [by |-> by, op |-> op, tag |-> t, body |-> body, administered |-> administers,
        seen |-> {}, stage |-> "loaded"]]
  /\ UNCHANGED <<tag, topicQueue, queues, administers, tagged, dialog>>

Resolvable(scopes) ==
  /\ scopes # {}
  /\ \A s \in scopes : s.queueId \in queues
  /\ \A s \in scopes : s.categoryId # NoTag => topicQueue[s.categoryId] = s.queueId

(* resolveScopes, and the second judgement, by the departments read first. *)
ResolveScopes(r) ==
  /\ TagStep(r, "loaded") /\ tagCall[r].op # "delete"
  /\ LET body == tagCall[r].body
         scopes == IF body.allDepartments THEN {} ELSE NormalizeTagScopes(body.scopes)
         row == [allDepartments |-> body.allDepartments, scopes |-> scopes]
     IN /\ body.allDepartments \/ Resolvable(scopes)
        /\ ManagesTag(tagCall[r].by, tagCall[r].administered, row)
        /\ tagCall' = [tagCall EXCEPT ![r].stage = "resolved", ![r].body = row]
  /\ UNCHANGED <<tag, topicQueue, queues, administers, tagged, dialog, tagChanges>>

ForeignKeysHold(scopes) ==
  \A s \in scopes :
    s.queueId \in queues /\ (s.categoryId # NoTag => topicQueue[s.categoryId] # NoTag)

CreateTag(r) ==
  /\ TagStep(r, "resolved") /\ tagCall[r].op = "create"
  /\ ~TagExists(tagCall[r].tag) /\ ForeignKeysHold(tagCall[r].body.scopes)
  /\ tag' = [tag EXCEPT ![tagCall[r].tag] = tagCall[r].body]
  /\ EndTagCall(r)
  /\ UNCHANGED <<topicQueue, queues, administers, tagged, dialog, tagChanges>>

(* deleteMany removes the scopes that its statement sees ...               *)
DeleteScopes(r) ==
  /\ TagStep(r, "resolved") /\ tagCall[r].op = "update" /\ TagExists(tagCall[r].tag)
  /\ tagCall' = [tagCall EXCEPT ![r].stage = "deleted", ![r].seen = tag[tagCall[r].tag].scopes]
  /\ UNCHANGED <<tag, topicQueue, queues, administers, tagged, dialog, tagChanges>>

(* ... and the new ones are added to what another request wrote meanwhile, *)
(* unless it wrote the same rule for a category.                           *)
CommitUpdateTag(r) ==
  /\ TagStep(r, "deleted") /\ TagExists(tagCall[r].tag)
  /\ LET t == tagCall[r].tag
         kept == tag[t].scopes \ tagCall[r].seen
         row == tagCall[r].body
     IN /\ ForeignKeysHold(row.scopes)
        /\ \A s \in kept \cap row.scopes : s.categoryId = NoTag
        /\ tag' = [tag EXCEPT ![t] =
             [allDepartments |-> row.allDepartments, scopes |-> kept \cup row.scopes]]
  /\ EndTagCall(r)
  /\ UNCHANGED <<topicQueue, queues, administers, tagged, dialog, tagChanges>>

DeleteTag(r) ==
  /\ TagStep(r, "loaded") /\ tagCall[r].op = "delete" /\ TagExists(tagCall[r].tag)
  /\ tag' = [tag EXCEPT ![tagCall[r].tag] = NoTag]
  /\ tagged' = tagged \ {tagCall[r].tag}
  /\ EndTagCall(r)
  /\ UNCHANGED <<topicQueue, queues, administers, dialog, tagChanges>>

RefuseTagCall(r) ==
  /\ tagCall[r] # NoTag /\ EndTagCall(r)
  /\ UNCHANGED <<tag, topicQueue, queues, administers, tagged, dialog, tagChanges>>

-----------------------------------------------------------------------------
(* Around the tags.                                                        *)

WithoutScopes(lost) ==
  [t \in TagIds |->
     IF TagExists(t) THEN [tag[t] EXCEPT !.scopes = @ \ lost] ELSE NoTag]

RemoveQueue(q) ==
  /\ q \in queues /\ (\A c \in Topics : topicQueue[c] # q) /\ CountTagChange
  /\ queues' = queues \ {q}
  /\ administers' = administers \ {q}
  /\ tag' = WithoutScopes({s \in Scope : s.queueId = q})
  /\ UNCHANGED <<topicQueue, tagCall, tagged, dialog>>

RemoveTopic(c) ==
  /\ topicQueue[c] # NoTag /\ CountTagChange
  /\ topicQueue' = [topicQueue EXCEPT ![c] = NoTag]
  /\ tag' = WithoutScopes({s \in Scope : s.categoryId = c})
  /\ UNCHANGED <<queues, administers, tagCall, tagged, dialog>>

(* The scopes of the category keep naming the department it came from.     *)
MoveTopic(c, q) ==
  /\ topicQueue[c] # NoTag /\ q \in queues /\ CountTagChange
  /\ topicQueue' = [topicQueue EXCEPT ![c] = q]
  /\ UNCHANGED <<tag, queues, administers, tagCall, tagged, dialog>>

ReplaceAdministered(administered) ==
  /\ administered \subseteq queues /\ CountTagChange
  /\ administers' = administered
  /\ UNCHANGED <<tag, topicQueue, queues, tagCall, tagged, dialog>>

(* A ticket keeps the tags it has; only new ones must be available.        *)
TagTicket(tags, q, c) ==
  /\ \A t \in tags \ tagged : TagExists(t) /\ TagAvailabilityWhere(tag[t], q, c)
  /\ tagged' = tags
  /\ UNCHANGED <<tag, topicQueue, queues, administers, tagCall, dialog, tagChanges>>

-----------------------------------------------------------------------------
(* The page.  Departments that it does not list stay as they are.          *)

ListedFor(by) == IF by = "SUPER_ADMIN" THEN queues ELSE administers

OpenDialog(by, t) ==
  /\ dialog = NoTag
  /\ TagExists(t) => ManagesTag(by, administers, tag[t])
  /\ LET row == IF TagExists(t) THEN tag[t]
                ELSE [allDepartments |-> by = "SUPER_ADMIN", scopes |-> {}]
     IN dialog' = [op |-> IF TagExists(t) THEN "update" ELSE "create", tag |-> t, by |-> by,
                  listed |-> ListedFor(by), queueOf |-> topicQueue,
                  row |-> row, opened |-> row.scopes]
  /\ UNCHANGED <<tag, topicQueue, queues, administers, tagCall, tagged, tagChanges>>

Listed(scopes) == {s \in scopes : s.queueId \in dialog.listed}
Unlisted(scopes) == scopes \ Listed(scopes)
SelectedQueues == {s.queueId : s \in Listed(dialog.row.scopes)}
SelectedTopics ==
  {s.categoryId : s \in {x \in Listed(dialog.row.scopes) : x.categoryId # NoTag}}
QueueOf ==
  [c \in Topics |->
     IF dialog.queueOf[c] # NoTag THEN dialog.queueOf[c]
     ELSE CHOOSE q \in TagQueues \cup {NoTag} :
            \/ [queueId |-> q, categoryId |-> c] \in dialog.row.scopes
            \/ q = NoTag /\ ~\E s \in dialog.row.scopes : s.categoryId = c]

EditDialog(scopes) == dialog' = [dialog EXCEPT !.row = [dialog.row EXCEPT !.scopes = scopes]]

ScopesFor(queueIds, topics) ==
  Unlisted(dialog.row.scopes) \cup ScopesFromSelection(queueIds, topics, QueueOf)

PickQueues(queueIds) ==
  /\ dialog # NoTag /\ ~dialog.row.allDepartments
  /\ queueIds \subseteq dialog.listed
  /\ EditDialog(ScopesFor(queueIds, SelectedTopics))
  /\ UNCHANGED <<tag, topicQueue, queues, administers, tagCall, tagged, tagChanges>>

PickTopics(topics) ==
  /\ dialog # NoTag /\ ~dialog.row.allDepartments /\ SelectedQueues # {}
  /\ \A c \in topics : dialog.queueOf[c] \in SelectedQueues \/ c \in SelectedTopics
  /\ EditDialog(ScopesFor(SelectedQueues, topics))
  /\ UNCHANGED <<tag, topicQueue, queues, administers, tagCall, tagged, tagChanges>>

PickAll(all) ==
  /\ dialog # NoTag /\ (all => dialog.by = "SUPER_ADMIN")
  /\ dialog' = [dialog EXCEPT !.row = [dialog.row EXCEPT !.allDepartments = all]]
  /\ UNCHANGED <<tag, topicQueue, queues, administers, tagCall, tagged, tagChanges>>

(* Save sends the dialog; the dialog stays open until the answer.           *)
SaveDialog(r) ==
  /\ dialog # NoTag /\ (dialog.row.allDepartments \/ dialog.row.scopes # {})
  /\ tagCall[r] = NoTag /\ CountTagChange
  /\ TagExists(dialog.tag) = (dialog.op = "update")
  /\ TagExists(dialog.tag) => ManagesTag(dialog.by, administers, tag[dialog.tag])
  /\ tagCall' = [tagCall EXCEPT ![r] =
       [by |-> dialog.by, op |-> dialog.op, tag |-> dialog.tag, body |-> dialog.row,
        administered |-> administers, seen |-> {}, stage |-> "loaded"]]
  /\ dialog' = NoTag
  /\ UNCHANGED <<tag, topicQueue, queues, administers, tagged>>

CloseDialog ==
  /\ dialog # NoTag /\ dialog' = NoTag
  /\ UNCHANGED <<tag, topicQueue, queues, administers, tagCall, tagged, tagChanges>>

-----------------------------------------------------------------------------
(* Bodies with one rule; the page builds longer ones.                      *)
TagBody ==
  {[allDepartments |-> TRUE, scopes |-> {}]}
    \cup {[allDepartments |-> FALSE, scopes |-> {s}] : s \in Scope}

TagsNext ==
  \/ \E r \in TagCalls :
       \/ \E by \in TagEditors, op \in {"create", "update"}, t \in TagIds, body \in TagBody :
            LoadTag(r, by, op, t, body)
       \/ \E by \in TagEditors, t \in TagIds : LoadTag(r, by, "delete", t, NoTag)
       \/ ResolveScopes(r) \/ CreateTag(r) \/ DeleteScopes(r) \/ CommitUpdateTag(r)
       \/ DeleteTag(r) \/ RefuseTagCall(r) \/ SaveDialog(r)
  \/ \E q \in TagQueues : RemoveQueue(q)
  \/ \E c \in Topics : RemoveTopic(c) \/ \E q \in TagQueues : MoveTopic(c, q)
  \/ \E administered \in SUBSET TagQueues : ReplaceAdministered(administered)
  \/ \E tags \in SUBSET TagIds, q \in TagQueues, c \in Topics \cup {NoTag} :
       tags # tagged /\ TagTicket(tags, q, c)
  \/ \E by \in TagEditors, t \in TagIds : OpenDialog(by, t)
  \/ \E queueIds \in SUBSET TagQueues : PickQueues(queueIds)
  \/ \E topics \in SUBSET Topics : PickTopics(topics)
  \/ \E all \in BOOLEAN : PickAll(all)
  \/ CloseDialog

TagsSpec == TagsInit /\ [][TagsNext]_tagVars

-----------------------------------------------------------------------------
(* The shape of the rows, of the requests and of the dialog.               *)
TagsTypeOK ==
  /\ tag \in [TagIds -> TagRow \cup {NoTag}]
  /\ topicQueue \in [Topics -> TagQueues \cup {NoTag}]
  /\ administers \subseteq queues /\ queues \subseteq TagQueues
  /\ tagged \subseteq TagIds
  /\ tagCall \in [TagCalls -> TagRequest \cup {NoTag}]
  /\ dialog \in TagDialog \cup {NoTag} /\ tagChanges \in 0..MaxTagChanges

CanBeAdded(t, q, c) == TagExists(t) /\ IsTagAvailable(tag[t], q, c)

(* A tag can be added in a place where it could not be before only after a *)
(* request of somebody in charge of that department when the request was   *)
(* judged; a limited tag that loses its scopes is available nowhere, never *)
(* everywhere (src/prisma/schema.prisma, model Tag), whatever is deleted   *)
(* or moved under it.  A ticket keeps its tags unless it is edited or the  *)
(* tag is deleted.  The dialog keeps what it does not list.                *)
TagsSpreadByRight ==
  /\ \A t \in TagIds, q \in TagQueues, c \in Topics \cup {NoTag} :
       CanBeAdded(t, q, c)' /\ ~CanBeAdded(t, q, c) =>
         \E r \in TagCalls :
           /\ tagCall[r] # NoTag /\ tagCall'[r] = NoTag
           /\ tagCall[r].by = "SUPER_ADMIN" \/ q \in tagCall[r].administered
  /\ \A t \in tagged' : TagExists(t)'
  /\ dialog # NoTag /\ dialog' # NoTag =>
       Unlisted(dialog'.row.scopes) = Unlisted(dialog'.opened)
=============================================================================
