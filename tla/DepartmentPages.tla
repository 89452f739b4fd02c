-------------------------- MODULE DepartmentPages --------------------------
(***************************************************************************)
(* The pages of departments and of categories.                             *)
(*                                                                         *)
(* Departments: src/app/(dashboard)/admin/departments/page.tsx and         *)
(* src/app/api/queues/route.ts.  One page sends the whole row of its       *)
(* dialog; what other administrators save meanwhile is one step.           *)
(*                                                                         *)
(* Categories, the second part: src/app/(dashboard)/admin/categories/      *)
(* page.tsx and src/app/api/categories/route.ts, with the tickets filed in *)
(* them (src/lib/tickets/create-ticket.ts, src/app/api/tickets/[id]/       *)
(* route.ts).  A category with tickets must not move to another            *)
(* department; its tickets are counted before the update and not with it,  *)
(* and a ticket is filed in the department that the category had when it   *)
(* was looked up.                                                          *)
(***************************************************************************)
EXTENDS Naturals, FiniteSets

CONSTANTS
  Depts,       \* departments
  Deputies,    \* users who may become department administrators
  DeptForms,   \* ticket form templates
  FirstDepts,  \* the departments there are at first
  NoDept,      \* no row, no form
  MaxDeptChanges  \* bound: edits, saves and what others do

VARIABLES
  dept,         \* dept[d]: its row, or NoDept
  eligible,     \* active users with the role ADMIN
  activeForms,  \* templates that are not archived
  filedIn,      \* departments with tickets or categories
  deptPage,     \* what the page shows
  deptSave,     \* the save in flight, or NoDept
  deptChanges

deptVars == <<dept, eligible, activeForms, filedIn, deptPage, deptSave, deptChanges>>

DeptField == {"info", "form", "admins"}
DeptRow == [info : 0..1, form : DeptForms \cup {NoDept}, admins : SUBSET Deputies]
NewDept == [info |-> 0, form |-> NoDept, admins |-> {}]
ASSUME DeptsAssumption == FirstDepts \in [Depts -> DeptRow \cup {NoDept}]

(* The page: the rows and the administrators it lists, its dialog.         *)
DeptsInit ==
  /\ dept = FirstDepts /\ eligible = Deputies /\ activeForms = DeptForms /\ filedIn = {}
  /\ deptPage = [rows |-> dept, people |-> Deputies, isOpen |-> FALSE,
                 editing |-> NoDept, opened |-> NewDept, values |-> NewDept, edited |-> {}]
  /\ deptSave = NoDept /\ deptChanges = 0

DeptChange == deptChanges < MaxDeptChanges /\ deptChanges' = deptChanges + 1
DeptIs(stage) == deptSave # NoDept /\ deptSave.at = stage
OnDeptPage == UNCHANGED <<dept, eligible, activeForms, filedIn>>

-----------------------------------------------------------------------------
(* The dialog of a row: everything in it is taken from the row as listed.  *)
ValuesButAdmins(d) ==  \* mutant: the administrators of the last dialog stay
  [deptPage.rows[d] EXCEPT !.admins = deptPage.values.admins]
ValuesOf(d) == deptPage.rows[d]

OpenDept(d) ==
  /\ ~deptPage.isOpen /\ deptPage.rows[d] # NoDept
  /\ deptPage' = [deptPage EXCEPT !.isOpen = TRUE, !.editing = d, !.values = ValuesOf(d),
                                  !.opened = deptPage.rows[d], !.edited = {}]
  /\ OnDeptPage /\ UNCHANGED <<deptSave, deptChanges>>

OpenNewDept ==
  /\ ~deptPage.isOpen
  /\ deptPage' = [deptPage EXCEPT !.isOpen = TRUE, !.editing = NoDept,
                                  !.values = NewDept, !.opened = NewDept, !.edited = {}]
  /\ OnDeptPage /\ UNCHANGED <<deptSave, deptChanges>>

CloseDept ==
  /\ deptPage.isOpen
  /\ deptPage' = [deptPage EXCEPT !.isOpen = FALSE]
  /\ OnDeptPage /\ UNCHANGED <<deptSave, deptChanges>>

(* A checkbox is there only for the people listed, so that somebody who is *)
(* an administrator of the department no longer can stay ticked for good.  *)
EditDept ==
  /\ deptPage.isOpen
  /\ \/ deptPage' = [deptPage EXCEPT !.values.info = 1 - @, !.edited = @ \cup {"info"}]
     \/ \E f \in DeptForms \cup {NoDept} :
          deptPage' = [deptPage EXCEPT !.values.form = f, !.edited = @ \cup {"form"}]
     \/ \E u \in deptPage.people :
          /\ deptPage.editing # NoDept
          /\ deptPage' = [deptPage EXCEPT
               !.values.admins = IF u \in @ THEN @ \ {u} ELSE @ \cup {u},
               !.edited = @ \cup {"admins"}]
  /\ DeptChange /\ OnDeptPage /\ UNCHANGED deptSave

RefreshDepts ==
  /\ \/ deptPage' = [deptPage EXCEPT !.rows = dept]
     \/ deptPage' = [deptPage EXCEPT !.people = eligible]
  /\ OnDeptPage /\ UNCHANGED <<deptSave, deptChanges>>

SaveDept ==
  /\ deptPage.isOpen /\ deptSave = NoDept
  /\ deptSave' = [at |-> "sent", id |-> deptPage.editing, body |-> deptPage.values,
                  edited |-> deptPage.edited, opened |-> deptPage.opened]
  /\ DeptChange /\ OnDeptPage /\ UNCHANGED deptPage

-----------------------------------------------------------------------------
(* Row, form and administrators are judged before the transaction.         *)
JudgeDept ==
  /\ DeptIs("sent")
  /\ deptSave.id # NoDept => dept[deptSave.id] # NoDept
  /\ deptSave.body.form \in activeForms \cup {NoDept}
  /\ deptSave.body.admins \subseteq eligible
  /\ deptSave' = [deptSave EXCEPT !.at = "judged"]
  /\ OnDeptPage /\ UNCHANGED <<deptPage, deptChanges>>

(* A PATCH replaces the administrators and every field; a POST names none. *)
CommitDept ==
  /\ DeptIs("judged")
  /\ \E d \in Depts :
       /\ IF deptSave.id = NoDept THEN dept[d] = NoDept
                                  ELSE d = deptSave.id /\ dept[d] # NoDept
       /\ dept' = [dept EXCEPT ![d] = deptSave.body]
  /\ deptSave' = [deptSave EXCEPT !.at = "stored"]
  /\ UNCHANGED <<eligible, activeForms, filedIn, deptPage, deptChanges>>

(* An answer that it was saved closes whatever dialog is open by then.     *)
DeptSaved ==
  /\ DeptIs("stored")
  /\ deptPage' = [deptPage EXCEPT !.rows = dept, !.isOpen = FALSE]
  /\ deptSave' = NoDept
  /\ OnDeptPage /\ UNCHANGED deptChanges

DeptRefused ==
  /\ deptSave # NoDept /\ deptSave.at # "stored"
  /\ deptSave' = NoDept
  /\ OnDeptPage /\ UNCHANGED <<deptPage, deptChanges>>

(* A department's administrator assigns its form, and nothing else; an     *)
(* empty department is deleted; its tickets and categories keep the row.   *)
AssignDeptForm(u, d) ==
  /\ dept[d] # NoDept /\ u \in dept[d].admins \cap eligible
  /\ \E f \in activeForms \cup {NoDept} : dept' = [dept EXCEPT ![d].form = f]
  /\ DeptChange /\ UNCHANGED <<eligible, activeForms, filedIn, deptPage, deptSave>>

DeleteDept(d) ==
  /\ dept[d] # NoDept /\ d \notin filedIn
  /\ dept' = [dept EXCEPT ![d] = NoDept]
  /\ DeptChange /\ UNCHANGED <<eligible, activeForms, filedIn, deptPage, deptSave>>

SaveDeptElsewhere(d) ==
  /\ dept[d] # NoDept
  /\ \E a \in SUBSET eligible : dept' = [dept EXCEPT ![d].admins = a, ![d].info = 1 - @]
  /\ DeptChange /\ UNCHANGED <<eligible, activeForms, filedIn, deptPage, deptSave>>

(* Users lose the role or are deactivated, templates are archived, tickets *)
(* are filed: memberships and assigned forms stay as they are.             *)
ElsewhereInDepts ==
  /\ \/ \E u \in eligible : eligible' = eligible \ {u} /\ UNCHANGED <<activeForms, filedIn>>
     \/ \E f \in activeForms : activeForms' = activeForms \ {f} /\ UNCHANGED <<eligible, filedIn>>
     \/ \E d \in Depts \ filedIn :
          dept[d] # NoDept /\ filedIn' = filedIn \cup {d} /\ UNCHANGED <<eligible, activeForms>>
  /\ DeptChange /\ UNCHANGED <<dept, deptPage, deptSave>>

DeptsNext ==
  \/ OpenNewDept \/ CloseDept \/ EditDept \/ RefreshDepts
  \/ SaveDept \/ JudgeDept \/ CommitDept \/ DeptSaved \/ DeptRefused \/ ElsewhereInDepts
  \/ \E d \in Depts : OpenDept(d) \/ DeleteDept(d) \/ SaveDeptElsewhere(d)
  \/ \E u \in Deputies, d \in Depts : AssignDeptForm(u, d)

DeptsSpec == DeptsInit /\ [][DeptsNext]_deptVars

-----------------------------------------------------------------------------
DeptsTypeOK ==
  /\ dept \in [Depts -> DeptRow \cup {NoDept}]
  /\ eligible \subseteq Deputies /\ activeForms \subseteq DeptForms /\ filedIn \subseteq Depts
  /\ deptPage.values \in DeptRow /\ deptPage.edited \subseteq DeptField

(* A saved dialog changes what was edited in it, and takes back what       *)
(* somebody else had changed since its row was listed; everything else     *)
(* stays, although the whole row is sent and the administrators are        *)
(* deleted and inserted again.                                             *)
DialogChangesWhatWasEdited ==
  \A d \in Depts, f \in DeptField :
    DeptIs("judged") /\ DeptIs("stored")' /\ d = deptSave.id /\ f \notin deptSave.edited =>
      dept'[d][f] \in {dept[d][f], deptSave.opened[f]}

-----------------------------------------------------------------------------
(* Categories.                                                             *)
CONSTANTS
  Kinds,        \* categories
  KindQueues,   \* departments
  KindForms,    \* templates that are not archived at first
  HomeQueue,    \* the department of the first category
  Filings,      \* tickets
  NoKind,       \* no row, no form (the department's is inherited), not filed
  MaxKindChanges  \* bound: edits, saves and what others do

VARIABLES
  kind,        \* kind[k]: the row, or NoKind
  kindForms,   \* templates that are not archived
  filed,       \* filed[t]: category and department of the ticket, or NoKind
  filing,      \* filing[t]: those looked up and not yet stored, or NoKind
  kindPage,    \* the page: rows listed, department filtered by, dialog
  kindSave,    \* the save in flight, or NoKind
  kindChanges

kindVars == <<kind, kindForms, filed, filing, kindPage, kindSave, kindChanges>>

KindField == {"queueId", "templateId", "isActive"}
KindRow ==
  [queueId : KindQueues, templateId : KindForms \cup {NoKind}, isActive : BOOLEAN,
   archivedAt : BOOLEAN]
KindValues ==
  [queueId : KindQueues, templateId : KindForms \cup {NoKind}, isActive : BOOLEAN]
FirstKind ==
  [queueId |-> HomeQueue, templateId |-> NoKind, isActive |-> TRUE, archivedAt |-> FALSE]
OfRow(row) == [f \in KindField |-> row[f]]

(* raced: the category was moved by a save that had not counted the ticket *)
(* while the ticket was being filed (what the two have read of each other  *)
(* is old).                                                                *)
Filed == [kind : Kinds, queue : KindQueues, raced : BOOLEAN]
ASSUME KindsAssumption ==
  HomeQueue \in KindQueues /\ NoKind \notin KindRow \cup Filed

KindsInit ==
  /\ \E first \in Kinds : kind = [k \in Kinds |-> IF k = first THEN FirstKind ELSE NoKind]
  /\ kindForms = KindForms /\ filed = [t \in Filings |-> NoKind]
  /\ filing = [t \in Filings |-> NoKind]
  /\ kindPage = [rows |-> kind, filter |-> HomeQueue, isOpen |-> FALSE, editing |-> NoKind,
                 opened |-> OfRow(FirstKind), values |-> OfRow(FirstKind), edited |-> {}]
  /\ kindSave = NoKind /\ kindChanges = 0

KindChange == kindChanges < MaxKindChanges /\ kindChanges' = kindChanges + 1
OnKindPage == UNCHANGED <<kind, kindForms, filed, filing>>
KindIs(stage) == kindSave # NoKind /\ kindSave.at = stage
FiledUnder(k) == {t \in Filings : filed[t] # NoKind /\ filed[t].kind = k}

-----------------------------------------------------------------------------
(* Restore opens the dialog of an archived category with the switch on.    *)
OpenKind(k, restore) ==
  /\ ~kindPage.isOpen /\ kindPage.rows[k] # NoKind
  /\ restore => ~kindPage.rows[k].isActive
  /\ LET row == OfRow(kindPage.rows[k]) IN
       kindPage' = [kindPage EXCEPT
         !.isOpen = TRUE, !.editing = k, !.opened = row,
         !.values = IF restore THEN [row EXCEPT !.isActive = TRUE] ELSE row,
         !.edited = IF restore THEN {"isActive"} ELSE {}]
  /\ OnKindPage /\ UNCHANGED <<kindSave, kindChanges>>

OpenNewKind ==
  /\ ~kindPage.isOpen
  /\ LET new == [queueId |-> kindPage.filter, templateId |-> NoKind, isActive |-> TRUE] IN
       kindPage' = [kindPage EXCEPT !.isOpen = TRUE, !.editing = NoKind, !.opened = new,
                                    !.values = new, !.edited = {}]
  /\ OnKindPage /\ UNCHANGED <<kindSave, kindChanges>>

CloseKind ==
  /\ kindPage.isOpen
  /\ kindPage' = [kindPage EXCEPT !.isOpen = FALSE]
  /\ OnKindPage /\ UNCHANGED <<kindSave, kindChanges>>

EditKind ==
  /\ kindPage.isOpen
  /\ \E v \in KindValues, f \in KindField :
       /\ v = [kindPage.values EXCEPT ![f] = v[f]] /\ v # kindPage.values
       /\ kindPage' = [kindPage EXCEPT !.values = v, !.edited = @ \cup {f}]
  /\ KindChange /\ OnKindPage /\ UNCHANGED kindSave

RefreshKinds ==
  /\ kindPage' = [kindPage EXCEPT !.rows = kind]
  /\ OnKindPage /\ UNCHANGED <<kindSave, kindChanges>>

SaveKind ==
  /\ kindPage.isOpen /\ kindSave = NoKind
  /\ kindSave' = [at |-> "sent", id |-> kindPage.editing, body |-> kindPage.values,
                  edited |-> kindPage.edited, opened |-> kindPage.opened, counted |-> {}]
  /\ KindChange /\ OnKindPage /\ UNCHANGED kindPage

-----------------------------------------------------------------------------
MovesWhatItLeaves(row, tickets, body) ==  \* mutant: only an active category must stay
  row.isActive /\ tickets # {} => body.queueId = row.queueId
MayMove(row, tickets, body) == tickets # {} => body.queueId = row.queueId

JudgeKind ==
  /\ KindIs("sent")
  /\ kindSave.id # NoKind =>
       /\ kind[kindSave.id] # NoKind
       /\ MayMove(kind[kindSave.id], FiledUnder(kindSave.id), kindSave.body)
  /\ kindSave.body.templateId \in kindForms \cup {NoKind}
  /\ kindSave' = [kindSave EXCEPT
       !.at = "judged",
       !.counted = IF kindSave.id = NoKind THEN {} ELSE FiledUnder(kindSave.id)]
  /\ OnKindPage /\ UNCHANGED <<kindPage, kindChanges>>

(* A category moves without the tickets that were not counted.             *)
Raced(f, k, counted) ==
  [t \in Filings |->
     IF f[t] # NoKind /\ f[t].kind = k /\ t \notin counted THEN [f[t] EXCEPT !.raced = TRUE]
                                                          ELSE f[t]]
MoveKind(k, q, counted) ==
  IF kind[k] # NoKind /\ q # kind[k].queueId
  THEN filed' = Raced(filed, k, counted) /\ filing' = Raced(filing, k, {})
  ELSE UNCHANGED <<filed, filing>>

Archived(body) == ~body.isActive
CommitKind ==
  /\ KindIs("judged")
  /\ \E k \in Kinds :
       /\ IF kindSave.id = NoKind THEN kind[k] = NoKind
                                  ELSE k = kindSave.id /\ kind[k] # NoKind
       /\ kind' = [kind EXCEPT ![k] =
            [queueId |-> kindSave.body.queueId, templateId |-> kindSave.body.templateId,
             isActive |-> kindSave.body.isActive, archivedAt |-> Archived(kindSave.body)]]
       /\ MoveKind(k, kindSave.body.queueId, kindSave.counted)
  /\ kindSave' = [kindSave EXCEPT !.at = "stored"]
  /\ UNCHANGED <<kindForms, kindPage, kindChanges>>

KindSaved ==
  /\ KindIs("stored")
  /\ kindPage' = [kindPage EXCEPT !.rows = kind, !.isOpen = FALSE]
  /\ kindSave' = NoKind
  /\ OnKindPage /\ UNCHANGED kindChanges

KindRefused ==
  /\ KindIs("sent") \/ KindIs("judged")
  /\ kindSave' = NoKind
  /\ OnKindPage /\ UNCHANGED <<kindPage, kindChanges>>

(* The buttons of a row, and the override that a department's              *)
(* administrator assigns.  A category with tickets is archived only; the   *)
(* tickets' foreign key guards the delete, and refuses what was looked up. *)
ArchiveKind(k) ==
  /\ kind[k] # NoKind
  /\ kind' = [kind EXCEPT ![k].isActive = FALSE, ![k].archivedAt = TRUE]
  /\ KindChange /\ UNCHANGED <<kindForms, filed, filing, kindPage, kindSave>>

DeleteKind(k) ==
  /\ kind[k] # NoKind /\ FiledUnder(k) = {}
  /\ kind' = [kind EXCEPT ![k] = NoKind]
  /\ filing' = [t \in Filings |->
       IF filing[t] # NoKind /\ filing[t].kind = k THEN NoKind ELSE filing[t]]
  /\ KindChange /\ UNCHANGED <<kindForms, filed, kindPage, kindSave>>

AssignKindForm(k) ==
  /\ kind[k] # NoKind
  /\ \E f \in kindForms \cup {NoKind} : kind' = [kind EXCEPT ![k].templateId = f]
  /\ KindChange /\ UNCHANGED <<kindForms, filed, filing, kindPage, kindSave>>

(* Another super administrator moves the category in between.              *)
MoveKindElsewhere(k) ==
  /\ kind[k] # NoKind
  /\ \E q \in KindQueues :
       /\ MayMove(kind[k], FiledUnder(k), [OfRow(kind[k]) EXCEPT !.queueId = q])
       /\ kind' = [kind EXCEPT ![k].queueId = q]
       /\ MoveKind(k, q, FiledUnder(k))
  /\ KindChange /\ UNCHANGED <<kindForms, kindPage, kindSave>>

(* A creation or a change of a ticket looks the category up and takes its  *)
(* department, later it stores the two; only a ticket that is in a         *)
(* category may be filed in it again when it is archived.                  *)
LookKindUp(t, k) ==
  /\ filing[t] = NoKind /\ kind[k] # NoKind
  /\ kind[k].isActive \/ t \in FiledUnder(k)
  /\ filing' = [filing EXCEPT ![t] = [kind |-> k, queue |-> kind[k].queueId, raced |-> FALSE]]
  /\ KindChange /\ UNCHANGED <<kind, kindForms, filed, kindPage, kindSave>>

(* Nobody who counted before has counted it.                               *)
FileUnder(t) ==
  /\ filing[t] # NoKind
  /\ filed' = [filed EXCEPT ![t] = filing[t]] /\ filing' = [filing EXCEPT ![t] = NoKind]
  /\ kindSave' = IF kindSave = NoKind THEN NoKind ELSE [kindSave EXCEPT !.counted = @ \ {t}]
  /\ UNCHANGED <<kind, kindForms, kindPage, kindChanges>>

(* A refusal, or the ticket is taken out of its category; the version of   *)
(* the ticket then refuses what was looked up before.                      *)
NotFiled(t) ==
  /\ filing[t] # NoKind \/ filed[t] # NoKind
  /\ filing' = [filing EXCEPT ![t] = NoKind]
  /\ filed' \in {filed, [filed EXCEPT ![t] = NoKind]}
  /\ KindChange /\ UNCHANGED <<kind, kindForms, kindPage, kindSave>>

ElsewhereInKinds ==
  /\ \/ \E f \in kindForms : kindForms' = kindForms \ {f} /\ UNCHANGED kindPage
     \/ \E q \in KindQueues :
          kindPage' = [kindPage EXCEPT !.filter = q] /\ ~kindPage.isOpen /\ UNCHANGED kindForms
  /\ KindChange /\ UNCHANGED <<kind, filed, filing, kindSave>>

KindsNext ==
  \/ OpenNewKind \/ CloseKind \/ EditKind \/ RefreshKinds
  \/ SaveKind \/ JudgeKind \/ CommitKind \/ KindSaved \/ KindRefused \/ ElsewhereInKinds
  \/ \E k \in Kinds :
       \/ \E restore \in BOOLEAN : OpenKind(k, restore)
       \/ ArchiveKind(k) \/ DeleteKind(k) \/ AssignKindForm(k) \/ MoveKindElsewhere(k)
       \/ \E t \in Filings : LookKindUp(t, k)
  \/ \E t \in Filings : FileUnder(t) \/ NotFiled(t)

KindsSpec == KindsInit /\ [][KindsNext]_kindVars

-----------------------------------------------------------------------------
KindsTypeOK ==
  /\ kind \in [Kinds -> KindRow \cup {NoKind}] /\ kindForms \subseteq KindForms
  /\ \A t \in Filings : {filed[t], filing[t]} \subseteq Filed \cup {NoKind}
  /\ kindPage.values \in KindValues /\ kindPage.edited \subseteq KindField

(* A category is archived exactly when it is not active, whichever way it  *)
(* came about; and a ticket is in its category's department, unless a save *)
(* that had not counted this ticket moved the category while the ticket    *)
(* was being filed: who was counted, and who is filed before or after the  *)
(* moves, is never left behind.                                            *)
TicketsStayWithTheirCategory ==
  /\ \A k \in Kinds : kind[k] # NoKind => kind[k].archivedAt = ~kind[k].isActive
  /\ \A t \in Filings : filed[t] # NoKind /\ ~filed[t].raced =>
       kind[filed[t].kind] # NoKind /\ filed[t].queue = kind[filed[t].kind].queueId
=============================================================================
