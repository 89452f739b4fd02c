------------------------------- MODULE Forms -------------------------------
(***************************************************************************)
(* Ticket forms: their templates, their assignment to departments and      *)
(* categories, and the choice of the form of a new ticket.                 *)
(* src/lib/ticket-form/service.ts, the routes of ticket-form-templates,    *)
(* queues and categories, and the first half of create-ticket.ts.  Every   *)
(* handler checks with single reads what it then writes, so that templates *)
(* are saved, archived and deleted, and categories moved, between the      *)
(* reads of a submission.  What protects the rows are the foreign keys:    *)
(* Restrict for what a ticket refers to, SetNull for assigned forms.       *)
(***************************************************************************)
EXTENDS Naturals

CONSTANTS
  Forms,           \* templates
  SystemDefault,   \* the id of the protected one
  Departments, Categories,
  FieldKeys,
  Jobs,            \* slots for requests of administrators
  Submissions,     \* tickets, before and after they are created
  Missing,         \* no row, no form, no category, nothing going on
  MaxChanges       \* bound: changes by administrators

VARIABLES
  form,         \* form[f]: version, rows and isActive (and not archived), or Missing
  department,   \* department[d]: isActive and its default form, or Missing
  category,     \* category[c]: department, isActive (and not archived), form, or Missing
  job,          \* job[j]: what the handler of an administrator holds, or Missing
  resolving,   \* resolving[s]: what createTicket has read so far, or Missing
  filed,        \* filed[s]: the form columns of the ticket, or Missing
  whole,        \* history: all field lists that were ever committed
  saves,        \* field lists that administrators saved
  changes       \* their other changes

formVars ==
  <<form, department, category, job, resolving, filed, whole, saves, changes>>

(* A field row, told apart from another one of the same key by its save.   *)
FieldRow == [key : FieldKeys, save : 0..MaxChanges]
FormRow == [version : Nat, rows : SUBSET FieldRow, isActive : BOOLEAN]
FirstRows == [key : FieldKeys, save : {0}]
FirstForm == [version |-> 1, rows |-> FirstRows, isActive |-> TRUE]
FieldList == [form : Forms, version : Nat, rows : SUBSET FieldRow]
Committed(f, row) == [form |-> f, version |-> row.version, rows |-> row.rows]

DepartmentRow == [isActive : BOOLEAN, form : Forms \cup {Missing}]
CategoryRow == [department : Departments, isActive : BOOLEAN, form : Forms \cup {Missing}]
Ticket == [department : Departments, category : Categories \cup {Missing}, form : Forms,
           version : Nat, rows : SUBSET FieldRow]
Job == [op : {"save"}, form : Forms, seen : SUBSET FieldRow, new : SUBSET FieldRow]
  \cup [op : {"delete"}, form : Forms \ {SystemDefault}, replacement : Forms \cup {Missing}]
  \cup [op : {"default"}, place : Departments, form : Forms \cup {Missing}]
  \cup [op : {"override"}, place : Categories, form : Forms \cup {Missing}]
  \cup [op : {"move"}, category : Categories, to : Departments]
Resolving ==
  [stage : {"department"}, department : Departments, category : Categories \cup {Missing},
   default : Forms \cup {Missing}]
  \cup [stage : {"category"}, department : Departments, category : Categories \cup {Missing},
        default : Forms \cup {Missing}, override : Forms \cup {Missing}, systemVersion : Nat]
  \cup [stage : {"template", "read"}, department : Departments,
        category : Categories \cup {Missing}, form : Forms, version : Nat, rows : SUBSET FieldRow]

ASSUME FormsAssumption == SystemDefault \in Forms /\ MaxChanges \in Nat

(* Missing is none of the values that it stands for the lack of.           *)
ASSUME MissingAssumption ==
  /\ Missing \notin Forms /\ Missing \notin Categories
  /\ Missing \notin FormRow /\ Missing \notin DepartmentRow /\ Missing \notin CategoryRow
  /\ Missing \notin Ticket /\ Missing \notin Job /\ Missing \notin Resolving

(* The system default is created by the first request that needs it.       *)
FormsInit ==
  /\ form \in [Forms -> {FirstForm, Missing}]
  /\ department = [d \in Departments |-> [isActive |-> TRUE, form |-> Missing]]
  /\ \E d \in Departments :
       category = [c \in Categories |->
         [department |-> d, isActive |-> TRUE, form |-> Missing]]
  /\ job = [j \in Jobs |-> Missing]
  /\ resolving = [s \in Submissions |-> Missing]
  /\ filed = [s \in Submissions |-> Missing]
  /\ whole = {Committed(f, form[f]) : f \in {g \in Forms : form[g] # Missing}}
  /\ saves = 0 /\ changes = 0

Exists(f) == form[f] # Missing
IsEffective(f) == f # Missing /\ Exists(f) /\ form[f].isActive
FiledWith(f) == {s \in Submissions : filed[s] # Missing /\ filed[s].form = f}
FiledUnder(c) == {s \in Submissions : filed[s] # Missing /\ filed[s].category = c}
FiledIn(d) == {s \in Submissions : filed[s] # Missing /\ filed[s].department = d}
DefaultOf(f) == {d \in Departments : department[d] # Missing /\ department[d].form = f}
OverrideOf(f) == {c \in Categories : category[c] # Missing /\ category[c].form = f}

Change == saves + changes < MaxChanges /\ changes' = changes + 1
Take(j, what) == job[j] = Missing /\ job' = [job EXCEPT ![j] = what]
Finish(j) == job' = [job EXCEPT ![j] = Missing]
Doing(j, op) == job[j] # Missing /\ job[j].op = op

-----------------------------------------------------------------------------
(* Templates.                                                              *)

(* ensureSystemDefaultTemplate reads or creates the fallback; of two that  *)
(* create it the second one reads it again.                                *)
EnsureSystemDefault ==
  /\ form' = IF Exists(SystemDefault) THEN form
             ELSE [form EXCEPT ![SystemDefault] = FirstForm]
  /\ whole' = whole \cup {Committed(SystemDefault, form'[SystemDefault])}

(* cloneTicketFormTemplate: a new template with the fields of another.     *)
CloneForm(new, source) ==
  /\ Change /\ Exists(source)
  /\ \A h \in whole : h.form # new
  /\ form' = [form EXCEPT ![new] =
       [version |-> 1, rows |-> form[source].rows, isActive |-> TRUE]]
  /\ whole' = whole \cup {Committed(new, form'[new])}
  /\ UNCHANGED <<department, category, job, resolving, filed, saves>>

(* updateTicketFormTemplate deletes the rows its statement sees ...        *)
DeleteFields(j, f, keys) ==
  /\ Exists(f) /\ saves + changes < MaxChanges
  /\ Take(j, [op |-> "save", form |-> f, seen |-> form[f].rows,
              new |-> [key : keys, save : {saves + 1}]])
  /\ saves' = saves + 1
  /\ UNCHANGED <<form, department, category, resolving, filed, whole, changes>>

RowsAfter(f, seen, new) == (form[f].rows \ seen) \cup new

(* ... and inserts the new ones, where a key that another save inserted    *)
(* meanwhile is refused, as is a template that is gone.                    *)
CommitSave(j) ==
  /\ Doing(j, "save")
  /\ LET f == job[j].form IN
     /\ Exists(f)
     /\ \A old \in form[f].rows \ job[j].seen, new \in job[j].new : old.key # new.key
     /\ form' = [form EXCEPT ![f].rows = RowsAfter(f, job[j].seen, job[j].new),
                             ![f].version = @ + 1]
     /\ whole' = whole \cup {Committed(f, form'[f])}
  /\ Finish(j)
  /\ UNCHANGED <<department, category, resolving, filed, saves, changes>>

(* setTemplateArchived.                                                    *)
SetTemplateArchived(f, archived) ==
  /\ Change /\ Exists(f) /\ f # SystemDefault
  /\ form' = [form EXCEPT ![f].isActive = ~archived]
  /\ UNCHANGED <<department, category, job, resolving, filed, whole, saves>>

(* hardDeleteTicketFormTemplate reads the usage and the replacement ...    *)
CheckUsage(j, f, replacement) ==
  /\ Change /\ Exists(f) /\ f # SystemDefault
  /\ FiledWith(f) = {}
  /\ IF replacement = Missing
     THEN DefaultOf(f) = {} /\ OverrideOf(f) = {}
     ELSE IsEffective(replacement) /\ replacement # f
  /\ Take(j, [op |-> "delete", form |-> f, replacement |-> replacement])
  /\ UNCHANGED <<form, department, category, resolving, filed, whole, saves>>

(* ... and reassigns and deletes in a transaction; without a replacement   *)
(* the foreign keys take the form from whoever was assigned it meanwhile.  *)
HardDelete(j) ==
  /\ Doing(j, "delete")
  /\ LET f == job[j].form
         heir == job[j].replacement
     IN /\ Exists(f) /\ FiledWith(f) = {}
        /\ DefaultOf(f) \cup OverrideOf(f) # {} => (heir # Missing => Exists(heir))
        /\ department' = [d \in Departments |->
             IF d \in DefaultOf(f) THEN [department[d] EXCEPT !.form = heir]
             ELSE department[d]]
        /\ category' = [c \in Categories |->
             IF c \in OverrideOf(f) THEN [category[c] EXCEPT !.form = heir]
             ELSE category[c]]
        /\ form' = [form EXCEPT ![f] = Missing]
  /\ Finish(j)
  /\ UNCHANGED <<resolving, filed, whole, saves, changes>>

-----------------------------------------------------------------------------
(* Departments and categories.                                             *)

(* The form is looked up, and written by a later statement; null needs no  *)
(* look-up.                                                                *)
CheckAssignment(j, op, place, f) ==
  /\ Change
  /\ f # Missing => IsEffective(f)
  /\ Take(j, [op |-> op, place |-> place, form |-> f])
  /\ UNCHANGED <<form, department, category, resolving, filed, whole, saves>>

AssignDefault(j) ==
  /\ Doing(j, "default") /\ department[job[j].place] # Missing
  /\ job[j].form # Missing => Exists(job[j].form)
  /\ department' = [department EXCEPT ![job[j].place].form = job[j].form]
  /\ Finish(j)
  /\ UNCHANGED <<form, category, resolving, filed, whole, saves, changes>>

AssignOverride(j) ==
  /\ Doing(j, "override") /\ category[job[j].place] # Missing
  /\ job[j].form # Missing => Exists(job[j].form)
  /\ category' = [category EXCEPT ![job[j].place].form = job[j].form]
  /\ Finish(j)
  /\ UNCHANGED <<form, department, resolving, filed, whole, saves, changes>>

(* A category without tickets may move; they are counted first.            *)
CheckMove(j, c, d) ==
  /\ Change
  /\ category[c] # Missing /\ category[c].department # d
  /\ FiledUnder(c) = {} /\ department[d] # Missing
  /\ Take(j, [op |-> "move", category |-> c, to |-> d])
  /\ UNCHANGED <<form, department, category, resolving, filed, whole, saves>>

MoveCategory(j) ==
  /\ Doing(j, "move")
  /\ category[job[j].category] # Missing /\ department[job[j].to] # Missing
  /\ category' = [category EXCEPT ![job[j].category].department = job[j].to]
  /\ Finish(j)
  /\ UNCHANGED <<form, department, resolving, filed, whole, saves, changes>>

(* The handler answers an error, or the process dies.                      *)
EndJob(j) ==
  /\ job[j] # Missing /\ Finish(j)
  /\ UNCHANGED <<form, department, category, resolving, filed, whole, saves, changes>>

SetDepartmentActive(d, isActive) ==
  /\ Change /\ department[d] # Missing
  /\ department' = [department EXCEPT ![d].isActive = isActive]
  /\ UNCHANGED <<form, category, job, resolving, filed, whole, saves>>

SetCategoryActive(c, isActive) ==
  /\ Change /\ category[c] # Missing
  /\ category' = [category EXCEPT ![c].isActive = isActive]
  /\ UNCHANGED <<form, department, job, resolving, filed, whole, saves>>

DeleteDepartment(d) ==
  /\ Change /\ department[d] # Missing
  /\ FiledIn(d) = {}
  /\ \A c \in Categories : category[c] # Missing => category[c].department # d
  /\ department' = [department EXCEPT ![d] = Missing]
  /\ UNCHANGED <<form, category, job, resolving, filed, whole, saves>>

DeleteCategory(c) ==
  /\ Change /\ category[c] # Missing
  /\ FiledUnder(c) = {}
  /\ category' = [category EXCEPT ![c] = Missing]
  /\ UNCHANGED <<form, department, job, resolving, filed, whole, saves>>

-----------------------------------------------------------------------------
(* resolveTicketFormTemplate, query by query, and the insertion.           *)

Reached(s, stage) == resolving[s] # Missing /\ resolving[s].stage = stage

ReadDepartment(s, d, c) ==
  /\ resolving[s] = Missing /\ filed[s] = Missing
  /\ department[d] # Missing /\ department[d].isActive
  /\ resolving' = [resolving EXCEPT ![s] =
       [stage |-> "department", department |-> d, category |-> c,
        default |-> department[d].form]]
  /\ UNCHANGED <<form, department, category, job, filed, whole, saves, changes>>

BelongsToDepartment(c, d) ==
  category[c] # Missing /\ category[c].department = d /\ category[c].isActive

(* The category is read, and then the fallback.                            *)
ReadCategory(s) ==
  /\ Reached(s, "department")
  /\ LET held == resolving[s] IN
     /\ held.category # Missing => BelongsToDepartment(held.category, held.department)
     /\ EnsureSystemDefault
     /\ resolving' = [resolving EXCEPT ![s] =
          [stage |-> "category", department |-> held.department,
           category |-> held.category, default |-> held.default,
           override |-> IF held.category = Missing THEN Missing
                        ELSE category[held.category].form,
           systemVersion |-> form'[SystemDefault].version]]
  /\ UNCHANGED <<department, category, job, filed, saves, changes>>

(* The override of the category, else the default of the department, else  *)
(* the fallback.                                                           *)
ChooseEffectiveTemplate(override, default) ==
  IF IsEffective(override) THEN override
  ELSE IF IsEffective(default) THEN default ELSE SystemDefault

(* The template rows come with one query, their fields with the next one.  *)
ReadTemplates(s) ==
  /\ Reached(s, "category")
  /\ LET held == resolving[s]
         chosen == ChooseEffectiveTemplate(held.override, held.default)
         isFallback == ~IsEffective(held.override) /\ ~IsEffective(held.default)
     IN resolving' = [resolving EXCEPT ![s] =
          [stage |-> IF isFallback THEN "read" ELSE "template",
           department |-> held.department, category |-> held.category, form |-> chosen,
           version |-> IF isFallback THEN held.systemVersion ELSE form[chosen].version,
           rows |-> form[SystemDefault].rows]]
  /\ UNCHANGED <<form, department, category, job, filed, whole, saves, changes>>

ReadFields(s) ==
  /\ Reached(s, "template")
  /\ LET f == resolving[s].form IN
     resolving' = [resolving EXCEPT ![s].stage = "read",
       ![s].rows = IF Exists(f) THEN form[f].rows ELSE {}]
  /\ UNCHANGED <<form, department, category, job, filed, whole, saves, changes>>

\* Mutant: the version is the one at the insertion.
CurrentVersion(held) == form[held.form].version
ReadVersion(held) == held.version

(* buildTicketFormSchemaSnapshot and the row of the ticket.                *)
FileTicket(s) ==
  /\ Reached(s, "read")
  /\ LET held == resolving[s] IN
     /\ department[held.department] # Missing /\ Exists(held.form)
     /\ held.category # Missing => category[held.category] # Missing
     /\ filed' = [filed EXCEPT ![s] =
          [department |-> held.department, category |-> held.category,
           form |-> held.form, version |-> ReadVersion(held), rows |-> held.rows]]
  /\ resolving' = [resolving EXCEPT ![s] = Missing]
  /\ UNCHANGED <<form, department, category, job, whole, saves, changes>>

Refuse(s) ==
  /\ resolving[s] # Missing
  /\ resolving' = [resolving EXCEPT ![s] = Missing]
  /\ UNCHANGED <<form, department, category, job, filed, whole, saves, changes>>

-----------------------------------------------------------------------------
FormsNext ==
  \/ /\ EnsureSystemDefault  \* a form is only shown
     /\ UNCHANGED <<department, category, job, resolving, filed, saves, changes>>
  \/ \E new, source \in Forms : CloneForm(new, source)
  \/ \E f \in Forms, archived \in BOOLEAN : SetTemplateArchived(f, archived)
  \/ \E d \in Departments :
       DeleteDepartment(d) \/ \E x \in BOOLEAN : SetDepartmentActive(d, x)
  \/ \E c \in Categories :
       DeleteCategory(c) \/ \E x \in BOOLEAN : SetCategoryActive(c, x)
  \/ \E j \in Jobs :
       \/ \E f \in Forms, keys \in SUBSET FieldKeys \ {{}} : DeleteFields(j, f, keys)
       \/ \E f \in Forms, heir \in Forms \cup {Missing} : CheckUsage(j, f, heir)
       \/ \E f \in Forms \cup {Missing} :
            \/ \E d \in Departments : CheckAssignment(j, "default", d, f)
            \/ \E c \in Categories : CheckAssignment(j, "override", c, f)
       \/ \E c \in Categories, d \in Departments : CheckMove(j, c, d)
       \/ CommitSave(j) \/ HardDelete(j) \/ AssignDefault(j) \/ AssignOverride(j)
       \/ MoveCategory(j) \/ EndJob(j)
  \/ \E s \in Submissions :
       \/ \E d \in Departments, c \in Categories \cup {Missing} : ReadDepartment(s, d, c)
       \/ ReadCategory(s) \/ ReadTemplates(s) \/ ReadFields(s)
       \/ FileTicket(s) \/ Refuse(s)

FormsSpec == FormsInit /\ [][FormsNext]_formVars

-----------------------------------------------------------------------------
(* The shape of the rows.                                                  *)
FormsTypeOK ==
  /\ form \in [Forms -> FormRow \cup {Missing}]
  /\ department \in [Departments -> DepartmentRow \cup {Missing}]
  /\ category \in [Categories -> CategoryRow \cup {Missing}]
  /\ job \in [Jobs -> Job \cup {Missing}]
  /\ resolving \in [Submissions -> Resolving \cup {Missing}]
  /\ filed \in [Submissions -> Ticket \cup {Missing}]
  /\ whole \subseteq FieldList
  /\ saves \in Nat /\ changes \in Nat

(* A ticket keeps the whole field list of one save of its form, never half *)
(* of one or a list that was deleted, and no older than the version it     *)
(* names (a save may commit between the two queries: then it is newer).    *)
(* Its form, its department and its category are still there, and the     *)
(* fallback is there and active for everybody else.                        *)
SnapshotsAreWhole ==
  /\ \A s \in Submissions : filed[s] # Missing =>
       /\ \E h \in whole :
            /\ h.form = filed[s].form /\ h.rows = filed[s].rows
            /\ h.version >= filed[s].version
       /\ Exists(filed[s].form) /\ department[filed[s].department] # Missing
       /\ filed[s].category # Missing => category[filed[s].category] # Missing
  /\ Exists(SystemDefault) => IsEffective(SystemDefault)
  /\ \A d \in Departments : department[d] # Missing /\ department[d].form # Missing =>
       Exists(department[d].form)
=============================================================================
