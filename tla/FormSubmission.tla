--------------------------- MODULE FormSubmission ---------------------------
(***************************************************************************)
(* The page that files a ticket, the validation of what it sends and what  *)
(* each role sees of the answers: src/app/(dashboard)/tickets/new/page.tsx,*)
(* src/components/ticket-form/dynamic-ticket-form.tsx and                  *)
(* src/lib/ticket-form/{conditions,client-submission,validation,privacy}.ts*)
(* The page judges a form that it loaded before, with the answers that it  *)
(* holds; the server judges the present form, with the answers it gets.    *)
(* Uploads go on while the form under them is exchanged.                   *)
(***************************************************************************)
EXTENDS Naturals

CONSTANTS
  Routes,          \* department and category
  KeyCount,        \* the number of keys of fields of all forms
  KeyOrder,        \* KeyOrder[i]: the key that comes in place i
  Versions,        \* the forms
  Layout,          \* Layout[v]: a function from Keys to a field or Nil
  Viewers, Filer,  \* roles, and the one of whoever files the ticket
  Words, Upfile,   \* what can be typed or chosen; the file of an upload
  Nil,
  MaxRequests,     \* bound: submissions and publications
  MaxUploads       \* bound: uploads of the page

Keys == {KeyOrder[i] : i \in 1 .. KeyCount}

VARIABLES
  published,   \* published[r]: the form of route r, at the server
  route,       \* the route chosen on the page, or Nil
  loaded,      \* loaded[r]: the form in the page's cache, or Nil
  shown,       \* previousFields: the form that the answers were fitted to
  answers,     \* values: from Keys to an answer, or Nil
  uploads,     \* uploads in flight
  sending,     \* the submission in flight, or Nil
  created,       \* the ticket, or Nil
  requestCount, uploadCount

pageVars ==
  <<published, route, loaded, shown, answers, uploads, sending, created,
    requestCount, uploadCount>>

(* An answer is text, a choice, a box that is ticked if not empty or a     *)
(* list of files.  Bad is text that breaks a rule on the format.           *)
Bad == "bad"
FieldType == {"TEXT", "DROPDOWN", "CHECKBOX", "FILE"}
Typed == Words \cup {Bad, "ticked"}
Answer ==
  [type : FieldType \ {"FILE"}, items : SUBSET Typed]
    \cup [type : {"FILE"}, items : SUBSET (Typed \cup {Upfile})]
Text(w) == [type |-> "TEXT", items |-> {w}]
Answers == [Keys -> Answer \cup {Nil}]
NoAnswers == [k \in Keys |-> Nil]

FieldRule ==
  [key : Keys, operator : {"truthy", "equals", "notEquals", "contains", "in"},
   expected : SUBSET Typed]
FormField ==
  [type : FieldType, required : BOOLEAN, visibleTo : SUBSET Viewers,
   editableBy : SUBSET Viewers, rule : FieldRule \cup {Nil},
   default : Answer \cup {Nil}, options : SUBSET Words]
PageUpload == [key : Keys, live : BOOLEAN, base : SUBSET (Typed \cup {Upfile})]
Submission == [route : Routes, input : Answers, form : Versions \cup {Nil}]
Filed == [version : Versions, values : Answers]

(* What is typed or chosen is not a file.                                  *)
ASSUME SubmissionAssumption ==
  /\ KeyCount \in Nat /\ DOMAIN KeyOrder = 1 .. KeyCount
  /\ Layout \in [Versions -> [Keys -> FormField \cup {Nil}]]
  /\ Upfile \notin Typed
  /\ {MaxRequests, MaxUploads} \subseteq Nat

ASSUME NilAssumption == Nil \notin Versions /\ Nil \notin Filed

-----------------------------------------------------------------------------
(* conditions.ts.  A rule names a field, an operator and items; no items   *)
(* are the empty text, to which no answer is equal but no box or list is.  *)
ItemsOf(values, k) == IF values[k] = Nil THEN {} ELSE values[k].items
Truthy(value) == value # Nil /\ (value.type = "FILE" \/ value.items # {})
ValuesEqual(value, expected) ==
  IF value = Nil THEN expected = {}
  ELSE value.items = expected /\ (expected = {} => value.type \in {"TEXT", "DROPDOWN"})
IsFieldConditionVisible(rule, values) ==
  rule # Nil =>
    LET actual == ItemsOf(values, rule.key)
    IN CASE rule.operator = "truthy"    -> Truthy(values[rule.key])
         [] rule.operator = "equals"    -> ValuesEqual(values[rule.key], rule.expected)
         [] rule.operator = "notEquals" -> ~ValuesEqual(values[rule.key], rule.expected)
         [] rule.operator = "contains"  -> actual # {} /\ rule.expected \subseteq actual
         [] rule.operator = "in"        -> \E item \in rule.expected : actual = {item}

FieldsOf(layout) == {k \in Keys : layout[k] # Nil}
Visible(layout, role) == {k \in FieldsOf(layout) : role \in layout[k].visibleTo}
Editable(layout, role) == {k \in Visible(layout, role) : role \in layout[k].editableBy}

-----------------------------------------------------------------------------
(* client-submission.ts.                                                   *)

Only(values, keys) == [k \in Keys |-> IF k \in keys THEN values[k] ELSE Nil]

\* Mutant: conditions are judged once, by all answers of the page.
SubmissionByAllAnswers(layout, values, role) ==
  Only(values, {k \in Editable(layout, role) :
                  IsFieldConditionVisible(layout[k].rule, values)})

(* Field after field, again and again, what is hidden by the rest is       *)
(* removed; as many passes as there are fields leave nothing hidden.       *)
Unhidden(layout, values, k) ==
  IF values[k] # Nil /\ ~IsFieldConditionVisible(layout[k].rule, values)
  THEN [values EXCEPT ![k] = Nil] ELSE values

Pass(layout, values) ==
  LET after[i \in 0 .. KeyCount] ==
        IF i = 0 THEN values ELSE Unhidden(layout, after[i - 1], KeyOrder[i])
  IN after[KeyCount]

SubmissionValues(layout, values, role) ==
  LET after[i \in 0 .. KeyCount] ==
        IF i = 0 THEN Only(values, Editable(layout, role)) ELSE Pass(layout, after[i - 1])
  IN after[KeyCount]

MissingRequired(layout, values, role) ==
  LET submitted == SubmissionValues(layout, values, role)
  IN {k \in Editable(layout, role) :
        /\ layout[k].required
        /\ IsFieldConditionVisible(layout[k].rule, submitted)
        /\ ItemsOf(submitted, k) = {}}

-----------------------------------------------------------------------------
(* validation.ts.                                                          *)

(* A box that is not ticked is an answer.                                  *)
Unanswered(value) == value = Nil \/ (value.type # "CHECKBOX" /\ value.items = {})

RefusedKeys(layout, role, input) ==
  {k \in Keys : /\ input[k] # Nil
                /\ \/ k \notin Editable(layout, role)
                   \/ ~IsFieldConditionVisible(layout[k].rule, input)}

Asked(layout, role, input) ==
  {k \in Editable(layout, role) : IsFieldConditionVisible(layout[k].rule, input)}
Used(field, value) == IF Unanswered(value) THEN field.default ELSE value

(* validateFieldValue; a word stands for a text that trimming and          *)
(* sanitizing leave as it is, so what they change is left out.             *)
WellFormed(field, value) ==
  /\ value.type = field.type
  /\ Bad \notin value.items
  /\ field.type = "DROPDOWN" => value.items \subseteq field.options
  /\ field.type = "CHECKBOX" /\ field.required => value.items # {}

ErrorsOf(layout, role, input) ==
  RefusedKeys(layout, role, input) \cup
  {k \in Asked(layout, role, input) :
     LET value == Used(layout[k], input[k])
     IN IF Unanswered(value) THEN layout[k].required ELSE ~WellFormed(layout[k], value)}

Sanitized(layout, role, input) ==
  [k \in Keys |->
     IF k \in Asked(layout, role, input) /\ ~Unanswered(Used(layout[k], input[k]))
     THEN Used(layout[k], input[k]) ELSE Nil]

-----------------------------------------------------------------------------
(* privacy.ts and api-dto.ts: what a role gets of a ticket.                *)

FileFields(ticket, file) ==
  {k \in FieldsOf(Layout[ticket.version]) :
     Layout[ticket.version][k].type = "FILE" /\ file \in ItemsOf(ticket.values, k)}

\* Mutant: one field that shows the file is enough.
VisibleInSomeField(ticket, file, role) ==
  \E k \in FileFields(ticket, file) : role \in Layout[ticket.version][k].visibleTo

AttachmentVisible(ticket, file, role) ==
  \A k \in FileFields(ticket, file) : role \in Layout[ticket.version][k].visibleTo

ProjectForRole(ticket, role) ==
  [k \in Keys |->
     IF k \notin Visible(Layout[ticket.version], role) \/ ticket.values[k] = Nil THEN Nil
     ELSE IF Layout[ticket.version][k].type = "FILE"
          THEN [ticket.values[k] EXCEPT
                  !.items = {f \in @ : AttachmentVisible(ticket, f, role)}]
          ELSE ticket.values[k]]

-----------------------------------------------------------------------------
PageInit ==
  /\ published \in [Routes -> Versions]
  /\ route = Nil /\ loaded = [r \in Routes |-> Nil] /\ shown = Nil
  /\ answers = NoAnswers /\ uploads = {}
  /\ sending = Nil /\ created = Nil
  /\ requestCount = 0 /\ uploadCount = 0

(* compatibleValues: an answer stays with a field of its key and type, and *)
(* otherwise the default takes its place.                                  *)
CompatibleValues(current, previous, next) ==
  [k \in Keys |->
     IF next[k] = Nil THEN Nil
     ELSE IF previous[k] # Nil /\ previous[k].type = next[k].type /\ current[k] # Nil
          THEN IF next[k].type = "DROPDOWN" /\ ~(current[k].items \subseteq next[k].options)
               THEN Nil ELSE current[k]
          ELSE next[k].default]

(* The page gets the fields that the role sees.                            *)
ShownTo(version) ==
  [k \in Keys |-> IF version # Nil /\ k \in Visible(Layout[version], Filer)
                  THEN Layout[version][k] ELSE Nil]

Form == ShownTo(IF route = Nil THEN Nil ELSE loaded[route])

(* The form of the route is put on the page, and the answers fitted to it; *)
(* uploads of a form that left the page keep the answer they began with.   *)
Mounted(version) ==
  IF version = Nil
  THEN /\ uploads' = {IF u.live THEN [u EXCEPT !.live = FALSE, !.base = ItemsOf(answers, u.key)]
                      ELSE u : u \in uploads}
       /\ UNCHANGED <<shown, answers>>
  ELSE /\ answers' = CompatibleValues(answers, ShownTo(shown), ShownTo(version))
       /\ shown' = version
       /\ UNCHANGED uploads

(* changeDepartment, changeCategory, and the confirmation.                 *)
ChooseRoute(r) ==
  /\ created = Nil /\ r # route
  /\ route' = r
  /\ Mounted(IF r = Nil THEN Nil ELSE loaded[r])
  /\ UNCHANGED <<published, loaded, sending, created, requestCount, uploadCount>>

(* An answer of /api/ticket-form/resolve, the first one or a later one.    *)
LoadLayout(r) ==
  /\ created = Nil /\ (loaded[r] # Nil \/ r = route)
  /\ published[r] # loaded[r]
  /\ loaded' = [loaded EXCEPT ![r] = published[r]]
  /\ IF r = route THEN Mounted(published[r]) ELSE UNCHANGED <<shown, answers, uploads>>
  /\ UNCHANGED <<published, route, sending, created, requestCount, uploadCount>>

PublishLayout(r, version) ==
  /\ requestCount < MaxRequests /\ requestCount' = requestCount + 1
  /\ version # published[r]
  /\ published' = [published EXCEPT ![r] = version]
  /\ UNCHANGED <<route, loaded, shown, answers, uploads, sending, created, uploadCount>>

(* The fields on the page, and those that can be changed now.              *)
OnPage == {k \in Visible(Form, Filer) :
             IsFieldConditionVisible(Form[k].rule, SubmissionValues(Form, answers, Filer))}
Enabled == IF sending # Nil THEN {} ELSE OnPage \cap Editable(Form, Filer)

AnswersTo(field) ==
  CASE field.type = "TEXT" -> {[type |-> "TEXT", items |-> {}]} \cup
                              {Text(w) : w \in Words \cup {Bad}}
    [] field.type = "DROPDOWN" -> {[type |-> "DROPDOWN", items |-> {o}] : o \in field.options}
    [] field.type = "CHECKBOX" -> [type : {"CHECKBOX"}, items : {{}, {"ticked"}}]
    [] OTHER -> {[type |-> "FILE", items |-> {}]}

EnterAnswer(k, value) ==
  /\ created = Nil /\ k \in Enabled /\ value \in AnswersTo(Form[k])
  /\ answers' = [answers EXCEPT ![k] = value]
  /\ UNCHANGED <<published, route, loaded, shown, uploads, sending, created,
                 requestCount, uploadCount>>

StartUpload(k) ==
  /\ created = Nil /\ k \in Enabled /\ Form[k].type = "FILE"
  /\ ~\E u \in uploads : u.live /\ u.key = k
  /\ uploadCount < MaxUploads /\ uploadCount' = uploadCount + 1
  /\ uploads' = uploads \cup {[key |-> k, live |-> TRUE, base |-> {}]}
  /\ UNCHANGED <<published, route, loaded, shown, answers, sending, created, requestCount>>

(* The file is added to the answer as the form last saw it.                *)
FinishUpload(u) ==
  /\ created = Nil /\ u \in uploads
  /\ LET seen == IF ~u.live THEN u.base
                 ELSE IF answers[u.key] # Nil /\ answers[u.key].type = "FILE"
                 THEN answers[u.key].items ELSE {}
     IN answers' = [answers EXCEPT ![u.key] = [type |-> "FILE", items |-> seen \cup {Upfile}]]
  /\ uploads' = uploads \ {u}
  /\ UNCHANGED <<published, route, loaded, shown, sending, created, requestCount, uploadCount>>

FailFormUpload(u) ==
  /\ created = Nil /\ u \in uploads
  /\ uploads' = uploads \ {u}
  /\ UNCHANGED <<published, route, loaded, shown, answers, sending, created,
                 requestCount, uploadCount>>

Submit ==
  /\ created = Nil /\ route # Nil /\ loaded[route] # Nil /\ sending = Nil
  /\ ~\E u \in uploads : u.live
  /\ MissingRequired(Form, answers, Filer) = {}
  /\ requestCount < MaxRequests /\ requestCount' = requestCount + 1
  /\ sending' = [route |-> route, input |-> SubmissionValues(Form, answers, Filer), form |-> loaded[route]]
  /\ UNCHANGED <<published, route, loaded, shown, answers, uploads, created, uploadCount>>

(* What the API may send: one answer of any type for each key, or none.    *)
ApiInputs ==
  [Keys -> {Nil, [type |-> "FILE", items |-> {Upfile}]} \cup {Text(w) : w \in Words}
             \cup [type : {"CHECKBOX"}, items : {{}, {"ticked"}}]]

(* A client of the API sends what it likes.                                *)
SubmitByApi ==
  /\ created = Nil /\ route = Nil /\ sending = Nil /\ answers = NoAnswers
  /\ requestCount < MaxRequests /\ requestCount' = requestCount + 1
  /\ \E r \in Routes, input \in ApiInputs :
       sending' = [route |-> r, input |-> input, form |-> Nil]
  /\ UNCHANGED <<published, route, loaded, shown, answers, uploads, created, uploadCount>>

(* validateTicketFormSubmission and the answer of the server.              *)
HandleSubmission ==
  /\ sending # Nil /\ sending' = Nil
  /\ LET layout == Layout[published[sending.route]]
         errors == ErrorsOf(layout, Filer, sending.input)
     IN created' = IF errors # {} THEN Nil
                 ELSE [version |-> published[sending.route], values |-> Sanitized(layout, Filer, sending.input)]
  /\ UNCHANGED <<published, route, loaded, shown, answers, uploads, requestCount, uploadCount>>

PageNext ==
  \/ \E r \in Routes \cup {Nil} : ChooseRoute(r)
  \/ \E r \in Routes : LoadLayout(r)
  \/ \E r \in Routes, version \in Versions : PublishLayout(r, version)
  \/ \E k \in Enabled : \E value \in AnswersTo(Form[k]) : EnterAnswer(k, value)
  \/ \E k \in Keys : StartUpload(k)
  \/ \E u \in uploads : FinishUpload(u) \/ FailFormUpload(u)
  \/ Submit \/ SubmitByApi \/ HandleSubmission

PageSpec == PageInit /\ [][PageNext]_pageVars

-----------------------------------------------------------------------------
(* The shape of the answers, of what is sent and of the ticket.            *)
PageTypeOK ==
  /\ published \in [Routes -> Versions]
  /\ route \in Routes \cup {Nil}
  /\ loaded \in [Routes -> Versions \cup {Nil}] /\ shown \in Versions \cup {Nil}
  /\ answers \in Answers /\ uploads \subseteq PageUpload
  /\ sending \in Submission \cup {Nil} /\ created \in Filed \cup {Nil}
  /\ requestCount \in Nat /\ uploadCount \in Nat

(* When the form has not changed since the page loaded it, the server      *)
(* refuses a submission of the page only for an answer, or for a default   *)
(* in place of an empty one, that breaks its field's type or format, never *)
(* for a field that is hidden, unknown or missing, whatever routes were    *)
(* chosen and uploads finished before.  A new ticket answers every         *)
(* required field that was asked.                                          *)
Breaks(field, value) == ~Unanswered(value) /\ ~WellFormed(field, value)
ClientAgreesWithServer ==
  [][sending # Nil /\ sending' = Nil =>
       LET layout == Layout[published[sending.route]]
           asked == Asked(layout, Filer, sending.input)
       IN /\ sending.form = published[sending.route] =>
               \/ created' # Nil
               \/ \E k \in asked : Breaks(layout[k], Used(layout[k], sending.input[k]))
          /\ created' # Nil => \A k \in asked : layout[k].required => created'.values[k] # Nil
    ]_pageVars

Gets(role, k) == ItemsOf(ProjectForRole(created, role), k)

(* A ticket holds well-formed answers to fields that its author could see  *)
(* and edit.  No role gets an answer that is hidden from it, nor, through  *)
(* another field, a file that one of its fields hides from it.             *)
AnswersAreAllowed ==
  created # Nil =>
    /\ \A k \in Keys : created.values[k] # Nil =>
         k \in Editable(Layout[created.version], Filer) /\ WellFormed(Layout[created.version][k], created.values[k])
    /\ \A role \in Viewers :
         \A k \in {j \in Keys : Gets(role, j) # {}} :
           /\ role \in Layout[created.version][k].visibleTo
           /\ Upfile \in Gets(role, k) =>
                \A j \in FileFields(created, Upfile) : role \in Layout[created.version][j].visibleTo
=============================================================================
