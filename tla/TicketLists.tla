----------------------------- MODULE TicketLists -----------------------------
(***************************************************************************)
(* Which tickets a list shows: GET /api/tickets, the filters of            *)
(* src/lib/ticket-search.ts, and the numbers of the dashboard, whose cards *)
(* lead to such lists.  A list is a predicate over one ticket, so that one *)
(* ticket, in any of its states, is enough; nothing moves.                 *)
(*                                                                         *)
(* The second part is the filters of the lists and the address bar, which  *)
(* follow each other.                                                      *)
(***************************************************************************)
EXTENDS TicketRules, Sequences

CONSTANTS
  Snapshots   \* form snapshots of tickets: sets of fields, {} when there is none

VARIABLES reader, listed   \* the user who lists, with their departments; the ticket

listVars == <<reader, listed>>

(* Columns that a form may hide from a role, and what everyone may read.   *)
Hideable == {"title", "tags"}
Columns == Hideable \cup {"queue"}

Views == {"my", "queue", "all"}
SnapshotField ==
  [fieldKey : Hideable \cup {"priority", "other"}, builtIn : Hideable \cup {"priority", None},
   visibleTo : SUBSET Roles, isActive : BOOLEAN]

(* hits: the columns in which the search text occurs.                      *)
ListedTicket ==
  [queueId : Queues, status : Statuses, priority : Priorities, assignees : SUBSET Users,
   hits : SUBSET Columns, fields : Snapshots]
Reader == [id : Users, queues : SUBSET Queues]

(* A request: the absent parameter is None, or no statuses.                *)
ListQuery ==
  [view : Views \cup {None}, queueId : Queues \cup {None}, statuses : SUBSET Statuses,
   priority : Priorities \cup {None}, search : BOOLEAN]
(* Without the filters that only narrow a list.                            *)
WideQuery == [view : Views \cup {None}, queueId : {None}, statuses : {{}, Statuses},
              priority : {None}, search : BOOLEAN]
NoFilter ==
  [view |-> None, queueId |-> None, statuses |-> {}, priority |-> None, search |-> FALSE]

(* A form has a key and a built-in meaning once at most: schemas.ts, and   *)
(* the index of ticket_form_template_fields.                               *)
ASSUME SnapshotsAssumption ==
  /\ Snapshots \subseteq SUBSET SnapshotField
  /\ \A fields \in Snapshots : \A f, g \in fields :
       \/ f.fieldKey = g.fieldKey /\ f.fieldKey # "other"
       \/ f.builtIn = g.builtIn /\ f.builtIn # None
       => f = g
ASSUME NoneAssumption == None \notin Hideable \cup {"priority"} \cup Views

-----------------------------------------------------------------------------
(* The scope of a list.                                                    *)

BroadestTicketView(role) ==
  CASE role = "USER" -> "my" [] role = "AGENT" -> "queue" [] OTHER -> "all"

NormalizeTicketView(role, requested, hasSearch) ==
  CASE requested = None -> IF hasSearch THEN BroadestTicketView(role) ELSE "my"
    [] requested = "my" -> "my"
    [] OTHER -> BroadestTicketView(role)

\* Mutant: own tickets are listed wherever they went.
TicketVisibleAnywhere(r, view, t) ==
  LET mine == r.id = Requester \/ r.id \in t.assignees
      local == Role[r.id] = "SUPER_ADMIN" \/ t.queueId \in r.queues
  IN IF Role[r.id] = "USER" THEN r.id = Requester
     ELSE IF view = "my" THEN mine ELSE local

TicketVisible(r, view, t) ==
  LET mine == r.id = Requester \/ r.id \in t.assignees
      local == Role[r.id] = "SUPER_ADMIN" \/ t.queueId \in r.queues
  IN IF Role[r.id] = "USER" THEN r.id = Requester
     ELSE local /\ (view = "my" => mine)

-----------------------------------------------------------------------------
(* Columns that a form hides.  The query of the database asks for fields   *)
(* that contain an identity, once by key and once by built-in meaning.     *)

Gate(found, role) ==
  \/ found = {}
  \/ (\E f \in found : role \in f.visibleTo) /\ (\A f \in found : f.isActive)

FoundByKey(t, column) == {f \in t.fields : f.fieldKey = column}
FoundByMeaning(t, column) == {f \in t.fields : f.builtIn = column}

\* Mutant: only the keys of fields are looked at.
ColumnSearchableByKey(t, column, role) == Gate(FoundByKey(t, column), role)

ColumnSearchable(t, column, role) ==
  Gate(FoundByKey(t, column), role) /\ Gate(FoundByMeaning(t, column), role)

(* What the answers of the server show of the same ticket.                 *)
TicketBuiltInAllowed(t, column, role) ==
  \A f \in t.fields :
    f.fieldKey = column \/ f.builtIn = column => f.isActive /\ role \in f.visibleTo

TextSearch(t, role) ==
  \E column \in t.hits : column \in Hideable => ColumnSearchable(t, column, role)

Listed(r, q, t) ==
  LET role == Role[r.id] IN
  /\ TicketVisible(r, NormalizeTicketView(role, q.view, q.search), t)
  /\ q.queueId # None => t.queueId = q.queueId
  /\ IF q.statuses = {} THEN t.status # "WITHDRAWN" ELSE t.status \in q.statuses
  /\ q.priority # None => ColumnSearchable(t, "priority", role) /\ t.priority = q.priority
  /\ q.search => TextSearch(t, role)

(* A department outside the reader's own is refused.                       *)
ListRefused(r, q) ==
  Role[r.id] \in {"AGENT", "ADMIN"} /\ q.queueId \notin r.queues \cup {None}

ListTickets(r, q, t) == ~ListRefused(r, q) /\ Listed(r, q, t)

-----------------------------------------------------------------------------
(* The dashboard.                                                          *)

Cards == {"total", "open", "pending", "resolved", "urgent"}

InDepartments(r, t) ==
  CASE Role[r.id] = "USER" -> r.id = Requester
    [] Role[r.id] = "SUPER_ADMIN" -> TRUE
    [] OTHER -> t.queueId \in r.queues

Counted(card, r, t) ==
  /\ InDepartments(r, t) /\ t.status # "WITHDRAWN"
  /\ card = "open" => t.status \in {"NEW", "OPEN"}
  /\ card = "pending" => t.status \in {"PENDING_USER", "PENDING_AGENT"}
  /\ card = "resolved" => t.status \in {"RESOLVED", "CLOSED"}
  /\ card = "urgent" => /\ ColumnSearchable(t, "priority", Role[r.id])
                        /\ t.priority = "URGENT" /\ t.status \notin {"RESOLVED", "CLOSED"}

(* statCards: where a card leads.                                          *)
TicketHref(card, r) ==
  [NoFilter EXCEPT
     !.view = BroadestTicketView(Role[r.id]),
     !.statuses = CASE card = "total" -> {}
                    [] card = "open" -> {"NEW", "OPEN"}
                    [] card = "pending" -> {"PENDING_USER", "PENDING_AGENT"}
                    [] card = "resolved" -> {"RESOLVED", "CLOSED"}
                    [] card = "urgent" -> OpenStatuses,
     !.priority = IF card = "urgent" THEN "URGENT" ELSE None]

-----------------------------------------------------------------------------

ListsInit ==
  /\ reader \in Reader
  /\ \E row \in ListedTicket : listed = row

ListsNext == UNCHANGED listVars

(* Who may open a ticket may list it and no one else, whatever the view    *)
(* and the filters: lists and canAccessTicket are written separately.  The *)
(* number on each card of the dashboard is the number of tickets in the    *)
(* list it leads to, also where a form hides the priority.                 *)
ListsAgree ==
  LET members == {<<reader.id, q>> : q \in reader.queues} IN
  /\ \A q \in WideQuery :
       ListTickets(reader, q, listed) => CanAccessTicket(members, reader.id, listed)
  /\ CanAccessTicket(members, reader.id, listed) /\ listed.status # "WITHDRAWN" =>
       ListTickets(reader, [NoFilter EXCEPT !.view = BroadestTicketView(Role[reader.id])], listed)
  /\ \A card \in Cards :
       Counted(card, reader, listed) <=> ListTickets(reader, TicketHref(card, reader), listed)

(* Searching and filtering reveal nothing that the answer would hide: a    *)
(* column is searched for a role exactly if the role is shown it.          *)
SearchesWhatIsShown ==
  \A column \in Hideable \cup {"priority"} :
    ColumnSearchable(listed, column, Role[reader.id])
      <=> TicketBuiltInAllowed(listed, column, Role[reader.id])

-----------------------------------------------------------------------------
(***************************************************************************)
(* The filters of the ticket lists and the address bar, which follow each  *)
(* other: src/app/(dashboard)/tickets/page.tsx, and queue/page.tsx next to *)
(* it, which has the same effects without the view and the delay.  The     *)
(* page writes every change of its filters to the address; the router      *)
(* takes its time: it may still show one address when a newer one waits,   *)
(* and passes over those that came between.  Links and the buttons of the  *)
(* browser write the address as well, and those the filters have to follow.*)
(*                                                                         *)
(* One action is one commit of React with its effects, and the commits     *)
(* that follow from them at once.                                          *)
(***************************************************************************)

CONSTANTS
  Searches,    \* texts to search for
  NoText,      \* the empty text, and a parameter that is absent
  Broadest,    \* the view of the role that lists most
  MaxChanges   \* bound: changes by the user and by links

VARIABLES
  searchInput,    \* the text in the box
  filter,         \* view, search and page
  scopeExplicit,  \* the view was chosen, not implied
  address,        \* urlSnapshot, as last committed
  pendingUrls, latestOwnUrl,
  routing,        \* the addresses on their way through the router
  changes

filterVars ==
  <<searchInput, filter, scopeExplicit, address, pendingUrls, latestOwnUrl, routing, changes>>

Texts == Searches \cup {NoText}
FilterView == {"my", Broadest}
Filter == [view : FilterView, search : Texts, page : {1, 2}]
Address == [view : FilterView \cup {NoText}, search : Texts, page : {1, 2}]

ASSUME NoTextAssumption == NoText \notin FilterView \cup Address

\* Mutant: an address without a view implies none.
FromAddressAsGiven(a) == a

(* What an address stands for, and the address that stands for filters.    *)
FromAddress(a) ==
  [a EXCEPT !.view = IF a.view # NoText THEN a.view
                     ELSE IF a.search # NoText THEN Broadest ELSE "my"]
\* Mutant: the view is left out whenever it is the first one.
ToAddressShort(f, explicit) ==
  [f EXCEPT !.view = IF f.view # "my" THEN f.view ELSE NoText]

ToAddress(f, explicit) ==
  [f EXCEPT !.view = IF f.view # "my" \/ f.search # NoText \/ explicit THEN f.view ELSE NoText]

FiltersInit ==
  /\ address \in Address
  /\ filter = FromAddress(address) /\ searchInput = address.search
  /\ scopeExplicit = (address.view # NoText)
  /\ ToAddress(filter, scopeExplicit) = address
  /\ pendingUrls = {} /\ latestOwnUrl = NoText
  /\ routing = <<>> /\ changes = 0

(* router.replace and router.push.                                         *)
Requested(queue, next) ==
  IF Len(queue) < 2 THEN Append(queue, next) ELSE <<Head(queue), next>>

(* The effect that writes the address, after a commit that shows filters f *)
(* at address a.                                                           *)
SyncUrl(f, explicit, a, pending, latest, queue) ==
  LET next == ToAddress(f, explicit) IN
  IF next = a
    THEN pendingUrls' = pending /\ latestOwnUrl' = latest /\ routing' = queue
    ELSE /\ pendingUrls' = pending \cup {next} /\ latestOwnUrl' = next
         /\ routing' = Requested(queue, [url |-> next, own |-> TRUE])

ChangeBudget == changes < MaxChanges /\ changes' = changes + 1

(* The user changes a filter; the first page is shown again.               *)
ChangeFilters(f, explicit) ==
  /\ filter' = f /\ scopeExplicit' = explicit
  /\ SyncUrl(f, explicit, address, pendingUrls, latestOwnUrl, routing)
  /\ UNCHANGED address

ChooseView(v) ==
  /\ ChangeBudget /\ v # filter.view
  /\ ChangeFilters([filter EXCEPT !.view = v, !.page = 1], TRUE)
  /\ UNCHANGED searchInput

ChoosePage(p) ==
  /\ ChangeBudget /\ p # filter.page
  /\ ChangeFilters([filter EXCEPT !.page = p], scopeExplicit)
  /\ UNCHANGED searchInput

ResetFilters ==
  /\ ChangeBudget /\ searchInput' = NoText
  /\ ChangeFilters([view |-> "my", search |-> NoText, page |-> 1], FALSE)

TypeSearch(text) ==
  /\ ChangeBudget /\ text # searchInput /\ searchInput' = text
  /\ UNCHANGED <<filter, scopeExplicit, address, pendingUrls, latestOwnUrl, routing>>

(* 250 ms after the last key.  A search looks everywhere unless a view was *)
(* chosen.                                                                 *)
ApplySearch ==
  /\ searchInput # filter.search
  /\ ChangeFilters(
       [view |-> IF searchInput # NoText /\ filter.search = NoText /\ ~scopeExplicit
                 THEN Broadest ELSE filter.view,
        search |-> searchInput, page |-> 1],
       scopeExplicit)
  /\ UNCHANGED <<searchInput, changes>>

(* A link, or back and forward.                                            *)
FollowLink(a) ==
  /\ ChangeBudget
  /\ routing' = Requested(routing, [url |-> a, own |-> FALSE])
  /\ UNCHANGED <<searchInput, filter, scopeExplicit, address, pendingUrls, latestOwnUrl>>

(* The router passes over an address for a newer one.                      *)
PassOver ==
  /\ Len(routing) > 1 /\ routing' = Tail(routing)
  /\ UNCHANGED <<searchInput, filter, scopeExplicit, address, pendingUrls, latestOwnUrl, changes>>

\* Mutant: every address is taken for a foreign one.
NeverOwn(a) == FALSE

IsOwn(a) == a \in pendingUrls

(* Addresses that a link overtook are the page's own no longer.            *)
Overtaken == [i \in 1 .. Len(routing) - 1 |-> [routing[i + 1] EXCEPT !.own = FALSE]]

(* The effect on a new address.  One of the page's own is acknowledged     *)
(* and, if the filters have changed again, replaced; another one is taken  *)
(* over, and written back only if the filters changed by it.               *)
CommitAddress ==
  /\ routing # <<>>
  /\ LET a == Head(routing).url
         taken == FromAddress(a)
     IN /\ address' = a
        /\ CASE a = address ->
                  /\ routing' = Tail(routing)
                  /\ UNCHANGED <<searchInput, filter, scopeExplicit, pendingUrls, latestOwnUrl>>
             [] a # address /\ IsOwn(a) ->
                  /\ SyncUrl(filter, scopeExplicit, a,
                             IF latestOwnUrl = a THEN {} ELSE pendingUrls \ {a},
                             IF latestOwnUrl = a THEN NoText ELSE latestOwnUrl,
                             Tail(routing))
                  /\ UNCHANGED <<searchInput, filter, scopeExplicit>>
             [] OTHER ->
                  /\ filter' = taken /\ searchInput' = a.search
                  /\ scopeExplicit' = (a.view # NoText)
                  /\ IF taken = filter
                       THEN pendingUrls' = {} /\ latestOwnUrl' = NoText /\ routing' = Overtaken
                       ELSE SyncUrl(taken, a.view # NoText, a, {}, NoText, Overtaken)
  /\ UNCHANGED changes

FiltersNext ==
  \/ \E v \in FilterView : ChooseView(v)
  \/ \E p \in {1, 2} : ChoosePage(p)
  \/ \E text \in Texts : TypeSearch(text)
  \/ \E a \in Address : FollowLink(a)
  \/ ResetFilters \/ ApplySearch \/ PassOver \/ CommitAddress

-----------------------------------------------------------------------------
FiltersTypeOK ==
  /\ searchInput \in Texts /\ filter \in Filter /\ scopeExplicit \in BOOLEAN
  /\ address \in Address /\ pendingUrls \subseteq Address
  /\ latestOwnUrl \in Address \cup {NoText}

(* When everything has come to rest the address shows what the page shows: *)
(* reloading it, or sending it to someone, gives the same list; unless the *)
(* last address of the page was passed over for a link to where it was.    *)
AddressTellsFilters ==
  routing = <<>> /\ searchInput = filter.search /\ latestOwnUrl = NoText =>
    FromAddress(address) = filter

(* The router never takes back what the user did meanwhile: an address of  *)
(* the page's own changes no filter and no text being typed when it comes. *)
AcknowledgmentsChangeNothing ==
  address' # address /\ Head(routing).own => UNCHANGED <<filter, searchInput>>
=============================================================================
