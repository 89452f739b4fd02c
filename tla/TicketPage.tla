----------------------------- MODULE TicketPage -----------------------------
(***************************************************************************)
(* The page of a ticket, src/app/(dashboard)/tickets/[id]/page.tsx, with   *)
(* its picker of tags: one page of one user against a server where other   *)
(* people work on the same ticket (Elsewhere).  The page shows what a read *)
(* of the ticket found, reads again every 15 seconds and after each change *)
(* of its own, and sends each change with the version that it shows.  The  *)
(* server reads the row of the ticket first and then what hangs on it, and *)
(* takes a change only if the version is still the one in the row; that    *)
(* every change of the row and the assignees raises it is TicketHandlers'. *)
(***************************************************************************)
EXTENDS Naturals, FiniteSets

CONSTANTS
  Labels,        \* ids of tags
  Colleagues,    \* users who may be assigned
  Blank,         \* nothing shown, asked or drafted
  MaxClicks,     \* bound: requests of the page
  MaxElsewhere   \* bound: changes made by others

VARIABLES
  myRole, mine,  \* the role of the user, and whether they filed the ticket
  stored,        \* the ticket at the server
  view,          \* the ticket on the page, or Blank
  reading,       \* the read in flight, or Blank
  picker,        \* the list of tags is open
  labelDraft,    \* tagDraft: the tags toggled since it was opened, or Blank
  updates,       \* the changes in flight
  assignLock,    \* assignmentRequestLock
  clicks, elsewhere

labelVars == <<picker, labelDraft>>
ticketPageVars ==
  <<myRole, mine, stored, view, reading, labelVars, updates, assignLock, clicks,
    elsewhere>>

PageRoles == {"USER", "AGENT", "ADMIN", "SUPER_ADMIN"}
IsAgent == myRole # "USER"

Stored == [version : Nat, withdrawn : BOOLEAN, labels : SUBSET Labels,
           assigned : SUBSET Colleagues]

ASSUME BlankAssumption == Blank \notin Stored

(* A change: what it is, the version sent, and what the page showed when   *)
(* its user made it (shown, which is not sent).                            *)
AssignmentOps == {"add", "remove"}
Operation == {"labels", "chip", "status", "withdraw"} \cup AssignmentOps
Update == [op : Operation, labels : SUBSET Labels, user : Colleagues \cup {Blank},
           version : Nat, shown : Stored, answer : {"none", "ok", "refused"}]

TicketPageInit ==
  /\ myRole \in PageRoles /\ mine \in BOOLEAN
  /\ stored = [version |-> 1, withdrawn |-> FALSE, labels |-> {}, assigned |-> {}]
  /\ view = Blank /\ reading = [stage |-> "asked"]
  /\ picker = FALSE /\ labelDraft = Blank
  /\ updates = {} /\ assignLock = FALSE
  /\ clicks = 0 /\ elsewhere = 0

-----------------------------------------------------------------------------
(* Reading.                                                                *)

Shown == view # Blank

(* refetchInterval; a read in flight is not repeated.                      *)
Poll ==
  /\ Shown /\ reading = Blank /\ reading' = [stage |-> "asked"]
  /\ UNCHANGED <<myRole, mine, stored, view, labelVars, updates, assignLock, clicks,
                 elsewhere>>

ReadTicketRow ==
  /\ reading # Blank /\ reading.stage = "asked"
  /\ reading' = [stage |-> "row", ticket |-> stored]
  /\ UNCHANGED <<myRole, mine, stored, view, labelVars, updates, assignLock, clicks,
                 elsewhere>>

(* The tags and assignments that the include clause asks for.              *)
ReadIncluded ==
  /\ reading # Blank /\ reading.stage = "row"
  /\ reading' = [stage |-> "whole",
                 ticket |-> [reading.ticket EXCEPT !.labels = stored.labels,
                                                   !.assigned = stored.assigned]]
  /\ UNCHANGED <<myRole, mine, stored, view, labelVars, updates, assignLock, clicks,
                 elsewhere>>

Show ==
  /\ reading # Blank /\ reading.stage = "whole"
  /\ view' = reading.ticket
  /\ reading' = Blank
  /\ UNCHANGED <<myRole, mine, stored, labelVars, updates, assignLock, clicks,
                 elsewhere>>

-----------------------------------------------------------------------------
(* What the page offers, and what the server permits.                      *)

Acting == Shown /\ IsAgent /\ ~view.withdrawn

OffersWithdrawal(t) ==
  ~t.withdrawn /\ (myRole = "SUPER_ADMIN" \/ (mine /\ t.assigned = {}))

WithdrawalPermitted(t) ==
  /\ myRole = "SUPER_ADMIN" \/ (mine /\ t.assigned = {})
  /\ ~t.withdrawn

-----------------------------------------------------------------------------
(* Changes of the ticket.                                                  *)

\* Mutant: the version is looked up when the request arrives.
VersionFound == stored.version

VersionSent == view.version

Send(op, labels, u) ==
  /\ clicks < MaxClicks /\ clicks' = clicks + 1
  /\ updates' = updates \cup
       {[op |-> op, labels |-> labels, user |-> u, version |-> VersionSent,
         shown |-> view, answer |-> "none"]}
  /\ UNCHANGED <<myRole, mine, stored, view, reading, elsewhere>>

Updating == \E u \in updates : u.op \notin AssignmentOps \cup {"withdraw"}

(* The picker cannot be opened during an update; it stays open while the   *)
(* page goes on reading.                                                   *)
OpenPicker ==
  /\ Acting /\ ~picker /\ ~Updating /\ picker' = TRUE
  /\ UNCHANGED <<myRole, mine, stored, view, reading, labelDraft, updates, assignLock,
                 clicks, elsewhere>>

Toggled(labels, l) == IF l \in labels THEN labels \ {l} ELSE labels \cup {l}
ToggleLabel(l) ==
  /\ picker /\ Acting
  /\ labelDraft' = Toggled(IF labelDraft = Blank THEN view.labels ELSE labelDraft, l)
  /\ UNCHANGED <<myRole, mine, stored, view, reading, picker, updates, assignLock,
                 clicks, elsewhere>>

(* commitTagDraft: the draft goes out with the version shown by now.       *)
ClosePicker ==
  /\ picker /\ picker' = FALSE /\ labelDraft' = Blank
  /\ IF labelDraft # Blank /\ labelDraft # view.labels
       THEN Send("labels", labelDraft, Blank) /\ UNCHANGED assignLock
       ELSE UNCHANGED <<myRole, mine, stored, view, reading, updates, assignLock,
                        clicks, elsewhere>>

RemoveChip(l) ==
  /\ Acting /\ ~picker /\ ~Updating /\ l \in view.labels
  /\ Send("chip", view.labels \ {l}, Blank)
  /\ UNCHANGED <<labelVars, assignLock>>

(* Status, priority and category: the lists are never disabled.            *)
ChooseStatus ==
  /\ Acting /\ ~picker
  /\ Send("status", {}, Blank)
  /\ UNCHANGED <<labelVars, assignLock>>

Withdraw ==
  /\ Shown /\ OffersWithdrawal(view)
  /\ \A u \in updates : u.op # "withdraw"
  /\ Send("withdraw", {}, Blank)
  /\ UNCHANGED <<labelVars, assignLock>>

\* Mutant: only the buttons that are disabled after the next rendering.
AlwaysFree == TRUE

AssignmentFree == ~assignLock

(* runAssignment: claim and add, unclaim and remove.                       *)
RunAssignment(op, u) ==
  /\ Acting /\ AssignmentFree
  /\ op = "add" <=> u \notin view.assigned
  /\ assignLock' = TRUE
  /\ Send(op, {}, u)
  /\ UNCHANGED labelVars

-----------------------------------------------------------------------------
(* The server takes a change, and the page learns of it.                   *)

Changed(t, u) ==
  [t EXCEPT !.version = @ + 1,
            !.withdrawn = @ \/ u.op = "withdraw",
            !.labels = IF u.op \in {"labels", "chip"} THEN u.labels ELSE @,
            !.assigned = IF u.op = "add" THEN @ \cup {u.user}
                         ELSE IF u.op = "remove" THEN @ \ {u.user} ELSE @]

Acceptable(u) ==
  /\ u.version = stored.version
  /\ u.op = "withdraw" => WithdrawalPermitted(stored)

Serve(u) ==
  /\ u \in updates /\ u.answer = "none"
  /\ stored' = IF Acceptable(u) THEN Changed(stored, u) ELSE stored
  /\ updates' = (updates \ {u}) \cup
       {[u EXCEPT !.answer = IF Acceptable(u) THEN "ok" ELSE "refused"]}
  /\ UNCHANGED <<myRole, mine, view, reading, labelVars, assignLock, clicks,
                 elsewhere>>

(* onSuccess, onError and onSettled: a success reads again, and gives up   *)
(* the read in flight (invalidateQueries); a withdrawal leaves the page.   *)
Settle(u) ==
  /\ u \in updates /\ u.answer # "none"
  /\ updates' = updates \ {u}
  /\ assignLock' = (assignLock /\ u.op \notin AssignmentOps)
  /\ IF u.answer = "ok" /\ u.op = "withdraw"
       THEN view' = Blank /\ reading' = Blank /\ picker' = FALSE /\ labelDraft' = Blank
       ELSE /\ reading' = IF u.answer = "ok" /\ Shown THEN [stage |-> "asked"] ELSE reading
            /\ UNCHANGED <<view, labelVars>>
  /\ UNCHANGED <<myRole, mine, stored, clicks, elsewhere>>

-----------------------------------------------------------------------------
(* Other people.                                                           *)

Elsewhere ==
  /\ elsewhere < MaxElsewhere /\ elsewhere' = elsewhere + 1
  /\ \/ \E labels \in SUBSET Labels :
          stored' = [stored EXCEPT !.labels = labels, !.version = @ + 1]
     \/ \E assigned \in SUBSET Colleagues :
          stored' = [stored EXCEPT !.assigned = assigned, !.version = @ + 1]
  /\ UNCHANGED <<myRole, mine, view, reading, labelVars, updates, assignLock, clicks>>

TicketPageNext ==
  \/ Poll \/ ReadTicketRow \/ ReadIncluded \/ Show
  \/ OpenPicker \/ ClosePicker \/ ChooseStatus \/ Withdraw
  \/ \E l \in Labels : ToggleLabel(l) \/ RemoveChip(l)
  \/ \E op \in AssignmentOps, u \in Colleagues : RunAssignment(op, u)
  \/ \E u \in updates : Serve(u) \/ Settle(u)
  \/ Elsewhere

-----------------------------------------------------------------------------
(* The shape of the ticket, of the page and of what is in flight.          *)
TicketPageTypeOK ==
  /\ stored \in Stored /\ (Shown => view \in Stored)
  /\ labelDraft \in (SUBSET Labels) \cup {Blank}
  /\ updates \subseteq Update

(* A change that the server takes was made on what it finds: nothing that  *)
(* others did to the tags, the assignees or the ticket since the page read *)
(* it is undone unseen (expectedVersion), except by the picker, whose      *)
(* draft may be older than the version it is sent with.  And of two clicks *)
(* on assignments the second waits for the answer to the first.            *)
NothingUnseenIsUndone ==
  /\ \A u \in updates :
       u.op # "labels" /\ Serve(u) /\ stored' # stored => u.shown = stored
  /\ Cardinality({u \in updates : u.op \in AssignmentOps}) <= 1
=============================================================================
