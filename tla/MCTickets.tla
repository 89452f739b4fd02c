------------------------------ MODULE MCTickets ------------------------------
(***************************************************************************)
(* A small instance of the requests that change a ticket, and of the pages *)
(* that show it and list it.  They share no variable, so that their        *)
(* interleavings show nothing that a behaviour of one of them does not:    *)
(* subject says which one takes steps, and the others start from one       *)
(* state.                                                                  *)
(***************************************************************************)
EXTENDS MCTicketHandlers, Conversation, TicketLists

VARIABLE subject

Subjects == {"requests", "page", "talk", "lists", "filters"}

(* A form that hides nothing, one that hides a column by its key or by its *)
(* meaning, and fields that are no longer in use.                          *)
Hiding(key, meaning, roles, active) ==
  [fieldKey |-> key, builtIn |-> meaning, visibleTo |-> roles, isActive |-> active]
MCSnapshots ==
  {{},
   {Hiding("title", "title", {"AGENT", "ADMIN"}, TRUE)},
   {Hiding("other", "priority", {"ADMIN"}, TRUE), Hiding("tags", None, Roles, FALSE)},
   {Hiding("priority", None, {"USER", "AGENT"}, TRUE),
    Hiding("other", "title", Roles, FALSE)}}

RequestsStart == IF subject = "requests" THEN MCInit ELSE MCInit /\ ticket.status = "NEW"

(* Agents and administrators differ on the page only in what they may do   *)
(* to entries of others, administrators and super administrators only in   *)
(* withdrawals.                                                            *)
PageStart ==
  /\ TicketPageInit
  /\ CASE subject = "page" -> myRole \in {"USER", "AGENT", "SUPER_ADMIN"}
       [] subject = "talk" -> mine /\ myRole # "SUPER_ADMIN"
       [] OTHER -> mine /\ myRole = "USER"

TalkStart ==
  /\ ConversationInit /\ remark.text = CHOOSE text \in Phrases : TRUE
  /\ subject = "talk" \/ (remark.own /\ ~remark.internal)

ListsStart ==
  /\ ListsInit
  /\ listed.priority \in {"LOW", "URGENT"} /\ listed.assignees \in {{}, {reader.id}}
  /\ listed.status \in {"NEW", "PENDING_USER", "CLOSED", "WITHDRAWN"}
  /\ listed.hits \in {{}, {"title"}, {"queue"}}
  /\ subject = "lists" \/
       /\ reader = [id |-> Requester, queues |-> {}]
       /\ listed = [queueId |-> q1, status |-> "NEW", priority |-> "LOW", assignees |-> {},
                    hits |-> {}, fields |-> {}]

FiltersStart ==
  /\ FiltersInit /\ address.search = NoText
  /\ subject = "filters" \/ address = [view |-> NoText, search |-> NoText, page |-> 1]

TicketsInit ==
  /\ subject \in Subjects
  /\ RequestsStart /\ PageStart /\ TalkStart /\ ListsStart /\ FiltersStart

TicketsNext ==
  /\ UNCHANGED subject
  /\ \/ /\ subject = "requests" /\ Next
        /\ UNCHANGED <<ticketPageVars, talkVars, listVars, filterVars>>
     \/ /\ subject = "page" /\ TicketPageNext
        /\ UNCHANGED <<vars, talkVars, listVars, filterVars>>
     \/ /\ subject = "talk" /\ ConversationNext
        /\ UNCHANGED <<vars, ticketPageVars, listVars, filterVars>>
     \/ /\ subject = "lists" /\ ListsNext
        /\ UNCHANGED <<vars, ticketPageVars, talkVars, filterVars>>
     \/ /\ subject = "filters" /\ FiltersNext
        /\ UNCHANGED <<vars, ticketPageVars, talkVars, listVars>>

ticketsVars == <<subject, vars, ticketPageVars, talkVars, listVars, filterVars>>
TicketsSpec == TicketsInit /\ [][TicketsNext]_ticketsVars

(* The shape of what the pages show, of what is in flight and at the       *)
(* server.                                                                 *)
PagesTypeOK == TicketPageTypeOK /\ ConversationTypeOK /\ FiltersTypeOK

(* The pages agree with the server, and lists with each other and with     *)
(* their address: see the parts.                                           *)
PagesAgree == TalkIsPermitted /\ ListsAgree /\ SearchesWhatIsShown /\ AddressTellsFilters

(* The pages undo nothing unseen, send what was written, and keep what was *)
(* chosen meanwhile: see the parts.                                        *)
PagesLoseNothing ==
  [][NothingUnseenIsUndone /\ SentAsWritten /\ AcknowledgmentsChangeNothing]_ticketsVars
=============================================================================
