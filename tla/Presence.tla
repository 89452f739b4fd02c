------------------------------ MODULE Presence ------------------------------
(***************************************************************************)
(* Who is looking at a ticket: the heartbeats of the ticket page, the      *)
(* route that stores them (src/app/api/tickets/[id]/presence/route.ts) and *)
(* the viewers that a read of the ticket lists.  One member of the staff   *)
(* has several tabs open on one ticket; requests overtake each other.      *)
(***************************************************************************)
EXTENDS Naturals, FiniteSets

CONSTANTS
  Views,       \* the tabs that are opened on the ticket
  Nobody,      \* no row
  Beat,        \* ticks between two heartbeats
  Fade,        \* ticks after which a row is not listed
  Sweep,       \* ticks after which any heartbeat removes a row
  MaxMoments, MaxVisits, MaxLost  \* bounds: time, tabs opened, requests lost

(* What a tab keeps of its heartbeats.                                     *)
Timer == [since : Nat, next : Nat]

(* A row lasts two heartbeats (45 s, 90 s and 5 min in the code).          *)
ASSUME PresenceAssumption ==
  /\ Beat \in Nat \ {0} /\ Fade \in Nat /\ Sweep \in Nat
  /\ 2 * Beat <= Fade /\ Fade <= Sweep
  /\ MaxMoments \in Nat /\ Nobody \notin Nat \cup Timer

VARIABLES
  lastSeenAt,   \* the row in ticket_presence, or Nobody
  viewing,      \* viewing[v]: since when, and when the next heartbeat is due; or Nobody
  sent,         \* the requests in flight: what, and since when
  leftAt,       \* when a tab was last closed, or its closing was stored
  lostAt,       \* when a heartbeat was last lost
  moments, visits, lost

presenceVars == <<lastSeenAt, viewing, sent, leftAt, lostAt, moments, visits, lost>>

Seen(row) == row # Nobody /\ moments - row <= Fade
IsListed == Seen(lastSeenAt)
InView == {v \in Views : viewing[v] # Nobody}

PresenceInit ==
  /\ lastSeenAt = Nobody /\ viewing = [v \in Views |-> Nobody] /\ sent = {}
  /\ leftAt = Nobody /\ lostAt = Nobody /\ moments = 0 /\ visits = 0 /\ lost = 0

-----------------------------------------------------------------------------
Open(v) ==
  /\ viewing[v] = Nobody /\ visits < MaxVisits
  /\ viewing' = [viewing EXCEPT ![v] = [since |-> moments, next |-> moments]]
  /\ visits' = visits + 1
  /\ UNCHANGED <<lastSeenAt, sent, leftAt, lostAt, moments, lost>>

AnyTab(v) == visits > 0  \* mutant: the timer outlives the page
Beats(v) == viewing[v] # Nobody

Heartbeat(v) ==
  /\ Beats(v)
  /\ viewing[v] # Nobody => viewing[v].next = moments
  /\ viewing' = IF viewing[v] = Nobody THEN viewing
                ELSE [viewing EXCEPT ![v].next = moments + Beat]
  /\ sent' = sent \cup {[op |-> "POST", tab |-> v, at |-> moments]}
  /\ UNCHANGED <<lastSeenAt, leftAt, lostAt, moments, visits, lost>>

Leave(v) ==
  /\ viewing[v] # Nobody
  /\ viewing' = [viewing EXCEPT ![v] = Nobody]
  /\ sent' = sent \cup {[op |-> "DELETE", tab |-> v, at |-> moments]}
  /\ leftAt' = moments
  /\ UNCHANGED <<lastSeenAt, lostAt, moments, visits, lost>>

-----------------------------------------------------------------------------
KeepsFirst == IF lastSeenAt = Nobody THEN moments ELSE lastSeenAt  \* mutant: only created
Upserted == moments

(* A heartbeat also removes the rows that are older than five minutes.     *)
Handle(request) ==
  /\ request \in sent /\ sent' = sent \ {request}
  /\ lastSeenAt' = IF request.op = "POST" THEN Upserted ELSE Nobody
  /\ leftAt' = IF request.op = "DELETE" THEN moments ELSE leftAt
  /\ UNCHANGED <<viewing, lostAt, moments, visits, lost>>

SweepRows ==
  /\ lastSeenAt # Nobody /\ moments - lastSeenAt > Sweep
  /\ lastSeenAt' = Nobody
  /\ UNCHANGED <<viewing, sent, leftAt, lostAt, moments, visits, lost>>

Lose(request) ==
  /\ request \in sent /\ sent' = sent \ {request}
  /\ lost < MaxLost /\ lost' = lost + 1
  /\ lostAt' = moments
  /\ UNCHANGED <<lastSeenAt, viewing, leftAt, moments, visits>>

(* Time passes when the timers that are due have fired; a request is       *)
(* handled before a heartbeat's time is over.                              *)
PresenceTick ==
  /\ moments < MaxMoments /\ moments' = moments + 1
  /\ \A v \in InView : viewing[v].next > moments
  /\ \A request \in sent : moments + 1 < request.at + Beat
  /\ UNCHANGED <<lastSeenAt, viewing, sent, leftAt, lostAt, visits, lost>>

PresenceNext ==
  \/ PresenceTick \/ SweepRows
  \/ \E v \in Views : Open(v) \/ Heartbeat(v) \/ Leave(v)
  \/ \E request \in sent : Handle(request) \/ Lose(request)

PresenceSpec == PresenceInit /\ [][PresenceNext]_presenceVars

-----------------------------------------------------------------------------
PresenceTypeOK ==
  /\ lastSeenAt \in 0..MaxMoments \cup {Nobody}
  /\ \A v \in InView : viewing[v].since \in 0..MaxMoments

Within(when, span) == when # Nobody /\ moments - when < span

(* Whoever has left is not listed longer than a row lasts after their last *)
(* request; whoever has a tab open is listed, but for a while after they   *)
(* opened it, closed another one, or a heartbeat was lost.                 *)
ViewersAreListed ==
  /\ IsListed /\ InView = {} => Within(leftAt, Beat + Fade)
  /\ \A v \in InView :
       IsListed \/ Within(viewing[v].since, Beat) \/ Within(leftAt, 2 * Beat)
                \/ Within(lostAt, 2 * Beat)
=============================================================================
