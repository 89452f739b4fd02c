-------------------------- MODULE MCTicketHandlers --------------------------
(***************************************************************************)
(* Small instances of TicketHandlers.  The cfgs choose among the PATCH     *)
(* bodies and the users below; every other constant has one value here.    *)
(***************************************************************************)
EXTENDS TicketHandlers, TLC

CONSTANTS requester, agent, localAgent, admin, superAdmin, q1, q2

MCRole ==
  [u \in Users |-> CASE u = requester -> "USER"
                     [] u = admin -> "ADMIN"
                     [] u = superAdmin -> "SUPER_ADMIN"
                     [] OTHER -> "AGENT"]

MCMembership ==
  {<<agent, q1>>, <<agent, q2>>, <<localAgent, q1>>, <<admin, q1>>}
    \cap (Users \X Queues)
OneMembership == {u \in Users : MCRole[u] # "USER"} \X {q1}

MCSlaPolicies ==
  {<<q1, "NORMAL">>, <<q1, "URGENT">>, <<q2, "NORMAL">>} \cap (Queues \X Priorities)
MCPriorityEditors == {"AGENT", "ADMIN", "SUPER_ADMIN"}

NoChange == [status |-> None, priority |-> None, queueId |-> None]
ChangeInputs ==
  {[NoChange EXCEPT !.status = s] :
     s \in {"OPEN", "RESOLVED", "CLOSED", "WITHDRAWN"}}
    \cup {[NoChange EXCEPT !.queueId = q] : q \in Queues}
    \cup {[NoChange EXCEPT !.priority = "LOW", !.queueId = q2]}
ContractInputs ==
  {[NoChange EXCEPT !.status = s] : s \in {"OPEN", "RESOLVED"}}
    \cup {[NoChange EXCEPT !.queueId = q2]}

(* Only the first department and the default priority at creation.         *)
MCInit == Init /\ ticket.queueId = q1 /\ ticket.priority = "NORMAL"
MCSpec == MCInit /\ [][Next]_vars

Symmetry == Permutations(Requests)
=============================================================================
