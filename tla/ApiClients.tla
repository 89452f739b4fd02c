----------------------------- MODULE ApiClients -----------------------------
(***************************************************************************)
(* API clients: src/app/api/api-clients/route.ts, the schemas of           *)
(* src/lib/api-clients.ts and ApiClientsTab of                             *)
(* src/app/(dashboard)/admin/settings/page.tsx.  No button of the tab      *)
(* waits for the request of another.  One client is followed from its      *)
(* creation to its deletion.                                               *)
(***************************************************************************)
EXTENDS Naturals, FiniteSets

CONSTANTS
  ApiCalls,    \* requests
  ApiQueues,   \* departments
  NoApi,       \* no client, no key, nothing in flight, not in the body
  MaxApiCalls  \* bound

VARIABLES
  client,     \* the row of the client the requests are about, or NoApi
  apiPage,    \* the tab: the row it lists, the departments and the switch
              \* of its form, the key it shows
  apiCall,    \* apiCall[c]: the request in flight, or NoApi
  keys,       \* keys generated so far, and the latest of them
  lostKey,    \* the key whose answer was lost last, or 0
  apisCrossed,    \* two requests about the row were in flight together
  apiCalls    \* requests so far

apiVars == <<client, apiPage, apiCall, keys, lostKey, apisCrossed, apiCalls>>

ApiClient == [all : BOOLEAN, queues : SUBSET ApiQueues, active : BOOLEAN, key : Nat]
ApiBody ==
  [create : BOOLEAN, all : BOOLEAN \cup {NoApi}, queues : {NoApi} \cup SUBSET ApiQueues,
   active : BOOLEAN \cup {NoApi}, rotate : BOOLEAN]
ApiRequest ==
  [at : {"sent", "judged", "done"}, body : ApiBody, key : Nat \cup {NoApi}]
ASSUME NoApiAssumption == NoApi \notin Nat \cup ApiRequest
NothingAsked ==
  [create |-> FALSE, all |-> NoApi, queues |-> NoApi, active |-> NoApi, rotate |-> FALSE]
Asked(value, default) == IF value = NoApi THEN default ELSE value

ApiInit ==
  /\ client = NoApi
  /\ apiPage = [row |-> NoApi, queues |-> {}, all |-> FALSE, key |-> NoApi]
  /\ apiCall = [c \in ApiCalls |-> NoApi] /\ keys = 0 /\ lostKey = 0
  /\ apisCrossed = FALSE /\ apiCalls = 0

ApiCallIs(c, stage) == apiCall[c] # NoApi /\ apiCall[c].at = stage

-----------------------------------------------------------------------------
(* The form: all departments, or those that are picked.                    *)
PickApiQueue(q) ==
  /\ ~apiPage.all
  /\ apiPage' = [apiPage EXCEPT !.queues = IF q \in @ THEN @ \ {q} ELSE @ \cup {q}]
  /\ UNCHANGED <<client, apiCall, keys, lostKey, apisCrossed, apiCalls>>

PickAllQueues ==
  /\ apiPage' = [apiPage EXCEPT !.all = ~@, !.queues = IF apiPage.all THEN @ ELSE {}]
  /\ UNCHANGED <<client, apiCall, keys, lostKey, apisCrossed, apiCalls>>

SendApi(c, body) ==
  /\ apiCall[c] = NoApi /\ apiCalls < MaxApiCalls
  /\ apiCall' = [apiCall EXCEPT ![c] = [at |-> "sent", body |-> body, key |-> NoApi]]
  /\ apisCrossed' = (apisCrossed \/ \E other \in ApiCalls : apiCall[other] # NoApi)
  /\ apiCalls' = apiCalls + 1
  /\ UNCHANGED <<client, apiPage, keys, lostKey>>

CreateApiClient(c) ==
  SendApi(c, [NothingAsked EXCEPT !.create = TRUE, !.all = apiPage.all,
                !.queues = IF apiPage.all THEN {} ELSE apiPage.queues, !.active = TRUE])

(* The buttons of the row send what follows from the row that is shown.    *)
ToggleApi(c) ==
  /\ apiPage.row # NoApi
  /\ LET row == apiPage.row
         shown == IF row.all THEN {} ELSE row.queues
     IN \/ SendApi(c, [NothingAsked EXCEPT !.active = ~row.active])
        \/ SendApi(c, [NothingAsked EXCEPT !.all = ~row.all, !.queues = {}])
        \/ \E q \in ApiQueues :
             SendApi(c, [NothingAsked EXCEPT !.all = FALSE,
                           !.queues = IF q \in shown THEN shown \ {q} ELSE shown \cup {q}])
        \/ SendApi(c, [NothingAsked EXCEPT !.rotate = TRUE])

(* A script may send one of the two fields.                                *)
ScriptApi(c) ==
  \/ SendApi(c, [NothingAsked EXCEPT !.all = TRUE])
  \/ \E queues \in SUBSET ApiQueues : SendApi(c, [NothingAsked EXCEPT !.queues = queues])

-----------------------------------------------------------------------------
(* Judged with the row as it was read, and then updated without it.        *)
AloneInTheBody(row, body) ==  \* mutant: only the fields of the body are compared
  ~(Asked(body.all, FALSE) /\ Asked(body.queues, {}) # {})
AllowAllIsAlone(row, body) == ~(Asked(body.all, row.all) /\ Asked(body.queues, row.queues) # {})

JudgeApi(c) ==
  /\ ApiCallIs(c, "sent")
  /\ ~apiCall[c].body.create => client # NoApi /\ AllowAllIsAlone(client, apiCall[c].body)
  /\ apiCall' = [apiCall EXCEPT ![c].at = "judged"]
  /\ UNCHANGED <<client, apiPage, keys, lostKey, apisCrossed, apiCalls>>

AnyChangeOfAccess(body) == body.rotate \/ body.active # NoApi  \* mutant: also when switched
NeedsNewKey(body) == body.create \/ body.rotate
GivesKey(body) == body.create \/ body.rotate

CommitApi(c) ==
  /\ ApiCallIs(c, "judged")
  /\ LET body == apiCall[c].body
         new == keys + 1
     IN /\ IF body.create THEN keys = 0 ELSE client # NoApi
        /\ client' = IF body.create
             THEN [all |-> body.all, queues |-> body.queues, active |-> TRUE, key |-> new]
             ELSE [client EXCEPT !.all = Asked(body.all, @), !.queues = Asked(body.queues, @),
                                 !.active = Asked(body.active, @),
                                 !.key = IF NeedsNewKey(body) THEN new ELSE @]
        /\ keys' = IF NeedsNewKey(body) THEN new ELSE keys
        /\ apiCall' = [apiCall EXCEPT ![c].at = "done",
                                      ![c].key = IF GivesKey(body) THEN new ELSE NoApi]
  /\ UNCHANGED <<apiPage, lostKey, apisCrossed, apiCalls>>

(* A refusal, or a connection that is lost with the answer to a request    *)
(* that is stored: nobody is shown the key in it.                          *)
RefuseApi(c) ==
  /\ apiCall[c] # NoApi
  /\ apiCall' = [apiCall EXCEPT ![c] = NoApi]
  /\ lostKey' = Asked(apiCall[c].key, lostKey)
  /\ UNCHANGED <<client, apiPage, keys, apisCrossed, apiCalls>>

(* Answers: a key is shown in the place of the one shown before, and the   *)
(* form is emptied after a creation.                                       *)
AnswerApi(c) ==
  /\ ApiCallIs(c, "done")
  /\ apiPage' = [apiPage EXCEPT
       !.key = Asked(apiCall[c].key, @),
       !.queues = IF apiCall[c].body.create THEN {} ELSE @,
       !.all = ~apiCall[c].body.create /\ @]
  /\ apiCall' = [apiCall EXCEPT ![c] = NoApi]
  /\ UNCHANGED <<client, keys, lostKey, apisCrossed, apiCalls>>

RefreshApi ==
  /\ apiPage' = [apiPage EXCEPT !.row = client]
  /\ UNCHANGED <<client, apiCall, keys, lostKey, apisCrossed, apiCalls>>

DeleteApiClient ==
  /\ client # NoApi /\ apiCalls < MaxApiCalls
  /\ client' = NoApi /\ apiCalls' = apiCalls + 1
  /\ UNCHANGED <<apiPage, apiCall, keys, lostKey, apisCrossed>>

ApiNext ==
  \/ \E q \in ApiQueues : PickApiQueue(q)
  \/ PickAllQueues \/ RefreshApi \/ DeleteApiClient
  \/ \E c \in ApiCalls :
       \/ CreateApiClient(c) \/ ToggleApi(c) \/ ScriptApi(c)
       \/ JudgeApi(c) \/ CommitApi(c) \/ RefuseApi(c) \/ AnswerApi(c)

ApiSpec == ApiInit /\ [][ApiNext]_apiVars

-----------------------------------------------------------------------------
ApiTypeOK ==
  /\ client \in ApiClient \cup {NoApi}
  /\ \A c \in ApiCalls : apiCall[c] # NoApi => apiCall[c].body \in ApiBody
  /\ apiPage.queues \subseteq ApiQueues

(* As long as the requests about a client did not overlap, a client with   *)
(* access to all departments names none (it would keep them when the       *)
(* access is taken back), and once the answers are there the key that the  *)
(* tab shows is the client's, unless the answer with the client's key is   *)
(* what was lost.                                                          *)
KeysAndAccessAreAsShown ==
  client # NoApi /\ ~apisCrossed =>
    /\ ~(client.all /\ client.queues # {})
    /\ (\A c \in ApiCalls : apiCall[c] = NoApi) =>
         apiPage.key = client.key \/ client.key = lostKey
=============================================================================
