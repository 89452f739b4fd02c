-------------------------------- MODULE Mail --------------------------------
(***************************************************************************)
(* Mail: its settings and its transports.                                  *)
(*                                                                         *)
(* The stored settings: PATCH in src/app/api/settings/route.ts for SMTP    *)
(* and the notification switches, PATCH in src/app/api/settings/mail/      *)
(* route.ts for Microsoft 365.  A save judges the combination of what it   *)
(* submits with what is stored, in several reads, and writes only what it  *)
(* submits in one transaction at the end.                                  *)
(*                                                                         *)
(* Sending, the second part: src/lib/email.ts and src/lib/graph-mail.ts.   *)
(* A send looks up its notification switch, then the provider, then posts  *)
(* one message per recipient.  Microsoft 365 wants a token: one is kept,   *)
(* with the configuration it was asked with, and sends that need one at    *)
(* the same time wait for the same request.                                *)
(***************************************************************************)
EXTENDS Naturals, FiniteSets, Functions

CONSTANTS
  MailCalls,     \* requests in flight
  MaxMailCalls   \* bound: requests

VARIABLES
  mail,         \* mail[k]: the stored setting k
  mailCall,     \* mailCall[c]: how far request c is, or NoMailCall
  mailCrossed,  \* a save has written over another that came while it judged
  mailCount

mailVars == <<mail, mailCall, mailCrossed, mailCount>>

Unset == "unset"
PemOf == {Unset, "a", "b"}   \* a certificate, or the key that belongs to it
MailValue ==
  [port |-> {Unset, "465", "587"}, secure |-> {Unset, "true", "false"},
   requireTLS |-> {Unset, "true", "false"}, cert |-> PemOf, key |-> PemOf,
   from |-> {Unset, "x"}, user |-> {Unset, "x"}, notify |-> {"true", "false"},
   provider |-> {"smtp", "graph"}, tenant |-> {Unset, "x"}, secret |-> {Unset, "x"}]
MailKey == DOMAIN MailValue
NoMailCall == [at |-> "none"]

(* What administrators submit.  "null" removes, "keep" is an empty key.    *)
MailForms ==
  {[port |-> "465", secure |-> "true", requireTLS |-> "false"],
   [port |-> "587", secure |-> "false", requireTLS |-> "true"],
   [port |-> "465"], [port |-> "587"], [secure |-> "true"], [secure |-> "false"],
   [requireTLS |-> "false"],
   [cert |-> "a", key |-> "a"], [cert |-> "b", key |-> "b"], [cert |-> "b", key |-> "keep"],
   [key |-> "b"], [cert |-> "null"], [key |-> "null"], [cert |-> "null", key |-> "b"],
   [from |-> "x", notify |-> "true"], [notify |-> "true"], [notify |-> "false"],
   [user |-> "x"], [user |-> Unset]}
GraphForms ==
  {[provider |-> p, tenant |-> t] : p \in {"smtp", "graph"}, t \in {Unset, "x"}}
    \cup {[provider |-> "graph", tenant |-> "x", secret |-> "x"]}

(* Removing one half of the pair removes the other.                        *)
AsSubmitted(form) == form  \* mutant
ClearsClientPair(form) ==
  IF \E k \in DOMAIN form \cap {"cert", "key"} : form[k] = "null"
    THEN [k \in DOMAIN form \cup {"cert", "key"} |->
            IF k \in {"cert", "key"} THEN "null" ELSE form[k]]
    ELSE form

MailBodies == {ClearsClientPair(form) : form \in MailForms \cup GraphForms}
MailRequest ==
  [at : {"pair", "tls", "delivery", "graph", "store"}, form : MailBodies, overlapped : BOOLEAN]

ASSUME MailAssumption == MaxMailCalls \in Nat

Submitted(form, k) ==
  k \in DOMAIN form /\ form[k] \notin {"null", "keep"}
Merged(form, k) == IF Submitted(form, k) THEN form[k] ELSE mail[k]

-----------------------------------------------------------------------------
(* validateSmtpSecurityCombination, with the defaults of what is not set.  *)
Port(p) == IF p = Unset THEN "587" ELSE p
RequireTLS(s, r) == IF r = Unset THEN s # "true" ELSE r = "true"
ValidSmtp(p, s, r) ==
  /\ Port(p) = "465" => s = "true"
  /\ Port(p) = "587" => s # "true" /\ RequireTLS(s, r)
  /\ s = "true" => ~RequireTLS(s, r)

SubmittedOnly(form) ==  \* mutant: what is stored is left out of the judgement
  LET Own(k) == IF Submitted(form, k) THEN form[k] ELSE Unset
  IN ValidSmtp(Own("port"), Own("secure"), Own("requireTLS"))
ValidCombination(form) ==
  ValidSmtp(Merged(form, "port"), Merged(form, "secure"), Merged(form, "requireTLS"))

KeyMatchesCertificate(form) ==
  Merged(form, "cert") # Unset /\ Merged(form, "cert") = Merged(form, "key")

GraphMailConfig(m) == m.tenant # Unset /\ m.secret # Unset
HasSmtpAuthentication(m) == m.user # Unset \/ (m.cert # Unset /\ m.key # Unset)

GetEmailDeliveryStatus(m, from) ==
  IF m.provider = "graph" THEN GraphMailConfig(m)
  ELSE from # Unset /\ HasSmtpAuthentication(m)

(* Judged by what is stored, but for the From address: what else the same  *)
(* request submits does not count.                                         *)
HasFrom(form) == Merged(form, "from") # Unset  \* mutant: the From address is enough
CanDeliver(form) == GetEmailDeliveryStatus(mail, Merged(form, "from"))

-----------------------------------------------------------------------------
MailInit ==
  /\ mail = [k \in MailKey |-> IF k = "notify" THEN "false"
                               ELSE IF k = "provider" THEN "smtp" ELSE Unset]
  /\ mailCall = [c \in MailCalls |-> NoMailCall]
  /\ mailCrossed = FALSE /\ mailCount = 0

Stands(c, step) == mailCall[c].at = step
Moves(c, step) ==
  /\ mailCall' = [mailCall EXCEPT ![c].at = step]
  /\ UNCHANGED <<mail, mailCrossed, mailCount>>

AskMail(c) ==
  /\ mailCall[c] = NoMailCall /\ mailCount < MaxMailCalls
  /\ \E form \in MailForms \cup GraphForms :
       mailCall' = [mailCall EXCEPT ![c] =
         [at |-> IF "provider" \in DOMAIN form THEN "graph" ELSE "pair",
          form |-> ClearsClientPair(form), overlapped |-> FALSE]]
  /\ mailCount' = mailCount + 1
  /\ UNCHANGED <<mail, mailCrossed>>

JudgePair(c) ==
  LET form == mailCall[c].form
  IN /\ Stands(c, "pair")
     /\ Submitted(form, "cert") \/ Submitted(form, "key") => KeyMatchesCertificate(form)
     /\ Moves(c, "tls")

JudgeTls(c) ==
  LET form == mailCall[c].form
  IN /\ Stands(c, "tls")
     /\ DOMAIN form \cap {"port", "secure", "requireTLS"} # {} => ValidCombination(form)
     /\ Moves(c, "delivery")

JudgeDelivery(c) ==
  LET form == mailCall[c].form
  IN /\ Stands(c, "delivery")
     /\ "notify" \in DOMAIN form /\ form.notify = "true" => CanDeliver(form)
     /\ Moves(c, "store")

(* settings/mail/route.ts: the form holds all but the secret.              *)
JudgeGraph(c) ==
  LET form == mailCall[c].form
  IN /\ Stands(c, "graph")
     /\ form.provider = "graph" => GraphMailConfig([k \in MailKey |-> Merged(form, k)])
     /\ Moves(c, "store")

(* Every judgement may refuse, and the database may fail.                  *)
RefuseMail(c) ==
  /\ mailCall[c] # NoMailCall
  /\ mailCall' = [mailCall EXCEPT ![c] = NoMailCall]
  /\ UNCHANGED <<mail, mailCrossed, mailCount>>

StoreMail(c) ==
  LET form == mailCall[c].form
  IN /\ Stands(c, "store")
     /\ mail' = [k \in MailKey |->
                   IF k \in DOMAIN form /\ form[k] = "null" THEN Unset ELSE Merged(form, k)]
     /\ mailCrossed' = (mailCrossed \/ mailCall[c].overlapped)
     /\ mailCall' = [x \in MailCalls |->
          IF x = c \/ mailCall[x] = NoMailCall THEN NoMailCall
          ELSE [mailCall[x] EXCEPT !.overlapped = TRUE]]
     /\ UNCHANGED mailCount

MailNext ==
  \E c \in MailCalls :
    \/ AskMail(c) \/ JudgePair(c) \/ JudgeTls(c) \/ JudgeDelivery(c) \/ JudgeGraph(c)
    \/ RefuseMail(c) \/ StoreMail(c)

MailSpec == MailInit /\ [][MailNext]_mailVars

-----------------------------------------------------------------------------
MailTypeOK ==
  /\ mail \in [MailKey -> UNION {MailValue[k] : k \in MailKey}]
  /\ \A k \in MailKey : mail[k] \in MailValue[k]
  /\ mailCall \in [MailCalls -> MailRequest \cup {NoMailCall}]
  /\ mailCrossed \in BOOLEAN /\ mailCount \in 0..MaxMailCalls

(* Unless saves overlapped: the port and the two TLS switches go together, *)
(* also after any sequence of saves that each submit one of them, and the  *)
(* certificate has its key.  Microsoft 365 is never selected without its   *)
(* settings, however saves overlap.  (settings/route.ts, email.ts.)        *)
StoredMailWorks ==
  /\ mail.provider = "graph" => GraphMailConfig(mail)
  /\ ~mailCrossed => /\ ValidSmtp(mail.port, mail.secure, mail.requireTLS)
                     /\ mail.cert = mail.key

(* Notifications are switched on only when mail could be sent just before, *)
(* with the From address of the request, unless saves overlapped.          *)
NotificationsNeedMail ==
  mail.notify = "false" /\ mail'.notify = "true" /\ ~mailCrossed' =>
    GetEmailDeliveryStatus(mail, mail'.from)

-----------------------------------------------------------------------------
(* Sending.                                                                *)
CONSTANTS
  Sends,        \* mails in the making
  Recipients,
  Apps,         \* configurations of Microsoft 365
  MaxTokens,    \* bound: tokens given out
  MaxTurns      \* bound: changes of the settings

VARIABLES
  transport,    \* the configuration: an application, "smtp" or "none"
  switchedOn,   \* the switch of the notification
  job,          \* job[j]: how far send j is
  cached,       \* the token that is kept, or NoToken
  pending,      \* the request for a token that others may wait for, or NoAsk
  asks,         \* the requests for tokens on their way
  givenOut,     \* tokens given out so far
  rejected,     \* tokens that Microsoft refused
  turns

deliveryVars ==
  <<transport, switchedOn, job, cached, pending, asks, givenOut, rejected, turns>>

NoToken == [app |-> "none", number |-> 0]
NoAsk == [app |-> "none", asker |-> "none"]
Asks == [app : Apps, asker : Sends]
NewJob == [at |-> "idle", via |-> "none", left |-> {}, accepted |-> {}, failed |-> {},
           posting |-> "none", token |-> NoToken, answer |-> "none"]
JobStages == {"idle", "provider", "next", "token", "post", "done"}
Tokens == [app : Apps, number : 1..MaxTokens]
Job == [at : JobStages \cup Sends, via : Apps \cup {"smtp", "none"}, left : SUBSET Recipients,
        accepted : SUBSET Recipients, failed : SUBSET Recipients,
        posting : Recipients \cup {"none"}, token : Tokens \cup {NoToken},
        answer : {"none", "true", "false"}]

ASSUME DeliveryAssumption ==
  /\ MaxTokens \in Nat /\ MaxTurns \in Nat
  /\ Sends \cap (JobStages \cup {"none"}) = {} /\ {"smtp", "none"} \cap Apps = {}
  /\ "none" \notin Recipients

DeliveryInit ==
  /\ transport \in Apps \cup {"smtp", "none"} /\ switchedOn = TRUE
  /\ job = [j \in Sends |-> NewJob]
  /\ cached = NoToken /\ pending = NoAsk /\ asks = {}
  /\ givenOut = 0 /\ rejected = {} /\ turns = 0

-----------------------------------------------------------------------------
(* Settings change while mails are sent.                                   *)
TurnTransport ==
  /\ turns < MaxTurns
  /\ \/ transport' \in (Apps \cup {"smtp", "none"}) \ {transport} /\ UNCHANGED switchedOn
     \/ switchedOn' = ~switchedOn /\ UNCHANGED transport
  /\ turns' = turns + 1
  /\ UNCHANGED <<job, cached, pending, asks, givenOut, rejected>>

Set(j, changes) == job' = [job EXCEPT ![j] = changes]
Keeps == UNCHANGED <<transport, switchedOn, turns>>

(* sendTicketCreatedEmail and its like.                                    *)
IsEmailEventEnabled == switchedOn
StartSend(j) ==
  /\ job[j] = NewJob
  /\ \E to \in SUBSET Recipients :
       Set(j, IF IsEmailEventEnabled
                THEN [NewJob EXCEPT !.at = "provider", !.left = to]
                ELSE [NewJob EXCEPT !.at = "done", !.answer = "false"])
  /\ Keeps /\ UNCHANGED <<cached, pending, asks, givenOut, rejected>>

(* Nothing is sent without a complete configuration or a recipient.        *)
PickProvider(j) ==
  /\ job[j].at = "provider"
  /\ Set(j, IF transport = "none" \/ job[j].left = {}
              THEN [job[j] EXCEPT !.at = "done", !.answer = "false"]
              ELSE [job[j] EXCEPT !.at = "next", !.via = transport])
  /\ Keeps /\ UNCHANGED <<cached, pending, asks, givenOut, rejected>>

NextRecipient(j) ==
  /\ job[j].at = "next"
  /\ \E to \in job[j].left :
       Set(j, [job[j] EXCEPT !.posting = to, !.left = job[j].left \ {to},
                             !.at = IF job[j].via = "smtp" THEN "post" ELSE "token"])
  /\ Keeps /\ UNCHANGED <<cached, pending, asks, givenOut, rejected>>

-----------------------------------------------------------------------------
(* token().                                                                *)
AnyToken(app) == cached # NoToken  \* mutant: the configuration is not compared
HasToken(app) == cached # NoToken /\ cached.app = app

UseCached(j) ==
  /\ job[j].at = "token" /\ HasToken(job[j].via)
  /\ Set(j, [job[j] EXCEPT !.at = "post", !.token = cached])
  /\ Keeps /\ UNCHANGED <<cached, pending, asks, givenOut, rejected>>

JoinPending(j) ==
  /\ job[j].at = "token" /\ ~HasToken(job[j].via) /\ pending.app = job[j].via
  /\ Set(j, [job[j] EXCEPT !.at = pending.asker])
  /\ Keeps /\ UNCHANGED <<cached, pending, asks, givenOut, rejected>>

AskToken(j) ==
  LET ask == [app |-> job[j].via, asker |-> j]
  IN /\ job[j].at = "token" /\ ~HasToken(ask.app) /\ pending.app # ask.app
     /\ asks' = asks \cup {ask} /\ pending' = ask
     /\ Set(j, [job[j] EXCEPT !.at = j])
     /\ Keeps /\ UNCHANGED <<cached, givenOut, rejected>>

(* The token is kept when it arrives, and all that wait for it go on.      *)
TokenArrives(ask) ==
  LET new == [app |-> ask.app, number |-> givenOut + 1]
  IN /\ ask \in asks /\ givenOut < MaxTokens
     /\ cached' = new /\ givenOut' = new.number
     /\ job' = [j \in Sends |-> IF job[j].at # ask.asker THEN job[j]
                                ELSE [job[j] EXCEPT !.at = "post", !.token = new]]
     /\ asks' = asks \ {ask}
     /\ pending' = IF pending = ask THEN NoAsk ELSE pending
     /\ Keeps /\ UNCHANGED rejected

(* A token counts until a minute before Microsoft stops taking it.         *)
TokenExpires ==
  /\ cached # NoToken
  /\ cached' = NoToken
  /\ Keeps /\ UNCHANGED <<job, pending, asks, givenOut, rejected>>

Failed(r) == [r EXCEPT !.at = "next", !.failed = r.failed \cup {r.posting}]
TokenFails(ask) ==
  /\ ask \in asks
  /\ job' = [j \in Sends |-> IF job[j].at # ask.asker THEN job[j] ELSE Failed(job[j])]
  /\ asks' = asks \ {ask}
  /\ pending' = IF pending = ask THEN NoAsk ELSE pending
  /\ Keeps /\ UNCHANGED <<cached, givenOut, rejected>>

-----------------------------------------------------------------------------
Post(j) ==
  /\ job[j].at = "post"
  /\ \/ /\ job[j].token \notin rejected
        /\ Set(j, [job[j] EXCEPT !.at = "next", !.accepted = job[j].accepted \cup {job[j].posting}])
     \/ Set(j, Failed(job[j]))
  /\ Keeps /\ UNCHANGED <<cached, pending, asks, givenOut, rejected>>

(* 401: the token is refused from now on, and forgotten.                   *)
KeepToken == UNCHANGED <<cached, pending>>  \* mutant
ResetTokenCache == cached' = NoToken /\ pending' = NoAsk
PostIsUnauthorized(j) ==
  /\ job[j].at = "post" /\ job[j].via \in Apps
  /\ rejected' = rejected \cup {job[j].token}
  /\ ResetTokenCache
  /\ Set(j, Failed(job[j]))
  /\ Keeps /\ UNCHANGED <<asks, givenOut>>

AnyAccepted(r) == r.accepted # {}  \* mutant: one accepted message is enough
AllAccepted(r) == r.failed = {}
AnswerSend(j) ==
  /\ job[j].at = "next" /\ job[j].left = {}
  /\ Set(j, [job[j] EXCEPT !.at = "done",
                           !.answer = IF AllAccepted(job[j]) THEN "true" ELSE "false"])
  /\ Keeps /\ UNCHANGED <<cached, pending, asks, givenOut, rejected>>

DeliveryNext ==
  \/ TurnTransport \/ TokenExpires
  \/ \E j \in Sends :
       \/ StartSend(j) \/ PickProvider(j)
       \/ NextRecipient(j) /\ job[j].left # {}
       \/ UseCached(j) \/ JoinPending(j) \/ AskToken(j)
       \/ Post(j) \/ PostIsUnauthorized(j) \/ AnswerSend(j)
  \/ \E ask \in asks : TokenArrives(ask) \/ TokenFails(ask)

DeliverySpec == DeliveryInit /\ [][DeliveryNext]_deliveryVars

-----------------------------------------------------------------------------
DeliveryTypeOK ==
  /\ transport \in Apps \cup {"smtp", "none"} /\ switchedOn \in BOOLEAN
  /\ job \in [Sends -> Job] /\ cached \in Tokens \cup {NoToken}
  /\ asks \subseteq Asks /\ pending \in asks \cup {NoAsk}
  /\ givenOut \in 0..MaxTokens /\ rejected \subseteq Tokens /\ turns \in 0..MaxTurns
  /\ \A j \in Sends :
       /\ job[j].accepted \cap job[j].failed = {}
       /\ job[j].left \cap (job[j].accepted \cup job[j].failed) = {}

(* The callers treat TRUE as handed over (reminders are not retried after  *)
(* it): it means that every recipient's message was accepted, once.  A     *)
(* message goes out with a token of the application its send began with,   *)
(* also when the settings change while tokens are on their way.            *)
SendsAnswerTruthfully ==
  \A j \in Sends :
    /\ job[j].answer = "true" =>
         job[j].failed = {} /\ job[j].left = {} /\ job[j].accepted # {}
    /\ job[j].at = "post" /\ job[j].via \in Apps => job[j].token.app = job[j].via

(* A token that Microsoft refused is never taken from the cache again.     *)
RejectedStaysOut == cached \notin rejected
=============================================================================
