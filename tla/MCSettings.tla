------------------------------ MODULE MCSettings -----------------------------
(***************************************************************************)
(* Small instances of the creation of tickets and of the modules about     *)
(* settings, tags, mail and the API for programs.  They share no          *)
(* variable, so that their interleavings show nothing that a behaviour of  *)
(* one of them does not: subject says which one takes steps, and the       *)
(* variables of the others are 0.                                          *)
(***************************************************************************)
EXTENDS TicketCreation, SettingsCards, ManagedEnv, Branding, Mail,
  QuickLinks, ExternalApi, StoredSecrets, UpdateChecks, Tags, TLC

VARIABLE subject

Subjects ==
  {"creation", "cards", "env", "branding", "mail", "delivery", "links",
   "external", "secrets", "updates", "tags"}

(* A department is open to one client, both are open to the other.         *)
CONSTANTS w1, w2, q1, q2
MCReach == (w1 :> {q1}) @@ (w2 :> {q1, q2})

(* The two departments are alike; the administrator starts with the one of *)
(* the category.                                                           *)
TagsStart ==
  /\ TagsInit
  /\ topicQueue = [c \in Topics |-> q1]
  /\ administers = {q1}

CreationIdle ==
  /\ year = 0 /\ counter = 0 /\ ticket = 0 /\ uploads = 0 /\ expired = 0
  /\ place = 0 /\ cleaning = 0 /\ stranded = 0 /\ creation = 0 /\ lost = 0
  /\ faults = 0
CardsIdle ==
  /\ saved = 0 /\ settings = 0 /\ reading = 0 /\ draft = 0 /\ dirty = 0
  /\ sending = 0 /\ edited = 0 /\ typedEver = 0 /\ typedCount = 0
  /\ saveCount = 0 /\ otherCount = 0
EnvIdle ==
  /\ envFile = 0 /\ backup = 0 /\ running = 0 /\ lockFile = 0 /\ lockOld = 0
  /\ saver = 0 /\ stolen = 0 /\ overtaken = 0 /\ misread = 0 /\ borrowed = 0
  /\ savedCount = 0 /\ crashedCount = 0 /\ envFaults = 0
BrandingIdle ==
  /\ branding = 0 /\ imageFiles = 0 /\ usedImages = 0 /\ form = 0 /\ isDirty = 0
  /\ brandCall = 0 /\ crossed = 0 /\ brandCount = 0 /\ editCount = 0
MailIdle ==
  /\ mail = 0 /\ mailCall = 0 /\ mailCrossed = 0 /\ mailCount = 0
DeliveryIdle ==
  /\ transport = 0 /\ switchedOn = 0 /\ job = 0 /\ cached = 0 /\ pending = 0
  /\ asks = 0 /\ givenOut = 0 /\ rejected = 0 /\ turns = 0
LinksIdle ==
  /\ stored = 0 /\ iconFiles = 0 /\ list = 0 /\ linksStored = 0 /\ seen = 0
  /\ upload = 0
  /\ linkSave = 0 /\ bySurprise = 0 /\ linkChanges = 0 /\ linkSaves = 0
ExtIdle ==
  /\ clock = 0 /\ isOn = 0 /\ access = 0 /\ meter = 0 /\ granted = 0
  /\ people = 0 /\ ticketAt = 0 /\ extCall = 0 /\ steady = 0
  /\ extCalls = 0 /\ extChanges = 0
SecretsIdle ==
  /\ secretRow = 0 /\ given = 0 /\ sealKey = 0 /\ task = 0 /\ shownSecret = 0
  /\ hookOn = 0 /\ replacedAny = 0 /\ unheard = 0 /\ secrets = 0 /\ tasks = 0
UpdatesIdle ==
  /\ released = 0 /\ lastCheck = 0 /\ automatic = 0 /\ gate = 0 /\ check = 0
  /\ updateTab = 0 /\ dismissal = 0 /\ storageEvents = 0 /\ ticks = 0
  /\ clicks = 0
TagsIdle ==
  /\ tag = 0 /\ topicQueue = 0 /\ queues = 0 /\ administers = 0 /\ tagCall = 0
  /\ tagged = 0 /\ dialog = 0 /\ tagChanges = 0

SettingsInit ==
  /\ subject \in Subjects
  /\ IF subject = "creation" THEN Init ELSE CreationIdle
  /\ IF subject = "cards" THEN CardsInit ELSE CardsIdle
  /\ IF subject = "env" THEN EnvInit ELSE EnvIdle
  /\ IF subject = "branding" THEN BrandingInit ELSE BrandingIdle
  /\ IF subject = "mail" THEN MailInit ELSE MailIdle
  /\ IF subject = "delivery" THEN DeliveryInit ELSE DeliveryIdle
  /\ IF subject = "links" THEN LinksInit ELSE LinksIdle
  /\ IF subject = "external" THEN ExtInit ELSE ExtIdle
  /\ IF subject = "secrets" THEN SecretsInit ELSE SecretsIdle
  /\ IF subject = "updates" THEN UpdatesInit ELSE UpdatesIdle
  /\ IF subject = "tags" THEN TagsStart ELSE TagsIdle

SettingsNext ==
  /\ UNCHANGED subject
  /\ \/ /\ subject = "creation" /\ Next
        /\ UNCHANGED <<cardsVars, envVars, brandVars, mailVars, deliveryVars,
                       linkVars, extVars, secretVars, updateVars, tagVars>>
     \/ /\ subject = "cards" /\ CardsNext
        /\ UNCHANGED <<vars, envVars, brandVars, mailVars, deliveryVars,
                       linkVars, extVars, secretVars, updateVars, tagVars>>
     \/ /\ subject = "env" /\ EnvNext
        /\ UNCHANGED <<vars, cardsVars, brandVars, mailVars, deliveryVars,
                       linkVars, extVars, secretVars, updateVars, tagVars>>
     \/ /\ subject = "branding" /\ BrandingNext
        /\ UNCHANGED <<vars, cardsVars, envVars, mailVars, deliveryVars,
                       linkVars, extVars, secretVars, updateVars, tagVars>>
     \/ /\ subject = "mail" /\ MailNext
        /\ UNCHANGED <<vars, cardsVars, envVars, brandVars, deliveryVars,
                       linkVars, extVars, secretVars, updateVars, tagVars>>
     \/ /\ subject = "delivery" /\ DeliveryNext
        /\ UNCHANGED <<vars, cardsVars, envVars, brandVars, mailVars, linkVars,
                       extVars, secretVars, updateVars, tagVars>>
     \/ /\ subject = "links" /\ LinksNext
        /\ UNCHANGED <<vars, cardsVars, envVars, brandVars, mailVars,
                       deliveryVars, extVars, secretVars, updateVars, tagVars>>
     \/ /\ subject = "external" /\ ExtNext
        /\ UNCHANGED <<vars, cardsVars, envVars, brandVars, mailVars,
                       deliveryVars, linkVars, secretVars, updateVars, tagVars>>
     \/ /\ subject = "secrets" /\ SecretsNext
        /\ UNCHANGED <<vars, cardsVars, envVars, brandVars, mailVars,
                       deliveryVars, linkVars, extVars, updateVars, tagVars>>
     \/ /\ subject = "updates" /\ UpdatesNext
        /\ UNCHANGED <<vars, cardsVars, envVars, brandVars, mailVars,
                       deliveryVars, linkVars, extVars, secretVars, tagVars>>
     \/ /\ subject = "tags" /\ TagsNext
        /\ UNCHANGED <<vars, cardsVars, envVars, brandVars, mailVars,
                       deliveryVars, linkVars, extVars, secretVars, updateVars>>

settingsVars ==
  <<subject, vars, cardsVars, envVars, brandVars, mailVars, deliveryVars,
    linkVars, extVars, secretVars, updateVars, tagVars>>
SettingsSpec == SettingsInit /\ [][SettingsNext]_settingsVars

(* The creation of tickets alone.                                          *)
CreationSpec ==
  SettingsInit /\ subject = "creation" /\ [][SettingsNext]_settingsVars

(* The shape of the rows, of the forms and of what is in flight.           *)
SettingsTypeOK ==
  /\ subject = "creation" => TypeOK
  /\ subject = "cards" => CardsTypeOK
  /\ subject = "env" => EnvTypeOK
  /\ subject = "branding" => BrandingTypeOK
  /\ subject = "mail" => MailTypeOK
  /\ subject = "delivery" => DeliveryTypeOK
  /\ subject = "links" => LinksTypeOK
  /\ subject = "tags" => TagsTypeOK
  /\ subject = "external" => ExtTypeOK
  /\ subject = "secrets" => SecretsTypeOK
  /\ subject = "updates" => UpdatesTypeOK

(* Requests with one key get one ticket, and no file of a ticket is lost:  *)
(* see the parts.                                                          *)
CreationIsSound == subject = "creation" => AnswersAgree /\ FilesFollowTheOutcome

(* What is stored can be used: images and icons have their files, the next *)
(* start finds complete credentials, mail can be sent, secrets can be      *)
(* read, limits and gates hold across replicas: see the parts.             *)
SettingsAreSound ==
  /\ subject = "branding" => LogoHasItsFile
  /\ subject = "links" => IconsHaveTheirFile
  /\ subject = "mail" => StoredMailWorks
  /\ subject = "env" => NextStartIsComplete /\ OneWriterUnlessStolen
  /\ subject = "delivery" => SendsAnswerTruthfully /\ RejectedStaysOut
  /\ subject = "external" => LimitHolds /\ SignersSee
  /\ subject = "secrets" => SecretsAreKept
  /\ subject = "updates" => ChecksAreGated

(* A save, a request of a program or a check changes what it was asked to  *)
(* and may change, whatever was stored meanwhile: see the parts.           *)
SavesChangeWhatWasAsked ==
  [][/\ subject = "cards" => OthersKeepTheirSettings
     /\ subject = "env" => SavesKeepTheRest
     /\ subject = "branding" => BrandingKeepsSwitches
     /\ subject = "mail" => NotificationsNeedMail
     /\ subject = "external" => ClientsAreServed
     /\ subject = "tags" => TagsSpreadByRight
     /\ subject = "updates" => KnownReleaseStays]_settingsVars

(* What an administrator is editing survives the answers and reads that    *)
(* come meanwhile: see the parts.                                          *)
PagesKeepEdits ==
  [][/\ subject = "cards" => RefreshesKeepEdits
     /\ subject = "branding" => FormsKeepEdits
     /\ subject = "links" => IconLandsOnItsRow]_settingsVars

(* The slots of the modules are the same model values.                     *)
Symmetry ==
  Permutations(Requests) \cup Permutations(Files) \cup Permutations(Apps)
=============================================================================
