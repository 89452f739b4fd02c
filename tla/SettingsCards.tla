---------------------------- MODULE SettingsCards ----------------------------
(***************************************************************************)
(* The settings page of one administrator while others save settings too:  *)
(* src/app/(dashboard)/admin/settings/page.tsx, its cards under            *)
(* src/components/admin, src/components/admin/use-settings-draft.ts and    *)
(* src/lib/{settings-draft,settings-client}.ts.  All cards share one copy  *)
(* of the settings, and each save sends what its own card changed.  The    *)
(* inputs stay open while a save is in flight.                             *)
(***************************************************************************)
EXTENDS Naturals, Functions, FiniteSets

CONSTANTS
  SmtpKeys, PemKeys, ProviderKeys, ButtonKeys,  \* the keys of the cards with drafts
  EmailKeys, LoginKeys, FlagKeys,               \* and of those with switches
  MayBeEmpty,   \* the keys whose empty text is sent
  WriteOnly,    \* secrets: shown as empty, and kept when empty text is sent
  Removable,    \* the keys with a button that removes the value
  Phrase,       \* what is typed
  MaxTyped, MaxSaves, MaxOthers   \* bounds

VARIABLES
  saved,     \* saved[k]: the setting at the server, Empty when there is none
  settings,  \* settings[k]: the copy that all cards show
  reading,   \* the copy that is on its way to the page, or Nowhere
  draft,     \* draft[k]: the text in the input of k
  dirty,     \* the keys touched since they were last saved
  sending,   \* sending[c]: what card c sends, applied or not, or Nowhere
  edited,    \* edited[k]: what became of the last text typed for k
  typedEver, \* pairs of a key and a text typed or chosen for it
  typedCount, saveCount, otherCount

cardsVars ==
  <<saved, settings, reading, draft, dirty, sending, edited, typedEver,
    typedCount, saveCount, otherCount>>

DraftKeys == SmtpKeys \cup PemKeys \cup ProviderKeys \cup ButtonKeys
SwitchKeys == EmailKeys \cup LoginKeys \cup FlagKeys
SettingKeys == DraftKeys \cup SwitchKeys
KeysOf ==
  [smtp |-> SmtpKeys, certificates |-> PemKeys, provider |-> ProviderKeys,
   button |-> ButtonKeys, email |-> EmailKeys, login |-> LoginKeys, flags |-> FlagKeys]
CardName == DOMAIN KeysOf

Empty == "empty"  \* the empty text
Nowhere == [at |-> "nowhere"]
Value(k) == IF k \in SwitchKeys THEN {"true", "false"} ELSE Phrase \cup {Empty}
SettingValues == {f \in [SettingKeys -> Phrase \cup {Empty, "true", "false"}] :
                    \A k \in SettingKeys : f[k] \in Value(k)}

ASSUME CardsAssumption ==
  /\ DraftKeys \cap SwitchKeys = {} /\ WriteOnly \subseteq DraftKeys
  /\ MaxTyped \in Nat /\ MaxSaves \in Nat /\ MaxOthers \in Nat

-----------------------------------------------------------------------------
(* settings-draft.ts.  What the server shows of secrets is empty.          *)
Shown(s) == [k \in SettingKeys |-> IF k \in WriteOnly THEN Empty ELSE s[k]]

SyncAll(text, touched, server) ==  \* mutant: a refresh replaces what is being typed
  [k \in DraftKeys |-> server[k]]
SyncDraft(text, touched, server) ==
  [k \in DraftKeys |-> IF k \in touched THEN text[k] ELSE server[k]]

WholeCard(keys) ==  \* mutant: a save sends all that the card shows
  [k \in {x \in keys : draft[x] # Empty \/ x \in MayBeEmpty} |-> draft[k]]
ChangedValues(keys) ==
  [k \in {x \in keys \cap dirty : /\ draft[x] # settings[x]
                                  /\ x \in MayBeEmpty \/ draft[x] # Empty} |-> draft[k]]

-----------------------------------------------------------------------------
CardsInit ==
  /\ saved = [k \in SettingKeys |-> IF k \in SwitchKeys THEN "true" ELSE Empty]
  /\ settings = Shown(saved)
  /\ reading = Nowhere
  /\ draft = [k \in DraftKeys |-> settings[k]]
  /\ dirty = {}
  /\ sending = [c \in CardName |-> Nowhere]
  /\ edited = [k \in DraftKeys |-> "settled"]
  /\ typedEver = {}
  /\ typedCount = 0 /\ saveCount = 0 /\ otherCount = 0

(* Text typed while its own key is being saved is "late": the answer to    *)
(* that save takes it for saved.                                           *)
InFlight(k) == \E c \in CardName : sending[c] # Nowhere /\ k \in DOMAIN sending[c].values
TypeSetting(k, text) ==
  /\ typedCount < MaxTyped /\ text # draft[k]
  /\ draft' = [draft EXCEPT ![k] = text]
  /\ dirty' = dirty \cup {k}
  /\ edited' = [edited EXCEPT ![k] = IF InFlight(k) THEN "late" ELSE "typed"]
  /\ typedEver' = typedEver \cup {<<k, text>>}
  /\ typedCount' = typedCount + 1
  /\ UNCHANGED <<saved, settings, reading, sending, saveCount, otherCount>>

(* The page asks for the settings on its own, when its window is looked at *)
(* again, and after a save; a copy on its way is dropped for a newer one.  *)
AskSettings ==
  /\ reading' = [at |-> "way", copy |-> Shown(saved)]
  /\ UNCHANGED <<saved, settings, draft, dirty, sending, edited, typedEver,
                 typedCount, saveCount, otherCount>>

RefreshDrafts ==
  /\ reading # Nowhere
  /\ settings' = reading.copy
  /\ draft' = SyncDraft(draft, dirty, reading.copy)
  /\ edited' = [k \in DraftKeys |-> IF k \in dirty THEN edited[k] ELSE "settled"]
  /\ reading' = Nowhere
  /\ UNCHANGED <<saved, dirty, sending, typedEver, typedCount, saveCount, otherCount>>

Send_(card, values, marks) ==
  /\ saveCount < MaxSaves /\ sending[card] = Nowhere
  /\ sending' = [sending EXCEPT ![card] =
                   [at |-> "server", values |-> values, marks |-> marks]]
  /\ saveCount' = saveCount + 1
  /\ UNCHANGED <<saved, settings, reading, draft, dirty, edited, typedCount, otherCount>>

SendDraft(card) ==
  LET values == ChangedValues(KeysOf[card])
  IN /\ DOMAIN values # {}
     /\ Send_(card, values, DOMAIN values)
     /\ UNCHANGED typedEver

SaveSmtp == SendDraft("smtp")
SaveCertificates == SendDraft("certificates")
SaveProvider == SendDraft("provider")
SaveButton == draft # [k \in DraftKeys |-> Empty] /\ SendDraft("button")

(* Remove sends null.  The certificates' card then takes the key as saved, *)
(* the provider's leaves its draft alone.                                  *)
RemoveSaved(card, k) ==
  /\ k \in KeysOf[card] \cap Removable
  /\ settings[k] # Empty \/ k \in WriteOnly
  /\ Send_(card, [x \in {k} |-> "null"], IF card = "certificates" THEN {k} ELSE {})
  /\ typedEver' = typedEver \cup {<<k, "null">>}

(* A switch sends the opposite of what it shows.                           *)
Opposite(k) == IF settings[k] = "true" THEN "false" ELSE "true"
SwitchBy(card, k) ==
  /\ k \in KeysOf[card]
  /\ Send_(card, [x \in {k} |-> Opposite(k)], {})
  /\ typedEver' = typedEver \cup {<<k, Opposite(k)>>}
ToggleEmail(k) == SwitchBy("email", k)
ToggleLogin(k) == SwitchBy("login", k)
ToggleFlag(k) == SwitchBy("flags", k)

(* The route stores all values or none; empty secrets are kept.            *)
Stores(values, k) ==
  IF k \notin DOMAIN values THEN saved[k]
  ELSE IF values[k] = "null" THEN Empty
  ELSE IF values[k] = Empty /\ k \in WriteOnly THEN saved[k]
  ELSE values[k]
Apply(card) ==
  /\ sending[card] # Nowhere /\ sending[card].at = "server"
  /\ saved' = [k \in SettingKeys |-> Stores(sending[card].values, k)]
  /\ sending' = [sending EXCEPT ![card].at = "back"]
  /\ UNCHANGED <<settings, reading, draft, dirty, edited, typedEver, typedCount,
                 saveCount, otherCount>>

(* markSaved, then the settings are asked for.                             *)
MarkSaved(card) ==
  /\ sending[card] # Nowhere /\ sending[card].at = "back"
  /\ dirty' = dirty \ sending[card].marks
  /\ edited' = [k \in DraftKeys |-> IF k \in sending[card].marks /\ edited[k] = "typed"
                                      THEN "settled" ELSE edited[k]]
  /\ reading' = [at |-> "way", copy |-> Shown(saved)]
  /\ sending' = [sending EXCEPT ![card] = Nowhere]
  /\ UNCHANGED <<saved, settings, draft, typedEver, typedCount, saveCount, otherCount>>

(* The save is refused, or its answer is lost after it was stored.         *)
SaveFails(card) ==
  /\ sending[card] # Nowhere
  /\ edited' = [k \in DraftKeys |->
                  IF k \in dirty \cap DOMAIN sending[card].values /\ edited[k] = "late"
                    THEN "typed" ELSE edited[k]]
  /\ sending' = [sending EXCEPT ![card] = Nowhere]
  /\ UNCHANGED <<saved, settings, reading, draft, dirty, typedEver, typedCount,
                 saveCount, otherCount>>

OthersSave(k, value) ==
  /\ otherCount < MaxOthers /\ value # saved[k]
  /\ saved' = [saved EXCEPT ![k] = value]
  /\ otherCount' = otherCount + 1
  /\ UNCHANGED <<settings, reading, draft, dirty, sending, edited, typedEver,
                 typedCount, saveCount>>

CardsNext ==
  \/ \E k \in DraftKeys, text \in Phrase \cup {Empty} : TypeSetting(k, text)
  \/ AskSettings \/ RefreshDrafts
  \/ SaveSmtp \/ SaveCertificates \/ SaveProvider \/ SaveButton
  \/ \E card \in CardName, k \in DraftKeys : RemoveSaved(card, k)
  \/ \E k \in SwitchKeys : ToggleEmail(k) \/ ToggleLogin(k) \/ ToggleFlag(k)
  \/ \E card \in CardName : Apply(card) \/ MarkSaved(card) \/ SaveFails(card)
  \/ \E k \in SettingKeys : \E value \in Value(k) : OthersSave(k, value)

CardsSpec == CardsInit /\ [][CardsNext]_cardsVars

-----------------------------------------------------------------------------
(* What the page sends and shows has these shapes; keys of one card are    *)
(* never in the request of another.                                        *)
CardsTypeOK ==
  /\ saved \in SettingValues /\ settings \in SettingValues
  /\ reading # Nowhere => reading.copy \in SettingValues
  /\ \A k \in WriteOnly : settings[k] = Empty
  /\ draft \in [DraftKeys -> Phrase \cup {Empty}] /\ dirty \subseteq DraftKeys
  /\ edited \in [DraftKeys -> {"typed", "late", "settled"}]
  /\ \A k \in DraftKeys : k \notin dirty => edited[k] # "typed"
  /\ \A c \in CardName :
       sending[c] # Nowhere => sending[c].marks \subseteq DOMAIN sending[c].values
                               /\ DOMAIN sending[c].values \subseteq KeysOf[c]
  /\ typedCount \in 0..MaxTyped /\ saveCount \in 0..MaxSaves /\ otherCount \in 0..MaxOthers

(* A save of this page changes a setting only to what was typed or chosen  *)
(* for that very setting on this page: what other administrators saved     *)
(* meanwhile in other fields stays, and an empty secret removes nothing    *)
(* (settings-draft.ts, and "omitted = keep" in settings/route.ts).         *)
OthersKeepTheirSettings ==
  otherCount' = otherCount =>
    \A k \in SettingKeys :
      saved'[k] # saved[k] =>
        \/ <<k, saved'[k]>> \in typedEver
        \/ saved'[k] = Empty /\ <<k, "null">> \in typedEver

(* A refresh changes the text in an input only when it was not touched, or *)
(* its last text was saved, or was typed while the same key was being      *)
(* saved (use-settings-draft.ts: markSaved does not compare).              *)
RefreshesKeepEdits ==
  \A k \in DraftKeys : draft'[k] # draft[k] => typedCount' > typedCount \/ edited[k] # "typed"
=============================================================================
