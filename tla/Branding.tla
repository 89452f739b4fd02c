------------------------------ MODULE Branding ------------------------------
(***************************************************************************)
(* Branding: src/lib/branding.ts, src/lib/uploaded-image.ts, the routes    *)
(* under src/app/api/branding, the text of the sign-in button in           *)
(* src/app/api/settings/route.ts and the form of                           *)
(* src/components/admin/branding-settings.tsx.  One row holds all of it,   *)
(* two more the login switches; every change reads them, computes all of   *)
(* them anew and writes them, and removes the image files that it replaced.*)
(* A read that fails, or finds what it cannot parse, is answered by the    *)
(* default look, or by what is left of the policy, and the change goes on. *)
(***************************************************************************)
EXTENDS Naturals

CONSTANTS
  Brandings,        \* administrators with the branding form open
  Images,           \* the image files that can be uploaded
  MaxBrandChanges,  \* bound: changes asked for
  MaxBrandEdits     \* bound: edits in forms

VARIABLES
  branding,     \* the stored row and switches
  imageFiles,   \* the images in the upload directory
  usedImages,   \* the names given out so far
  form,         \* form[p]: what page p's inputs hold
  isDirty,      \* isDirty[p]: something was edited since the last save
  brandCall,    \* brandCall[p]: the request of page p, or NoCall
  crossed,      \* a change wrote over another that it had not read, or
                \* brought back a logo that had been replaced
  brandCount, editCount

brandVars ==
  <<branding, imageFiles, usedImages, form, isDirty, brandCall, crossed,
    brandCount, editCount>>

NoLogo == "none"
Switch == {"unset", "true", "false"}
Names == {"default", "ours"}

(* What is stored; the default look; the look with its switches.           *)
StoredBranding ==
  [name : Names, logo : Images \cup {NoLogo}, text : Names, local : Switch, sso : Switch]
Config ==
  [name : Names, logo : Images \cup {NoLogo}, text : Names, local : BOOLEAN, sso : BOOLEAN]
DefaultBranding ==
  [name |-> "default", logo |-> NoLogo, text |-> "default", local |-> TRUE, sso |-> TRUE]

(* row is what was stored when the look was read, reads whether the        *)
(* switches were read from a later row, or a read failed.                  *)
Policy == [local : BOOLEAN, sso : BOOLEAN]
NoCall == [op |-> "none"]
BrandOp == {"save", "reset", "upload", "unload", "text"}
BrandCall ==
  [op : BrandOp, at : {"asked", "read", "local", "sso", "saved"}, sent : Config,
   image : Images \cup {NoLogo}, row : StoredBranding, previous : Config, policy : Policy,
   reads : {"whole", "mixed", "failed"}, old : SUBSET Images, result : Config]

ASSUME BrandingAssumption ==
  NoLogo \notin Images /\ {MaxBrandChanges, MaxBrandEdits} \subseteq Nat

(* A switch that is not stored counts as on in a branding, but the policy  *)
(* takes single sign-on as off until it is switched on.                    *)
GetBrandingConfig(b) == [b EXCEPT !.local = b.local # "false", !.sso = b.sso # "false"]
IsLoginMethodEnabled(b) == [local |-> b.local # "false", sso |-> b.sso = "true"]

-----------------------------------------------------------------------------
BrandingInit ==
  /\ branding = [name |-> "default", logo |-> NoLogo, text |-> "default",
                 local |-> "unset", sso |-> "unset"]
  /\ imageFiles = {} /\ usedImages = {}
  /\ form = [p \in Brandings |-> GetBrandingConfig(branding)]
  /\ isDirty = [p \in Brandings |-> FALSE]
  /\ brandCall = [p \in Brandings |-> NoCall]
  /\ crossed = FALSE
  /\ brandCount = 0 /\ editCount = 0

(* Inputs stay open while requests are in flight.                          *)
EditForm(p) ==
  /\ editCount < MaxBrandEdits
  /\ \/ \E name \in Names \ {form[p].name} : form' = [form EXCEPT ![p].name = name]
     \/ form' = [form EXCEPT ![p].local = ~form[p].local]
  /\ isDirty' = [isDirty EXCEPT ![p] = TRUE]
  /\ editCount' = editCount + 1
  /\ UNCHANGED <<branding, imageFiles, usedImages, brandCall, crossed, brandCount>>

(* The query's answer fills a form that nobody touched.                    *)
LoadForm(p) ==
  /\ ~isDirty[p]
  /\ \E look \in {GetBrandingConfig(branding), DefaultBranding} \ {form[p]} :
       form' = [form EXCEPT ![p] = look]
  /\ UNCHANGED <<branding, imageFiles, usedImages, isDirty, brandCall, crossed,
                 brandCount, editCount>>

(* An upload stores its file before anything else.                         *)
AskBranding(p, op, image) ==
  /\ brandCall[p] = NoCall /\ brandCount < MaxBrandChanges
  /\ op = "upload" <=> image # NoLogo
  /\ op = "unload" => form[p].logo # NoLogo
  /\ image \notin usedImages
  /\ imageFiles' = imageFiles \cup ({image} \ {NoLogo})
  /\ usedImages' = usedImages \cup ({image} \ {NoLogo})
  /\ brandCall' = [brandCall EXCEPT ![p] =
       [op |-> op, at |-> "asked", sent |-> form[p], image |-> image, row |-> branding,
        previous |-> GetBrandingConfig(branding), policy |-> IsLoginMethodEnabled(branding),
        reads |-> "whole", old |-> {}, result |-> form[p]]]
  /\ brandCount' = brandCount + 1
  /\ UNCHANGED <<branding, form, isDirty, crossed, editCount>>

-----------------------------------------------------------------------------
(* The routes.  Saves and resets take the switch of single sign-on from    *)
(* the policy and its text from what is stored; an upload takes all but    *)
(* its field as getBrandingConfig returns it.                              *)

SsoFieldsAsStored(c) ==  \* mutant: the switch as getBrandingConfig returns it
  [sso |-> c.previous.sso, text |-> c.previous.text]
SsoLoginFields(c) == [sso |-> c.policy.sso, text |-> c.previous.text]

NewBranding(c) ==
  LET fields == SsoLoginFields(c)
  IN CASE c.op = "save" -> [c.sent EXCEPT !.sso = fields.sso, !.text = fields.text]
       [] c.op = "reset" -> [DefaultBranding EXCEPT !.sso = fields.sso, !.text = fields.text]
       [] c.op \in {"upload", "unload"} -> [c.previous EXCEPT !.logo = c.image]
       [] c.op = "text" -> [c.previous EXCEPT !.text = "ours", !.local = c.policy.local,
                                              !.sso = c.policy.sso]

(* The files that the change leaves without a use.                         *)
ReplacedImages(c) ==
  IF c.op \in {"reset", "upload", "unload"}
    THEN {c.previous.logo} \ {NoLogo, NewBranding(c).logo}
    ELSE {}

(* getBrandingConfig never fails.                                          *)
ReadBranding(p) ==
  /\ brandCall[p] # NoCall /\ brandCall[p].at = "asked"
  /\ \E call \in {[brandCall[p] EXCEPT !.previous = GetBrandingConfig(branding)],
                  [brandCall[p] EXCEPT !.previous = DefaultBranding, !.reads = "failed"]} :
       brandCall' = [brandCall EXCEPT ![p] =
         [call EXCEPT !.at = "read", !.row = branding, !.policy = IsLoginMethodEnabled(branding)]]
  /\ UNCHANGED <<branding, imageFiles, usedImages, form, isDirty, crossed, brandCount,
                 editCount>>

(* Saves and resets then read the switch of single sign-on, the button's   *)
(* text both switches.  When that fails, the policy is what was last known *)
(* or what the environment says.                                           *)
ReadNext(c, switch) ==
  /\ c # NoCall
  /\ \/ switch = "sso" /\ c.op \in {"save", "reset"} /\ c.at = "read"
     \/ switch = "local" /\ c.op = "text" /\ c.at = "read"
     \/ switch = "sso" /\ c.at = "local"
SwitchRead(c, switch) ==
  [c EXCEPT !.policy[switch] = IsLoginMethodEnabled(branding)[switch],
            !.reads = IF @ = "whole" /\ c.row # branding THEN "mixed" ELSE @]
ReadSwitch(p, switch) ==
  /\ ReadNext(brandCall[p], switch)
  /\ \E call \in {SwitchRead(brandCall[p], switch)} \cup
                 {[brandCall[p] EXCEPT !.policy[switch] = on, !.reads = "failed"] : on \in BOOLEAN} :
       brandCall' = [brandCall EXCEPT ![p] = [call EXCEPT !.at = switch]]
  /\ UNCHANGED <<branding, imageFiles, usedImages, form, isDirty, crossed, brandCount,
                 editCount>>

(* A text that is stored already is not saved again.                       *)
ReadyToSave(c) ==
  /\ c # NoCall
  /\ c.at = IF c.op \in {"upload", "unload"} THEN "read" ELSE "sso"
  /\ c.op = "text" => c.previous.text # "ours"
StoredSwitch(on) == IF on THEN "true" ELSE "false"
SaveBrandingConfig(p) ==
  LET c == brandCall[p]
      new == NewBranding(c)
  IN /\ ReadyToSave(c)
     /\ branding' = [new EXCEPT !.local = StoredSwitch(new.local),
                                !.sso = StoredSwitch(new.sso)]
     /\ crossed' = (\/ crossed \/ c.row # branding
                    \/ c.op = "save" /\ c.sent.logo \notin {branding.logo, NoLogo})
     /\ brandCall' = [brandCall EXCEPT ![p].at = "saved", ![p].result = new,
                                       ![p].old = ReplacedImages(c)]
     /\ UNCHANGED <<imageFiles, usedImages, form, isDirty, brandCount, editCount>>

(* Refused by the policy, or the database fails.  The file of an upload    *)
(* stays in the directory.                                                 *)
FilesOnceFailedEarly(c) == imageFiles \ ReplacedImages(c)  \* mutant: old files go first
FilesOnceFailed(c) == imageFiles
BrandingFails(p) ==
  /\ brandCall[p] # NoCall /\ brandCall[p].at # "saved"
  /\ imageFiles' = FilesOnceFailed(brandCall[p])
  /\ brandCall' = [brandCall EXCEPT ![p] = NoCall]
  /\ UNCHANGED <<branding, usedImages, form, isDirty, crossed, brandCount, editCount>>

(* The old files are removed, as far as that works; the page then shows    *)
(* what was stored, after an upload only the new logo, unless the answer   *)
(* is lost.                                                                *)
FormOfResult(p, c) ==  \* mutant: the whole answer goes into the form
  c.result
FormOnceAnswered(p, c) ==
  IF c.op \in {"upload", "unload"} THEN [form[p] EXCEPT !.logo = c.image]
  ELSE IF c.op = "text" THEN form[p]
  ELSE c.result
RemoveReplaced(p) ==
  LET c == brandCall[p]
  IN /\ c # NoCall /\ c.at = "saved"
     /\ imageFiles' \in {imageFiles \ c.old, imageFiles}
     /\ \/ UNCHANGED <<form, isDirty>>
        \/ /\ form' = [form EXCEPT ![p] = FormOnceAnswered(p, c)]
           /\ isDirty' = [isDirty EXCEPT ![p] = c.op \notin {"save", "reset"} /\ isDirty[p]]
     /\ brandCall' = [brandCall EXCEPT ![p] = NoCall]
     /\ UNCHANGED <<branding, usedImages, crossed, brandCount, editCount>>

(* The tabs for security and single sign-on store a switch by itself.      *)
SetSwitch(field) ==
  /\ brandCount < MaxBrandChanges
  /\ \E on \in {"true", "false"} \ {branding[field]} :
       branding' = [branding EXCEPT ![field] = on]
  /\ brandCount' = brandCount + 1
  /\ UNCHANGED <<imageFiles, usedImages, form, isDirty, brandCall, crossed, editCount>>

BrandingNext ==
  \/ \E p \in Brandings :
       \/ EditForm(p) \/ LoadForm(p)
       \/ \E op \in BrandOp, image \in Images \cup {NoLogo} : AskBranding(p, op, image)
       \/ ReadBranding(p) \/ ReadSwitch(p, "local") \/ ReadSwitch(p, "sso")
       \/ SaveBrandingConfig(p) \/ BrandingFails(p) \/ RemoveReplaced(p)
  \/ SetSwitch("local") \/ SetSwitch("sso")

BrandingSpec == BrandingInit /\ [][BrandingNext]_brandVars

-----------------------------------------------------------------------------
BrandingTypeOK ==
  /\ branding \in StoredBranding
  /\ imageFiles \subseteq usedImages /\ usedImages \subseteq Images
  /\ form \in [Brandings -> Config] /\ isDirty \in [Brandings -> BOOLEAN]
  /\ brandCall \in [Brandings -> BrandCall \cup {NoCall}] /\ crossed \in BOOLEAN
  /\ brandCount \in 0..MaxBrandChanges /\ editCount \in 0..MaxBrandEdits

(* The stored logo has its file, at every moment of a change and after one *)
(* that failed, unless changes crossed (branding/assets/route.ts,          *)
(* branding/admin/route.ts: old files are removed after the row).          *)
LogoHasItsFile == crossed \/ branding.logo \in imageFiles \cup {NoLogo}

(* What the policy makes of the switches changes only by their own tabs,   *)
(* by the form's switch of local login and by a reset, which switches      *)
(* local login on.  Crossed changes and reads that failed apart, the one   *)
(* exception is an image that is uploaded or removed while no switch of    *)
(* single sign-on is stored: it stores the switch as on.  ("The switch follows the effective *)
(* login policy so an unset value is never persisted as enabled",          *)
(* branding/admin/route.ts:12.)                                            *)
BrandingKeepsSwitches ==
  \A p \in Brandings :
    LET c == brandCall[p]
        was == IsLoginMethodEnabled(branding)
        is == IsLoginMethodEnabled(branding')
    IN (c # NoCall /\ c.at # "saved" /\ brandCall'[p] # NoCall /\ brandCall'[p].at = "saved"
          /\ c.row = branding /\ c.reads = "whole") =>
         /\ is.sso # was.sso => c.op \in {"upload", "unload"} /\ branding.sso = "unset"
         /\ is.local # was.local => c.op \in {"save", "reset"} /\ is.local = NewBranding(c).local

(* A form with unsaved edits loses them only to the answer of a save or of *)
(* a reset of its own.                                                     *)
FormsKeepEdits ==
  \A p \in Brandings :
    isDirty[p] /\ editCount' = editCount /\ brandCall[p] # NoCall
        /\ brandCall[p].op \notin {"save", "reset"} =>
      form'[p].name = form[p].name /\ form'[p].local = form[p].local
=============================================================================
