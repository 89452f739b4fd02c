----------------------------- MODULE QuickLinks -----------------------------
(***************************************************************************)
(* The links of the dashboard: DashboardLinksTab of                        *)
(* src/app/(dashboard)/admin/settings/page.tsx, the dashboard_links of     *)
(* PATCH in src/app/api/settings/route.ts, their icons in                  *)
(* src/app/api/settings/quick-link-icons/route.ts and                      *)
(* src/lib/uploaded-image.ts, and src/lib/dashboard-links.ts.  A save      *)
(* stores the whole list of a page and removes the icons it replaced.      *)
(***************************************************************************)
EXTENDS Naturals, Sequences, SequencesExt

CONSTANTS
  LinkPages,      \* administrators with the tab open
  Icons,          \* image files that can be uploaded
  Titles,         \* rows
  MaxLinks,       \* 16 in the code
  MaxLinkChanges, MaxLinkSaves   \* bounds: changes of rows and uploads, saves

ASSUME LinksAssumption ==
  /\ MaxLinks \in Nat /\ MaxLinkChanges \in Nat /\ MaxLinkSaves \in Nat
  /\ "none" \notin Icons

VARIABLES
  stored,      \* dashboard_links
  iconFiles,   \* the files in the upload directory
  list,        \* list[p]: the rows of page p
  linksStored, \* how often a list was stored
  seen,        \* seen[p]: how often it was when the rows were taken from it
  upload,      \* upload[p]: the upload in flight, or NoUpload
  linkSave,    \* linkSave[p]: the save in flight, or NoLinkSave
  bySurprise,  \* a list was stored that came from an older one, or an
               \* unused icon was deleted by hand
  linkChanges, linkSaves

linkVars ==
  <<stored, iconFiles, list, linksStored, seen, upload, linkSave, bySurprise,
    linkChanges, linkSaves>>

NoIcon == "none"
Row == [title : Titles, icon : Icons \cup {NoIcon}]
NoUpload == [at |-> "none"]
NoLinkSave == [at |-> "none"]

(* The rows of a list have different titles.                               *)
Lists ==
  {rows \in Seq(Row) :
     /\ Len(rows) <= MaxLinks
     /\ \A m, n \in DOMAIN rows : rows[m].title = rows[n].title => m = n}
Upload ==
  [at : {"sent"}, index : Nat, icon : Icons, title : Titles, moved : BOOLEAN]
LinkSave ==
  [at : {"sent", "judged", "stored"}, rows : Lists, from : Nat,
   previous : Lists]
IconsOf(rows) == {rows[n].icon : n \in DOMAIN rows} \ {NoIcon}

LinksInit ==
  /\ stored = <<>> /\ iconFiles = {}
  /\ list = [p \in LinkPages |-> <<>>]
  /\ linksStored = 0 /\ seen = [p \in LinkPages |-> 0]
  /\ upload = [p \in LinkPages |-> NoUpload]
  /\ linkSave = [p \in LinkPages |-> NoLinkSave]
  /\ bySurprise = FALSE /\ linkChanges = 0 /\ linkSaves = 0

(* An upload whose rows moved or were replaced has lost its row.           *)
Show(p, rows, moves) ==
  /\ list' = [list EXCEPT ![p] = rows]
  /\ upload' = IF upload[p] = NoUpload \/ ~moves THEN upload
               ELSE [upload EXCEPT ![p] = [upload[p] EXCEPT !.moved = TRUE]]

EditRows(p) ==
  /\ linkChanges < MaxLinkChanges
  /\ \/ /\ Len(list[p]) < MaxLinks
        /\ \E t \in Titles :
             /\ \A n \in DOMAIN list[p] : list[p][n].title # t
             /\ Show(p, Append(list[p], [title |-> t, icon |-> NoIcon]), FALSE)
     \/ \E n \in DOMAIN list[p] : Show(p, RemoveAt(list[p], n), TRUE)
     \/ \E n \in DOMAIN list[p] :
          /\ list[p][n].icon # NoIcon
          /\ Show(p, [list[p] EXCEPT ![n].icon = NoIcon], FALSE)
  /\ linkChanges' = linkChanges + 1
  /\ UNCHANGED <<stored, iconFiles, linksStored, seen, linkSave, bySurprise,
                 linkSaves>>

(* Whenever the settings that the page holds change, any of them, all rows *)
(* are taken from them.                                                    *)
RefreshRows(p) ==
  /\ Show(p, stored, TRUE)
  /\ seen' = [seen EXCEPT ![p] = linksStored]
  /\ UNCHANGED <<stored, iconFiles, linksStored, linkSave, bySurprise,
                 linkChanges, linkSaves>>

(* A name is never given out twice: only one that nobody holds can be new. *)
NamesInUse ==
  {icon \in Icons :
     \/ icon \in iconFiles \cup IconsOf(stored)
     \/ \E p \in LinkPages :
          \/ icon \in IconsOf(list[p])
          \/ upload[p] # NoUpload /\ icon = upload[p].icon
          \/ /\ linkSave[p] # NoLinkSave
             /\ icon \in IconsOf(linkSave[p].rows) \cup IconsOf(linkSave[p].previous)}

(* The file is there before the page hears of it.                          *)
UploadIcon(p) ==
  /\ upload[p] = NoUpload /\ linkChanges < MaxLinkChanges
  /\ \E n \in DOMAIN list[p], icon \in Icons \ NamesInUse :
       /\ upload' = [upload EXCEPT ![p] = [at |-> "sent", index |-> n, icon |-> icon,
                                           title |-> list[p][n].title, moved |-> FALSE]]
       /\ iconFiles' = iconFiles \cup {icon}
  /\ linkChanges' = linkChanges + 1
  /\ UNCHANGED <<stored, list, linksStored, seen, linkSave, bySurprise,
                 linkSaves>>

LastRow(p) == Len(list[p])  \* mutant: the row that was added last
RowOfUpload(p) == upload[p].index
PlaceIcon(p) ==
  /\ upload[p] # NoUpload
  /\ list' = [list EXCEPT ![p] = [n \in DOMAIN list[p] |->
       IF n = RowOfUpload(p) THEN [list[p][n] EXCEPT !.icon = upload[p].icon]
       ELSE list[p][n]]]
  /\ upload' = [upload EXCEPT ![p] = NoUpload]
  /\ UNCHANGED <<stored, iconFiles, linksStored, seen, linkSave, bySurprise,
                 linkChanges, linkSaves>>

-----------------------------------------------------------------------------
SaveRows(p) ==
  /\ linkSave[p] = NoLinkSave /\ upload[p] = NoUpload /\ linkSaves < MaxLinkSaves
  /\ linkSave' = [linkSave EXCEPT ![p] =
       [at |-> "sent", rows |-> list[p], from |-> seen[p],
        previous |-> <<>>]]
  /\ linkSaves' = linkSaves + 1
  /\ UNCHANGED <<stored, iconFiles, list, linksStored, seen, upload,
                 bySurprise, linkChanges>>

(* The rows are allowed (else RefuseRows); the icons stored by then are    *)
(* noted.                                                                  *)
JudgeRows(p) ==
  /\ linkSave[p].at = "sent"
  /\ linkSave' = [linkSave EXCEPT ![p] =
       [linkSave[p] EXCEPT !.at = "judged", !.previous = stored]]
  /\ UNCHANGED <<stored, iconFiles, list, linksStored, seen, upload,
                 bySurprise, linkChanges, linkSaves>>

StoreRows(p) ==
  /\ linkSave[p].at = "judged"
  /\ stored' = linkSave[p].rows /\ linksStored' = linksStored + 1
  /\ bySurprise' = (bySurprise \/ linksStored # linkSave[p].from)
  /\ linkSave' = [linkSave EXCEPT ![p] = [linkSave[p] EXCEPT !.at = "stored"]]
  /\ UNCHANGED <<iconFiles, list, seen, upload, linkChanges, linkSaves>>

AllPreviousIcons(s) == IconsOf(s.previous)  \* mutant: those kept are removed too
ReplacedIcons(s) == IconsOf(s.previous) \ IconsOf(s.rows)
RemoveIcons(p) ==
  /\ linkSave[p].at = "stored"
  /\ iconFiles' = iconFiles \ ReplacedIcons(linkSave[p])
  /\ linkSave' = [linkSave EXCEPT ![p] = NoLinkSave]
  /\ UNCHANGED <<stored, list, linksStored, seen, upload, bySurprise,
                 linkChanges, linkSaves>>

RefuseRows(p) ==
  /\ linkSave[p].at \in {"sent", "judged"}
  /\ linkSave' = [linkSave EXCEPT ![p] = NoLinkSave]
  /\ UNCHANGED <<stored, iconFiles, list, linksStored, seen, upload,
                 bySurprise, linkChanges, linkSaves>>

(* DELETE of an icon that no stored link uses, which a page may be about   *)
(* to store.                                                               *)
DropIcon(icon) ==
  /\ icon \in iconFiles \ IconsOf(stored)
  /\ iconFiles' = iconFiles \ {icon}
  /\ bySurprise' = TRUE
  /\ UNCHANGED <<stored, list, linksStored, seen, upload, linkSave, linkChanges,
                 linkSaves>>

LinksNext ==
  \/ \E p \in LinkPages :
       \/ EditRows(p) \/ RefreshRows(p) \/ UploadIcon(p) \/ PlaceIcon(p)
       \/ SaveRows(p) \/ JudgeRows(p) \/ StoreRows(p) \/ RemoveIcons(p) \/ RefuseRows(p)
  \/ \E icon \in Icons : DropIcon(icon)

LinksSpec == LinksInit /\ [][LinksNext]_linkVars

-----------------------------------------------------------------------------
LinksTypeOK ==
  /\ stored \in Lists /\ iconFiles \subseteq Icons
  /\ list \in [LinkPages -> Lists]
  /\ linksStored \in Nat /\ seen \in [LinkPages -> Nat]
  /\ upload \in [LinkPages -> {NoUpload} \cup Upload]
  /\ linkSave \in [LinkPages -> {NoLinkSave} \cup LinkSave]
  /\ bySurprise \in BOOLEAN /\ linkChanges \in Nat /\ linkSaves \in Nat

(* Every icon on the dashboard has its file, unless a list that came from  *)
(* an older one was stored, or an unused icon was deleted by hand.         *)
IconsHaveTheirFile ==
  IconsOf(stored) \subseteq iconFiles \/ bySurprise

(* An uploaded icon lands on the row it was chosen for, also when rows are *)
(* added meanwhile; only when rows were removed or the list was replaced   *)
(* may it land on another, or nowhere.                                     *)
IconLandsOnItsRow ==
  \A p \in LinkPages :
    upload[p] # NoUpload /\ upload'[p] = NoUpload /\ ~upload[p].moved =>
      \A n \in DOMAIN list[p] :
        list'[p][n].icon = IF list[p][n].title = upload[p].title
                             THEN upload[p].icon ELSE list[p][n].icon
=============================================================================
