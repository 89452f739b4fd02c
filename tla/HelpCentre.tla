----------------------------- MODULE HelpCentre -----------------------------
(***************************************************************************)
(* The help centre: src/components/admin/help-center-manager.tsx, where    *)
(* administrators write articles in one or two languages, the routes under *)
(* src/app/api/help, and what a reader of an article is answered.          *)
(* A text is there or not: one that is too short is refused by the dialog  *)
(* and by the server alike.  A summary may be missing in either language.  *)
(***************************************************************************)
EXTENDS Naturals, FiniteSets

CONSTANTS
  Articles, Collections,
  FirstArticle, FirstCollection,  \* what the help centre starts with
  NoHelp,          \* no row, no request, no page
  MaxHelpChanges   \* bound: edits, saves and what other administrators do

VARIABLES
  collection,  \* collection[c]: the row, or NoHelp
  article,     \* article[a]: the row, or NoHelp
  helpPage,    \* the administrator's page: lists, dialog, ?article= and what it opened
  helpSave,    \* the article's save in flight, or NoHelp
  emptied,     \* the collections found empty by a deletion in flight
  helpChanges

helpVars ==
  <<collection, article, helpPage, helpSave, emptied, helpChanges>>

Lang == {"en", "fr"}
ArticleRow ==
  [collectionId : Collections, title : SUBSET Lang, content : SUBSET Lang,
   isPublished : BOOLEAN]
CollectionRow == [title : (SUBSET Lang) \ {{}}, isPublished : BOOLEAN]
ASSUME HelpAssumption == FirstCollection \in Collections /\ NoHelp \notin CollectionRow
HelpArticles == {a \in Articles : article[a] # NoHelp}
InCollection(c) == {a \in HelpArticles : article[a].collectionId = c}

HelpInit ==
  LET row == [collectionId |-> FirstCollection, title |-> Lang, content |-> Lang,
              isPublished |-> TRUE]
  IN /\ collection = [c \in Collections |-> IF c = FirstCollection
                        THEN [title |-> {"en"}, isPublished |-> TRUE] ELSE NoHelp]
     /\ article = [a \in Articles |-> IF a = FirstArticle THEN row ELSE NoHelp]
     /\ helpPage = [articles |-> article, isOpen |-> FALSE, id |-> NoHelp,
                    opened |-> row, draft |-> row, languages |-> Lang, edited |-> {},
                    asked |-> NoHelp, openedArticleId |-> NoHelp]
     /\ helpSave = NoHelp /\ emptied = {} /\ helpChanges = 0

HelpChange == helpChanges < MaxHelpChanges /\ helpChanges' = helpChanges + 1
OnHelpPage == UNCHANGED <<collection, article, emptied>>
HelpIs(stage) == helpSave # NoHelp /\ helpSave.at = stage

-----------------------------------------------------------------------------
(* The languages whose fields the dialog shows: those with a title.        *)
helpContentLanguages(row, default) == IF row.title = {} THEN {default} ELSE row.title

DialogOn(a) ==
  [helpPage EXCEPT !.isOpen = TRUE, !.id = a, !.opened = helpPage.articles[a],
     !.draft = helpPage.articles[a], !.edited = {},
     !.languages = helpContentLanguages(helpPage.articles[a], "en")]

editArticle(a) ==
  /\ ~helpPage.isOpen /\ helpPage.articles[a] # NoHelp
  /\ helpPage' = DialogOn(a)
  /\ OnHelpPage /\ UNCHANGED <<helpSave, helpChanges>>

(* The reader's edit button leads here with ?article=: once per visit, and *)
(* not while another article is being written.                             *)
OpensOverDialog(a) == helpPage.openedArticleId # a  \* mutant: whatever is open
LinkOpens(a) == ~helpPage.isOpen /\ helpPage.openedArticleId # a

FollowLink(a) ==
  /\ helpPage' = [helpPage EXCEPT !.asked = a]
  /\ HelpChange /\ OnHelpPage /\ UNCHANGED helpSave
LeaveLink ==
  /\ helpPage.asked # NoHelp
  /\ helpPage' = [helpPage EXCEPT !.asked = NoHelp, !.openedArticleId = NoHelp]
  /\ OnHelpPage /\ UNCHANGED <<helpSave, helpChanges>>
OpenAsked(a) ==
  /\ helpPage.asked = a /\ helpPage.articles[a] # NoHelp /\ LinkOpens(a)
  /\ helpPage' = [DialogOn(a) EXCEPT !.openedArticleId = a]
  /\ OnHelpPage /\ UNCHANGED <<helpSave, helpChanges>>

createArticle ==
  /\ ~helpPage.isOpen
  /\ \E c \in Collections :
       LET new == [collectionId |-> c, title |-> {}, content |-> {}, isPublished |-> TRUE] IN
         /\ collection[c] # NoHelp
         /\ helpPage' = [helpPage EXCEPT !.isOpen = TRUE, !.id = NoHelp, !.opened = new,
                           !.draft = new, !.languages = {"en"}, !.edited = {}]
  /\ OnHelpPage /\ UNCHANGED <<helpSave, helpChanges>>

(* Only the fields of a language that is listed are shown.                 *)
TypeArticle ==
  /\ helpPage.isOpen
  /\ \E v \in ArticleRow :
       LET changed == {f \in DOMAIN v : v[f] # helpPage.draft[f]} IN
         /\ Cardinality(changed) = 1
         /\ \A f \in changed \cap {"title", "content"} :
              v[f] \ helpPage.languages = helpPage.draft[f] \ helpPage.languages
         /\ "collectionId" \in changed => collection[v.collectionId] # NoHelp
         /\ helpPage' = [helpPage EXCEPT !.draft = v, !.edited = @ \cup changed]
  /\ HelpChange /\ OnHelpPage /\ UNCHANGED helpSave

addLanguage ==
  /\ helpPage.isOpen
  /\ \E l \in Lang \ helpPage.languages :
       helpPage' = [helpPage EXCEPT !.languages = @ \cup {l}]
  /\ OnHelpPage /\ UNCHANGED <<helpSave, helpChanges>>

CloseArticle ==
  /\ helpPage.isOpen /\ helpPage' = [helpPage EXCEPT !.isOpen = FALSE]
  /\ OnHelpPage /\ UNCHANGED <<helpSave, helpChanges>>

RefreshHelp ==
  /\ helpPage' = [helpPage EXCEPT !.articles = article]
  /\ OnHelpPage /\ UNCHANGED <<helpSave, helpChanges>>

OneTranslationValid ==  \* mutant: a complete language is enough to save
  \E l \in helpPage.languages : l \in helpPage.draft.title \cap helpPage.draft.content
TranslationsValid ==
  \A l \in helpPage.languages : l \in helpPage.draft.title \cap helpPage.draft.content

SaveArticle ==
  /\ helpPage.isOpen /\ helpSave = NoHelp /\ TranslationsValid
  /\ helpSave' = [at |-> "sent", id |-> helpPage.id, body |-> helpPage.draft,
                  opened |-> helpPage.opened]
  /\ HelpChange /\ OnHelpPage /\ UNCHANGED helpPage

ArticleSaved ==
  /\ HelpIs("stored")
  /\ helpPage' = [helpPage EXCEPT !.articles = article, !.isOpen = FALSE]
  /\ helpSave' = NoHelp /\ OnHelpPage /\ UNCHANGED helpChanges

ArticleRefused ==
  /\ HelpIs("sent") \/ HelpIs("judged")
  /\ helpSave' = NoHelp /\ OnHelpPage /\ UNCHANGED <<helpPage, helpChanges>>

-----------------------------------------------------------------------------
(* The routes.  A translation has a title and a text, or neither.          *)
OneCompleteIsEnough(body) == body.title \cap body.content # {}  \* mutant
ArticleInput(body) == body.title = body.content /\ body.title # {}

JudgeArticle ==
  /\ HelpIs("sent")
  /\ ArticleInput(helpSave.body) /\ collection[helpSave.body.collectionId] # NoHelp
  /\ helpSave' = [helpSave EXCEPT !.at = "judged"]
  /\ OnHelpPage /\ UNCHANGED <<helpPage, helpChanges>>

(* The row's foreign key names its collection, which may be gone by now.   *)
StoreArticle(id, body) ==
  /\ collection[body.collectionId] # NoHelp
  /\ \E a \in Articles :
       /\ IF id = NoHelp THEN article[a] = NoHelp ELSE a = id /\ article[a] # NoHelp
       /\ article' = [article EXCEPT ![a] = body]
CommitArticle ==
  /\ HelpIs("judged") /\ StoreArticle(helpSave.id, helpSave.body)
  /\ helpSave' = [helpSave EXCEPT !.at = "stored"]
  /\ UNCHANGED <<collection, helpPage, emptied, helpChanges>>

(* A request that another administrator sends.                             *)
OtherArticle ==
  /\ \E id \in HelpArticles \cup {NoHelp}, body \in ArticleRow :
       ArticleInput(body) /\ StoreArticle(id, body)
  /\ HelpChange /\ UNCHANGED <<collection, helpPage, helpSave, emptied>>

DeleteArticle(a) ==
  /\ article[a] # NoHelp /\ article' = [article EXCEPT ![a] = NoHelp]
  /\ HelpChange /\ UNCHANGED <<collection, helpPage, helpSave, emptied>>

(* The collections' dialog and routes.  A deletion counts the articles,    *)
(* and the articles' foreign key judges it again.                          *)
SaveCollection(c) ==
  /\ \E row \in CollectionRow : collection' = [collection EXCEPT ![c] = row]
  /\ HelpChange /\ UNCHANGED <<article, helpPage, helpSave, emptied>>

CountArticles(c) ==
  /\ collection[c] # NoHelp /\ c \notin emptied /\ InCollection(c) = {}
  /\ emptied' = emptied \cup {c}
  /\ HelpChange /\ UNCHANGED <<collection, article, helpPage, helpSave>>

DeleteCollection(c) ==
  /\ c \in emptied /\ emptied' = emptied \ {c}
  /\ IF InCollection(c) = {} THEN collection' = [collection EXCEPT ![c] = NoHelp]
                             ELSE UNCHANGED collection
  /\ UNCHANGED <<article, helpPage, helpSave, helpChanges>>

(* What a reader is answered who asks for an article: each field in the    *)
(* preferred language, or else in the other one.                           *)
OwnFlagOnly(a) == a \in HelpArticles /\ article[a].isPublished  \* mutant
Published(a) ==
  a \in HelpArticles /\ article[a].isPublished /\ collection[article[a].collectionId].isPublished
Localized(texts, lang) ==
  IF lang \in texts THEN {lang} ELSE texts

AnswerTo(a, lang) ==
  IF ~Published(a) THEN NoHelp ELSE
    [title |-> Localized(article[a].title, lang),
     content |-> Localized(article[a].content, lang),
     articles |-> {b \in InCollection(article[a].collectionId) : article[b].isPublished}]

HelpNext ==
  \/ LeaveLink \/ createArticle \/ TypeArticle \/ addLanguage \/ CloseArticle \/ RefreshHelp
  \/ SaveArticle \/ JudgeArticle \/ CommitArticle \/ ArticleSaved \/ ArticleRefused
  \/ OtherArticle
  \/ \E a \in Articles :
       \/ editArticle(a) \/ FollowLink(a) \/ OpenAsked(a) \/ DeleteArticle(a)
  \/ \E c \in Collections : SaveCollection(c) \/ CountArticles(c) \/ DeleteCollection(c)

HelpSpec == HelpInit /\ [][HelpNext]_helpVars

-----------------------------------------------------------------------------
HelpTypeOK ==
  /\ collection \in [Collections -> CollectionRow \cup {NoHelp}]
  /\ article \in [Articles -> ArticleRow \cup {NoHelp}]
  /\ helpPage.draft \in ArticleRow /\ helpPage.languages \subseteq Lang

(* Every article has its collection and can be read in whole: a reader is  *)
(* shown a title and a text in one language, and nothing that is not       *)
(* published or belongs to a collection that is not.                       *)
ArticlesCanBeRead ==
  /\ \A a \in HelpArticles : collection[article[a].collectionId] # NoHelp
  /\ \A a \in Articles, lang \in Lang : AnswerTo(a, lang) # NoHelp =>
       /\ AnswerTo(a, lang).title = AnswerTo(a, lang).content
       /\ \A b \in {a} \cup AnswerTo(a, lang).articles :
            article[b].isPublished /\ collection[article[b].collectionId].isPublished
       /\ Cardinality(AnswerTo(a, lang).title) = 1

(* Saving the dialog does not take back a translation that the article had *)
(* when it was opened, and what was written in an open dialog stays.       *)
TranslationsStay ==
  /\ HelpIs("judged") /\ article' # article /\ helpSave' # helpSave /\ helpSave.id # NoHelp =>
       helpSave.opened.title \subseteq article'[helpSave.id].title
  /\ helpPage.isOpen /\ helpPage'.isOpen => helpPage.edited \subseteq helpPage'.edited
=============================================================================
