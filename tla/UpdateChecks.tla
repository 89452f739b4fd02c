---------------------------- MODULE UpdateChecks ----------------------------
(***************************************************************************)
(* Update awareness: src/lib/update-service.ts asks a release manifest     *)
(* when an administrator's read finds the shared cache old, or on demand,  *)
(* gated by the database's rate limiter; src/components/providers/         *)
(* update-provider.tsx shows the answer and keeps a dismissal per browser. *)
(*                                                                         *)
(* A release is a number and the manifest only moves forward.  A check     *)
(* lasts a fraction of the gate's minute, since its fetch is aborted after *)
(* five seconds.                                                           *)
(***************************************************************************)
EXTENDS Naturals, FiniteSets

CONSTANTS
  Checks,    \* requests in flight, of any replica
  Tabs,      \* tabs of one administrator's browser
  NoCheck,   \* no request, nothing cached, nothing dismissed
  Minute, Day,      \* the window of the gate and the life of the cache, in ticks
  Longest,          \* the ticks that a check may last
  MaxRelease, MaxTicks, MaxClicks  \* bounds: releases, time, dismissals and saves

VARIABLES
  released,    \* the release that the manifest names
  lastCheck,      \* the row updates_cache: release, status, time; or NoCheck
  automatic,   \* the setting updates_automatic
  gate,        \* when the window of the rate limiter ends
  check,       \* check[c]: a request in flight, or NoCheck
  updateTab,   \* updateTab[t]: what a tab shows and holds dismissed
  dismissal,   \* the dismissed release in localStorage, or NoCheck
  storageEvents,  \* tabs that have yet to handle a storage event
  ticks, clicks

updateVars == <<released, lastCheck, automatic, gate, check, updateTab, dismissal,
                storageEvents, ticks, clicks>>
serverOfUpdates == <<released, lastCheck, automatic, gate, check, ticks>>
browserOfUpdates == <<updateTab, dismissal, storageEvents, clicks>>

Installed == 0
Releases == 0..MaxRelease
NoManifest == [release |-> NoCheck, status |-> "not_checked", at |-> 0]
CacheRow ==
  [release : Releases \cup {NoCheck}, status : {"ok", "unavailable"}, at : 0..MaxTicks]
Check ==
  [at : {"gate", "fetch", "store", "answer"}, tab : Tabs, row : CacheRow \cup {NoCheck},
   since : 0..MaxTicks]
StorageEvent == [tab : Tabs, value : Releases \cup {NoCheck}]

ASSUME UpdatesAssumption ==
  /\ {Minute, Day, Longest, MaxRelease, MaxTicks, MaxClicks} \subseteq Nat
  /\ 2 * Longest < Minute
  /\ NoCheck \notin Releases \cup CacheRow \cup Check

stateFromCache(row) == IF row = NoCheck THEN NoManifest ELSE row
IsFresh(row) == row # NoCheck /\ ticks - row.at < Day

UpdatesInit ==
  /\ released = 0 /\ lastCheck = NoCheck /\ automatic = TRUE /\ gate = 0
  /\ check = [c \in Checks |-> NoCheck]
  /\ updateTab = [t \in Tabs |-> [state |-> NoManifest, dismissed |-> NoCheck]]
  /\ dismissal = NoCheck /\ storageEvents = {}
  /\ ticks = 0 /\ clicks = 0

-----------------------------------------------------------------------------
(* getUpdateState: the preference and the cache are read, then the gate is *)
(* asked, then the source, and the row is stored.                          *)
ReadCache(c, t, force) ==
  /\ check[c] = NoCheck
  /\ check' = [check EXCEPT ![c] =
       [at |-> IF ~force /\ (~automatic \/ IsFresh(lastCheck)) THEN "answer" ELSE "gate",
        tab |-> t, row |-> lastCheck, since |-> ticks]]
  /\ UNCHANGED <<released, lastCheck, automatic, gate, ticks, browserOfUpdates>>

IsOpen(c) == ticks >= gate
AlwaysOpen(c) == TRUE  \* mutant: every check asks the source
GateAllows(c) == IsOpen(c)

AskGate(c) ==
  /\ check[c] # NoCheck /\ check[c].at = "gate"
  /\ check' = [check EXCEPT ![c].at = IF GateAllows(c) THEN "fetch" ELSE "answer"]
  /\ gate' = IF IsOpen(c) THEN ticks + Minute ELSE gate
  /\ UNCHANGED <<released, lastCheck, automatic, ticks, browserOfUpdates>>

ForgetsRelease(row) == NoCheck  \* mutant: a failed check keeps nothing
KeptRelease(row) == stateFromCache(row).release

(* A failed check keeps the manifest of the row that it read.              *)
FetchManifest(c) ==
  /\ check[c] # NoCheck /\ check[c].at = "fetch"
  /\ \E ok \in BOOLEAN :
       check' = [check EXCEPT ![c].at = "store", ![c].row =
         [release |-> IF ok THEN released ELSE KeptRelease(check[c].row),
          status |-> IF ok THEN "ok" ELSE "unavailable", at |-> ticks]]
  /\ UNCHANGED <<released, lastCheck, automatic, gate, ticks, browserOfUpdates>>

StoreCache(c) ==
  /\ check[c] # NoCheck /\ check[c].at = "store"
  /\ lastCheck' = check[c].row
  /\ check' = [check EXCEPT ![c].at = "answer"]
  /\ UNCHANGED <<released, automatic, gate, ticks, browserOfUpdates>>

ShowUpdates(c) ==
  /\ check[c] # NoCheck /\ check[c].at = "answer"
  /\ updateTab' = [updateTab EXCEPT ![check[c].tab].state = stateFromCache(check[c].row)]
  /\ check' = [check EXCEPT ![c] = NoCheck]
  /\ UNCHANGED <<released, lastCheck, automatic, gate, ticks, dismissal, storageEvents, clicks>>

(* The replica stops.                                                      *)
LoseCheck(c) ==
  /\ check[c] # NoCheck /\ check[c].at \in {"fetch", "store"}
  /\ check' = [check EXCEPT ![c] = NoCheck]
  /\ UNCHANGED <<released, lastCheck, automatic, gate, ticks, browserOfUpdates>>

-----------------------------------------------------------------------------
Click == clicks < MaxClicks /\ clicks' = clicks + 1

SetAutomatic ==
  /\ automatic' = ~automatic
  /\ Click /\ UNCHANGED <<released, lastCheck, gate, check, ticks, updateTab, dismissal,
                          storageEvents>>

(* The other tabs get an event and read the storage again.                 *)
StoreDismissal(t, value) ==
  /\ updateTab' = [updateTab EXCEPT ![t].dismissed = value]
  /\ IF value = dismissal THEN UNCHANGED <<dismissal, storageEvents>>
     ELSE dismissal' = value /\ storageEvents' = storageEvents \cup
            {[tab |-> u, value |-> value] : u \in Tabs \ {t}}
  /\ Click /\ UNCHANGED serverOfUpdates

IsVisible(t) ==
  updateTab[t].state.release # NoCheck /\ updateTab[t].state.release > Installed
IsExpanded(t) == IsVisible(t) /\ updateTab[t].dismissed # updateTab[t].state.release
Dismiss(t) == IsExpanded(t) /\ StoreDismissal(t, updateTab[t].state.release)
RestoreNotice(t) == IsVisible(t) /\ StoreDismissal(t, NoCheck)

EventsValue(event) == event.value  \* mutant: what the event says, not what is stored
Reloaded(event) == dismissal

SyncTab(event) ==
  /\ event \in storageEvents
  /\ updateTab' = [updateTab EXCEPT ![event.tab].dismissed = Reloaded(event)]
  /\ storageEvents' = storageEvents \ {event}
  /\ UNCHANGED <<dismissal, clicks, serverOfUpdates>>

-----------------------------------------------------------------------------
Release ==
  /\ released < MaxRelease /\ released' = released + 1
  /\ UNCHANGED <<lastCheck, automatic, gate, check, ticks, browserOfUpdates>>

(* Time passes, and no check lasts too long.                               *)
PassTime ==
  /\ ticks < MaxTicks /\ ticks' = ticks + 1
  /\ \A c \in Checks : check[c] # NoCheck => ticks < check[c].since + Longest
  /\ UNCHANGED <<released, lastCheck, automatic, gate, check, browserOfUpdates>>

UpdatesNext ==
  \/ SetAutomatic \/ Release \/ PassTime
  \/ \E c \in Checks :
       \/ \E t \in Tabs, force \in BOOLEAN : ReadCache(c, t, force)
       \/ AskGate(c) \/ FetchManifest(c) \/ StoreCache(c) \/ ShowUpdates(c) \/ LoseCheck(c)
  \/ \E t \in Tabs : Dismiss(t) \/ RestoreNotice(t)
  \/ \E event \in storageEvents : SyncTab(event)

UpdatesSpec == UpdatesInit /\ [][UpdatesNext]_updateVars

-----------------------------------------------------------------------------
UpdatesTypeOK ==
  /\ released \in Releases /\ lastCheck \in CacheRow \cup {NoCheck} /\ automatic \in BOOLEAN
  /\ gate \in 0..(MaxTicks + Minute) /\ ticks \in 0..MaxTicks /\ clicks \in 0..MaxClicks
  /\ check \in [Checks -> Check \cup {NoCheck}]
  /\ updateTab \in [Tabs -> [state : CacheRow \cup {NoManifest},
                            dismissed : Releases \cup {NoCheck}]]
  /\ dismissal \in Releases \cup {NoCheck} /\ storageEvents \subseteq StorageEvent

(* One check at a time asks the source, whichever replicas they run in,    *)
(* and tabs of a browser that have handled their events agree on what is   *)
(* dismissed.                                                              *)
ChecksAreGated ==
  /\ Cardinality({c \in Checks : check[c] # NoCheck /\ check[c].at \in {"fetch", "store"}}) <= 1
  /\ storageEvents = {} => \A t \in Tabs : updateTab[t].dismissed = dismissal

(* A check never stores an older release than the one that is known, nor   *)
(* forgets it when the source fails.                                       *)
KnownReleaseStays ==
  lastCheck' # lastCheck /\ lastCheck # NoCheck /\ lastCheck.release # NoCheck =>
    lastCheck'.release # NoCheck /\ lastCheck'.release >= lastCheck.release
=============================================================================
