----------------------------- MODULE ConfigCache -----------------------------
(***************************************************************************)
(* The configuration cache (pkg/fscache/fscache.go), its reader            *)
(* (pkg/api/http/configs.go) and the mounted volume it follows.            *)
(*                                                                         *)
(* Kubelet publishes version n of a configmap or secret by pointing the    *)
(* symlink ..data at a new directory.  The files that fscache reads are    *)
(* links through ..data, one per key; links of new keys are made before    *)
(* the switch and links of removed keys are deleted after it.  The content *)
(* of a key in version n is represented by n itself.                       *)
(***************************************************************************)
EXTENDS Integers, Sequences

CONSTANTS
  Keys,         \* the names of the files: no directory, and no ".." in the name
  Payload       \* sequence of the key sets of the published versions

ASSUME PayloadAssumption == Payload \in Seq(SUBSET Keys) /\ Len(Payload) > 0

None == 0
Versions == 1 .. Len(Payload)

VARIABLES
  data,         \* the version behind ..data
  links,        \* the keys that have a link
  kubelet,      \* idle, or about to switch, or about to remove old links
  events,       \* "..data created" events not yet consumed by the watcher
  watcher,      \* idle, list, read, prune, store, or dead when NewWatch failed
  started,      \* has NewWatch returned?
  todo,         \* keys still to be read, pruned or stored
  fileMap,      \* what updateCache has read
  cache,        \* the sync.Map
  failed,       \* history: did the last updateCache return an error?
  reading,      \* is a request to /configs being served?
  toVisit,      \* keys it has still to visit
  answer        \* what that request has collected

volume == <<data, links, kubelet>>
update == <<watcher, started, todo, fileMap, failed>>
http   == <<reading, toVisit, answer>>
vars   == <<volume, events, update, cache, http>>

Empty == [k \in Keys |-> None]

\* What was read, cached or answered is a content that some version published, or nothing.
TypeOK ==
  /\ data \in Versions
  /\ links \subseteq Keys
  /\ kubelet \in {"idle", "switch", "clean"}
  /\ kubelet = "switch" => data + 1 \in Versions
  /\ events \in Nat
  /\ watcher \in {"idle", "list", "read", "prune", "store", "dead"}
  /\ started \in BOOLEAN /\ failed \in BOOLEAN
  /\ todo \subseteq Keys
  /\ fileMap \in [Keys -> Versions \cup {None}]
  /\ cache \in [Keys -> Versions \cup {None}]
  /\ reading \in BOOLEAN /\ toVisit \subseteq Keys
  /\ answer \in [Keys -> Versions \cup {None}]

Init ==
  /\ data = 1 /\ links = Payload[1] /\ kubelet = "idle"
  /\ events = 0
  /\ watcher = "list" /\ started = FALSE
  /\ todo = {} /\ fileMap = Empty /\ failed = FALSE
  /\ cache = Empty
  /\ reading = FALSE /\ toVisit = {} /\ answer = Empty

-----------------------------------------------------------------------------
(* Kubelet. *)

MakeLinks ==
  /\ kubelet = "idle" /\ data + 1 \in Versions
  /\ links' = links \cup Payload[data + 1]
  /\ kubelet' = "switch"
  /\ UNCHANGED <<data, events, update, cache, http>>

\* The switch is the only step that raises the event the watcher looks for.
SwitchData ==
  /\ kubelet = "switch"
  /\ data' = data + 1
  /\ events' = events + 1
  /\ kubelet' = "clean"
  /\ UNCHANGED <<links, update, cache, http>>

RemoveLinks ==
  /\ kubelet = "clean"
  /\ links' = Payload[data]
  /\ kubelet' = "idle"
  /\ UNCHANGED <<data, events, update, cache, http>>

-----------------------------------------------------------------------------
(* updateCache *)

\* Mutant: the map of what was read is kept from one update to the next.
List_keeps_map ==
  /\ watcher = "list"
  /\ watcher' = "read"
  /\ todo' = links
  /\ UNCHANGED <<volume, events, started, fileMap, failed, cache, http>>

\* os.ReadDir; no other error of the directory itself is considered.
List ==
  /\ watcher = "list"
  /\ watcher' = "read"
  /\ todo' = links
  /\ fileMap' = Empty
  /\ UNCHANGED <<volume, events, started, failed, cache, http>>

\* os.ReadFile follows the link into whatever ..data is by then.
Readable(k) == k \in links /\ k \in Payload[data]

ReadFile(k) ==
  /\ watcher = "read" /\ k \in todo /\ Readable(k)
  /\ todo' = todo \ {k}
  /\ fileMap' = [fileMap EXCEPT ![k] = data]
  /\ UNCHANGED <<volume, events, watcher, started, failed, cache, http>>

\* Mutant: the error is ignored and the file taken to be empty, which no version has.
ReadFails_ignored(k) ==
  /\ watcher = "read" /\ k \in todo /\ ~Readable(k)
  /\ todo' = todo \ {k}
  /\ fileMap' = [fileMap EXCEPT ![k] = -1]
  /\ UNCHANGED <<volume, events, watcher, started, failed, cache, http>>

\* A link that leads nowhere, or is gone: the error is returned and the cache stays as
\* it is.  In NewWatch it means that there is no watcher at all.
ReadFails(k) ==
  /\ watcher = "read" /\ k \in todo /\ ~Readable(k)
  /\ watcher' = IF started THEN "idle" ELSE "dead"
  /\ todo' = {}
  /\ failed' = TRUE
  /\ UNCHANGED <<volume, events, started, fileMap, cache, http>>

\* Mutant: the cache is emptied before it is filled.
ReadDone_clears ==
  /\ watcher = "read" /\ todo = {}
  /\ watcher' = "prune"
  /\ todo' = {k \in Keys : cache[k] # None}
  /\ UNCHANGED <<volume, events, started, fileMap, failed, cache, http>>

ReadDone ==
  /\ watcher = "read" /\ todo = {}
  /\ watcher' = "prune"
  /\ todo' = {k \in Keys : cache[k] # None /\ fileMap[k] = None}
  /\ UNCHANGED <<volume, events, started, fileMap, failed, cache, http>>

Prune(k) ==
  /\ watcher = "prune" /\ k \in todo
  /\ todo' = todo \ {k}
  /\ cache' = [cache EXCEPT ![k] = None]
  /\ UNCHANGED <<volume, events, watcher, started, fileMap, failed, http>>

PruneDone ==
  /\ watcher = "prune" /\ todo = {}
  /\ watcher' = "store"
  /\ todo' = {k \in Keys : fileMap[k] # None}
  /\ UNCHANGED <<volume, events, started, fileMap, failed, cache, http>>

Store(k) ==
  /\ watcher = "store" /\ k \in todo
  /\ todo' = todo \ {k}
  /\ cache' = [cache EXCEPT ![k] = fileMap[k]]
  /\ UNCHANGED <<volume, events, watcher, started, fileMap, failed, http>>

\* Mutant: events that came in during the update are taken to be covered by it.
StoreDone_drains ==
  /\ watcher = "store" /\ todo = {}
  /\ watcher' = "idle"
  /\ events' = 0
  /\ started' = TRUE
  /\ failed' = FALSE
  /\ UNCHANGED <<volume, todo, fileMap, cache, http>>

StoreDone ==
  /\ watcher = "store" /\ todo = {}
  /\ watcher' = "idle"
  /\ started' = TRUE
  /\ failed' = FALSE
  /\ UNCHANGED <<volume, events, todo, fileMap, cache, http>>

\* Mutant: the created ..data is not recognised.
TakeEvent_discards ==
  /\ watcher = "idle" /\ events > 0
  /\ events' = events - 1
  /\ UNCHANGED <<volume, watcher, started, todo, fileMap, failed, cache, http>>

\* The event loop.  Only a created ..data starts an update; the events of the key links
\* are discarded.
TakeEvent ==
  /\ watcher = "idle" /\ events > 0
  /\ events' = events - 1
  /\ watcher' = "list"
  /\ UNCHANGED <<volume, started, todo, fileMap, failed, cache, http>>

UpdateCache ==
  \/ List
  \/ \E k \in Keys : ReadFile(k) \/ ReadFails(k) \/ Prune(k) \/ Store(k)
  \/ ReadDone \/ PruneDone \/ StoreDone

-----------------------------------------------------------------------------
(* GET /configs: one pass over the map, entry by entry, while it changes.  *)

\* The HTTP server starts when NewWatch has returned, with or without a watcher.
RequestConfigs ==
  /\ ~reading
  /\ started \/ watcher = "dead"
  /\ reading' = TRUE
  /\ toVisit' = IF started THEN Keys ELSE {}
  /\ answer' = Empty
  /\ UNCHANGED <<volume, events, update, cache>>

Visit(k) ==
  /\ reading /\ k \in toVisit
  /\ toVisit' = toVisit \ {k}
  /\ answer' = [answer EXCEPT ![k] = cache[k]]
  /\ UNCHANGED <<volume, events, update, cache, reading>>

Respond ==
  /\ reading /\ toVisit = {}
  /\ reading' = FALSE
  /\ UNCHANGED <<volume, events, update, cache, toVisit, answer>>

-----------------------------------------------------------------------------
Kubelet == MakeLinks \/ SwitchData \/ RemoveLinks
Watch   == TakeEvent \/ UpdateCache
Configs == RequestConfigs \/ (\E k \in Keys : Visit(k)) \/ Respond

Next == Kubelet \/ Watch \/ Configs

Spec == Init /\ [][Next]_vars /\ WF_vars(Kubelet) /\ WF_vars(Watch)

-----------------------------------------------------------------------------
(* Properties. *)

\* The volume as kubelet published it.
Snapshot == [k \in Keys |-> IF k \in Payload[data] THEN data ELSE None]

\* When the watcher is at rest with no event left, and its last update went through, the
\* cache holds the current version, whole and nothing else: whatever switch happened
\* during the update would have left an event.
QuietMeansCurrent ==
  watcher = "idle" /\ events = 0 /\ ~failed => cache = Snapshot

\* A file that every version has is never missing from the cache, or from a finished
\* answer, not even while an update replaces it: entries are overwritten in place.
Permanent == {k \in Keys : \A v \in Versions : k \in Payload[v]}
PermanentKeysServed ==
  /\ started => \A k \in Permanent : cache[k] # None
  /\ reading /\ started => \A k \in Permanent \ toVisit : answer[k] # None

\* What makes it inductive: an update that comes to prune or store has read every file
\* that was listed, and every permanent file has a link to list.
PermanentKept ==
  /\ Permanent \subseteq links
  /\ watcher = "read" => \A k \in Permanent : k \in todo \/ fileMap[k] # None
  /\ watcher \in {"prune", "store"} => \A k \in Permanent : fileMap[k] # None
  /\ watcher = "prune" => todo \cap Permanent = {}
  /\ watcher = "store" => \A k \in Permanent : k \in todo \/ cache[k] # None
  /\ watcher = "dead" => ~started
  /\ reading => started \/ watcher = "dead"

\* What makes it inductive: with no event left, ..data has not moved since the update
\* began, so each stage of the update agrees with the volume as far as it has come.
LinksCover ==
  /\ Payload[data] \subseteq links
  /\ kubelet = "switch" => Payload[data + 1] \subseteq links
Agreement ==
  events = 0 =>
    /\ watcher = "read" =>
         /\ \A k \in Payload[data] : k \in todo \/ fileMap[k] = data
         /\ \A k \in Keys : fileMap[k] # None => fileMap[k] = data /\ k \in Payload[data]
    /\ watcher = "prune" =>
         /\ fileMap = Snapshot
         /\ \A k \in Keys : cache[k] # None /\ Snapshot[k] = None => k \in todo
    /\ watcher = "store" =>
         /\ fileMap = Snapshot
         /\ \A k \in Keys : k \notin todo => cache[k] = Snapshot[k]
    /\ watcher = "idle" /\ ~failed => cache = Snapshot

\* What /configs shows of the volume (module PublishedView).  The view is settled in the
\* states QuietMeansCurrent speaks of.
View == INSTANCE PublishedView WITH
  current <- data,
  view    <- cache,
  settled <- watcher = "idle" /\ events = 0 /\ ~failed
\* The cache implements PublishedView: through every interleaving of updates and switches
\* no key goes back to older content, none is taken away that every later version has,
\* and the cache comes to rest without an error on the current version only.
ShowsThePublished == View!Spec

\* What makes it inductive: the map that was read is never older than the cache, and an
\* entry to be pruned is one that a version after it is without.
Superseded(k) == \E v \in 1 .. data : cache[k] < v /\ k \notin Payload[v]
OnlyForward ==
  /\ \A k \in Keys :
       /\ cache[k] # None => k \in Payload[cache[k]] /\ cache[k] <= data
       /\ fileMap[k] # None =>
            k \in Payload[fileMap[k]] /\ cache[k] <= fileMap[k] /\ fileMap[k] <= data
  /\ watcher = "read" =>
       \A k \in Keys \ todo : cache[k] # None /\ fileMap[k] = None => Superseded(k)
  /\ watcher = "prune" => \A k \in todo : cache[k] # None /\ Superseded(k)
  /\ watcher = "store" => \A k \in todo : fileMap[k] # None

\* The comment of NewWatch says that it "creates a directory watcher and updates the
\* cache when any file changes in that dir": once kubelet is done, the cache is the volume.
EventuallyCurrent == <>[](watcher = "dead" \/ cache = Snapshot)

\* The same, where the last update may have failed.
EventuallyCurrentUnlessFailed == <>[](watcher = "dead" \/ failed \/ cache = Snapshot)

=============================================================================
