---------------------------- MODULE FeedPipeline ----------------------------
(***************************************************************************)
(* One feed on its way to the globe: the poll every five seconds, which    *)
(* aborts the one before it (apps/web routes/GlobeRoute.svelte,            *)
(* feedPolling.ts), the layer store's counts, raw rows and satellite lock  *)
(* (stores/layers.svelte.ts), and the layer that drains the latest         *)
(* snapshot into the scene's entities once per animation frame             *)
(* (packages/cesium-kit baseLayer.ts and the layers over it).              *)
(*                                                                         *)
(* A snapshot has items to place and items without a position, which are   *)
(* in the snapshot but make no entity: flights may lack coordinates and    *)
(* alerts a polygon.  feed, chosen once, is the feed this behaviour is of. *)
(***************************************************************************)
EXTENDS Naturals, FiniteSets

CONSTANT Items

ASSUME FeedAssumption == IsFiniteSet(Items)

VARIABLES
  feed,       \* "flights", "alerts" or "satellites"
  visible,    \* layerStore.visibility of the layer
  accessLock, \* satelliteAccessLock is set
  load,       \* the current poll's request
  waiting,    \* pendingUpdates, when hasPendingSnapshot
  frame,      \* an animation frame is requested
  drawn,      \* the ids in entityMap
  lastDrawn,  \* the snapshot that was drained last
  raw         \* rawEntities of the layer, or operationalEntities

feedVars == <<feed, visible, accessLock, load, waiting, frame, drawn, lastDrawn, raw>>
storeVars == <<visible, accessLock, raw>>
sceneVars == <<waiting, frame, drawn, lastDrawn>>

Nothing == [placed |-> {}, bare |-> {}]

Snapshots ==
  {s \in [placed : SUBSET Items, bare : SUBSET Items] :
     s.placed \cap s.bare = {} /\ (feed = "satellites" => s.bare = {})}

Ids(s) == s.placed \cup s.bare

FeedInit ==
  /\ feed \in {"flights", "alerts", "satellites"}
  /\ visible \in BOOLEAN /\ accessLock = FALSE
  /\ load = "none"
  /\ waiting = {} /\ frame = FALSE
  /\ drawn = {} /\ lastDrawn = Nothing
  /\ raw = {}

(* enqueueUpdates: the latest snapshot replaces one not drained yet.       *)
Enqueue(s) == waiting' = {s} /\ frame' = TRUE /\ UNCHANGED <<drawn, lastDrawn>>

(* The catch of loadFeed: alerts are cleared, and a lock code locks the    *)
(* satellites and hides them.                                              *)
LoadFailed(code) ==
  LET locks == feed = "satellites" /\ code
  IN /\ accessLock' = (accessLock \/ locks)
     /\ visible' = (visible /\ ~locks)
     /\ raw' = IF locks \/ feed = "alerts" THEN {} ELSE raw
     /\ IF feed = "alerts" THEN Enqueue(Nothing) ELSE UNCHANGED sceneVars

-----------------------------------------------------------------------------
(* pollAllFeeds.  The load before is aborted: silently, unless it was      *)
(* reading the body of an error, which then fails without a code.  Locked  *)
(* satellites are polled though hidden, or the lock would never go.        *)
Poll ==
  /\ load' = IF visible \/ accessLock THEN "fetching" ELSE "none"
  /\ IF load = "reading" THEN LoadFailed(FALSE) ELSE UNCHANGED <<storeVars, sceneVars>>
  /\ UNCHANGED feed

Loaded(s) ==
  /\ load = "fetching" /\ s \in Snapshots
  /\ load' = "none"
  /\ Enqueue(s)
  /\ raw' = Ids(s)
  /\ accessLock' = FALSE
  /\ UNCHANGED <<feed, visible>>

ErrorStatus ==
  /\ load = "fetching"
  /\ load' = "reading"
  /\ UNCHANGED <<feed, storeVars, sceneVars>>

(* The error's body, or the network's failure, which has none.             *)
Failed(code) ==
  /\ load = "reading" \/ (load = "fetching" /\ ~code)
  /\ load' = "none"
  /\ LoadFailed(code)
  /\ UNCHANGED feed

-----------------------------------------------------------------------------
(* drainQueue: entities are made or moved, and those the snapshot no       *)
(* longer has are removed, but only if a count differs.                    *)
(* Mutant of Reconciled: only what was added is counted.                   *)
ReconciledOnGrowth(old, s) ==
  LET placed == old \cup s.placed
  IN IF Cardinality(placed) # Cardinality(old) THEN placed \cap Ids(s) ELSE placed

Reconciled(old, s) ==
  LET placed == old \cup s.placed
  IN IF Cardinality(placed) # Cardinality(old) \/ Cardinality(Ids(s)) # Cardinality(old)
     THEN placed \cap Ids(s)
     ELSE placed

Drain ==
  /\ frame
  /\ frame' = FALSE /\ waiting' = {}
  /\ \A s \in waiting : drawn' = Reconciled(drawn, s) /\ lastDrawn' = s
  /\ UNCHANGED <<feed, load, storeVars>>

(* The operator's toggle, a deep link or a voice tool.                     *)
(* Mutant of SetLayer: the lock is not looked at.                          *)
SetLayerUnlocked(enabled) ==
  /\ visible' = enabled
  /\ UNCHANGED <<feed, accessLock, load, raw, sceneVars>>

SetLayer(enabled) ==
  /\ ~accessLock
  /\ visible' = enabled
  /\ UNCHANGED <<feed, accessLock, load, raw, sceneVars>>

FeedNext ==
  \/ Poll
  \/ \E s \in Snapshots : Loaded(s)
  \/ ErrorStatus
  \/ \E code \in BOOLEAN : Failed(code)
  \/ Drain
  \/ \E enabled \in BOOLEAN : SetLayer(enabled)

FeedSpec == FeedInit /\ [][FeedNext]_feedVars

-----------------------------------------------------------------------------
(* The types; a frame is requested exactly while a snapshot waits.         *)
FeedTypeOK ==
  /\ feed \in {"flights", "alerts", "satellites"}
  /\ visible \in BOOLEAN /\ accessLock \in BOOLEAN
  /\ load \in {"none", "fetching", "reading"}
  /\ waiting \subseteq Snapshots /\ Cardinality(waiting) <= 1
  /\ frame <=> waiting # {}
  /\ drawn \subseteq Items /\ raw \subseteq Items
  /\ lastDrawn \in Snapshots

(* What is drawn is the latest drained snapshot: every item that can be    *)
(* placed is there and, if all of them can, nothing else is, although the  *)
(* scene is compared by counts alone (baseLayer drainQueue); and the raw   *)
(* rows are those of the snapshot waiting or drawn, unless locked away.    *)
DrawnCurrent ==
  /\ lastDrawn.placed \subseteq drawn
  /\ lastDrawn.bare = {} => drawn = lastDrawn.placed
  /\ raw # {} => \A s \in waiting \cup (IF waiting = {} THEN {lastDrawn} ELSE {}) : raw = Ids(s)

(* While the satellites are locked nothing shows them, whatever is toggled *)
(* and whichever poll answers (setSatelliteAccessLock, setLayerEnabled,    *)
(* toggleLayer, loadFeed).                                                 *)
LockedHidden == accessLock => feed = "satellites" /\ ~visible /\ raw = {}

(* "Reconcile: remove entities absent from latest snapshot": the comment   *)
(* in drainQueue, which the code does not keep.                            *)
AbsentRemoved == drawn \subseteq Ids(lastDrawn)

=============================================================================
