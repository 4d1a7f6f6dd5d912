-------------------------- MODULE SatelliteCatalog --------------------------
(***************************************************************************)
(* The shared satellite catalog: SatelliteAdapter of packages/providers    *)
(* (satellites.ts) behind apps/server/src/routes/satellites.ts.            *)
(*                                                                         *)
(* Every request of a process shares one cache, one refresh in flight and  *)
(* one backoff.  A refresh fetches all groups at once and stores the       *)
(* catalog only if every one of them arrives.  The caller that began it    *)
(* falls back to the stale cache if it fails; those that joined it get its *)
(* rejection as it is.  Elements and their fields are left out: a catalog  *)
(* is the time it was stored at.                                           *)
(***************************************************************************)
EXTENDS Integers

CONSTANTS
  Viewers,       \* concurrent callers of getCatalog
  Groups,        \* SATELLITE_LIVE_GROUPS
  FreshFor,      \* SATELLITE_CACHE_FRESH_SECONDS
  UsableFor,     \* SATELLITE_CACHE_MAX_STALE_SECONDS
  TransientFor,  \* SATELLITE_TRANSIENT_RETRY_SECONDS
  LastMoment,    \* bound on the clock
  NoTime         \* never: no cache, no backoff

ASSUME CatalogAssumption ==
  /\ {FreshFor, UsableFor, TransientFor, LastMoment} \subseteq Nat
  /\ TransientFor <= FreshFor /\ FreshFor <= UsableFor
  /\ NoTime \notin Int /\ Groups # {}

VARIABLES
  orbitMode,   \* how the process was configured
  orbitNow,    \* the clock
  storedAt,    \* liveCache.storedAtMs
  awaited,     \* the groups refreshInFlight still waits for, {} if none
  blockedTill, \* retryBlockedUntilMs
  orbitHealth, \* the last onHealthChange
  viewing      \* viewer -> its call: state, catalog served and when

catalogVars == <<orbitMode, orbitNow, storedAt, awaited, blockedTill, orbitHealth, viewing>>

Unviewed == [state |-> "idle", stored |-> NoTime, at |-> 0]
Served(stored) == [state |-> "served", stored |-> stored, at |-> orbitNow]
Withheld(why) == [state |-> why, stored |-> NoTime, at |-> orbitNow]

CatalogInit ==
  /\ orbitMode \in {"disabled", "locked", "seed", "live"}
  /\ orbitNow = 0
  /\ storedAt = NoTime /\ awaited = {} /\ blockedTill = NoTime
  /\ orbitHealth = "unknown"
  /\ viewing = [v \in Viewers |-> Unviewed]

Within(age) == storedAt # NoTime /\ orbitNow - storedAt <= age
Waiting == {v \in Viewers : viewing[v].state \in {"leads", "joins"}}

(* cachedResponse, or the error if the cache is too old to be shown.       *)
(* Mutant of StaleOr: the stale cache is served whatever its age.          *)
StaleOrAnyAge(error) ==
  IF storedAt # NoTime
  THEN [health |-> "degraded", answer |-> Served(storedAt)]
  ELSE [health |-> "unavailable", answer |-> error]

StaleOr(error) ==
  IF Within(UsableFor)
  THEN [health |-> "degraded", answer |-> Served(storedAt)]
  ELSE [health |-> "unavailable", answer |-> error]

-----------------------------------------------------------------------------
(* getCatalog's gates: the kill switch and the live access.                *)
TurnedAway(v) ==
  /\ viewing[v] = Unviewed /\ orbitMode \in {"disabled", "locked"}
  /\ viewing' = [viewing EXCEPT ![v] = Withheld(orbitMode)]
  /\ UNCHANGED <<orbitMode, orbitNow, storedAt, awaited, blockedTill, orbitHealth>>

(* The synthetic catalog is always at hand.                                *)
FromSeed(v) ==
  /\ viewing[v] = Unviewed /\ orbitMode = "seed"
  /\ viewing' = [viewing EXCEPT ![v] = Served(orbitNow)]
  /\ orbitHealth' = "healthy"
  /\ UNCHANGED <<orbitMode, orbitNow, storedAt, awaited, blockedTill>>

(* getLiveCatalog up to its first await.                                   *)
FromCache(v) ==
  /\ viewing[v] = Unviewed /\ orbitMode = "live"
  /\ Within(FreshFor)
  /\ viewing' = [viewing EXCEPT ![v] = Served(storedAt)]
  /\ UNCHANGED <<orbitMode, orbitNow, storedAt, awaited, blockedTill, orbitHealth>>

JoinRefresh(v) ==
  /\ viewing[v] = Unviewed /\ orbitMode = "live"
  /\ ~Within(FreshFor) /\ awaited # {}
  /\ viewing' = [viewing EXCEPT ![v] = [Unviewed EXCEPT !.state = "joins"]]
  /\ UNCHANGED <<orbitMode, orbitNow, storedAt, awaited, blockedTill, orbitHealth>>

BackingOff == blockedTill # NoTime /\ orbitNow < blockedTill

BackOff(v) ==
  /\ viewing[v] = Unviewed /\ orbitMode = "live"
  /\ ~Within(FreshFor) /\ awaited = {} /\ BackingOff
  /\ LET result == StaleOr(Withheld("failed"))
     IN /\ orbitHealth' = result.health
        /\ viewing' = [viewing EXCEPT ![v] = result.answer]
  /\ UNCHANGED <<orbitMode, orbitNow, storedAt, awaited, blockedTill>>

Refresh(v) ==
  /\ viewing[v] = Unviewed /\ orbitMode = "live"
  /\ ~Within(FreshFor) /\ awaited = {} /\ ~BackingOff
  /\ awaited' = Groups
  /\ viewing' = [viewing EXCEPT ![v] = [Unviewed EXCEPT !.state = "leads"]]
  /\ UNCHANGED <<orbitMode, orbitNow, storedAt, blockedTill, orbitHealth>>

(* refreshLiveCatalog: a group arrives; the last one makes the catalog.    *)
GroupArrives(g) ==
  /\ g \in awaited
  /\ awaited' = awaited \ {g}
  /\ IF awaited' = {}
     THEN /\ storedAt' = orbitNow /\ blockedTill' = NoTime /\ orbitHealth' = "healthy"
          /\ viewing' = [v \in Viewers |->
               IF v \in Waiting THEN Served(orbitNow) ELSE viewing[v]]
     ELSE UNCHANGED <<storedAt, blockedTill, orbitHealth, viewing>>
  /\ UNCHANGED <<orbitMode, orbitNow>>

(* A group fails, or the merged catalog does not parse: Promise.all        *)
(* rejects, and the groups under way are fetched for nothing.  delay is    *)
(* retryDelaySeconds' verdict on the error.                                *)
RefreshFails(delay) ==
  /\ awaited # {}
  /\ awaited' = {}
  /\ blockedTill' = orbitNow + delay
  /\ LET result == StaleOr(Withheld("failed"))
     IN /\ orbitHealth' = result.health
        /\ viewing' = [v \in Viewers |->
             CASE viewing[v].state = "leads" -> result.answer
               [] viewing[v].state = "joins" -> Withheld("failed")
               [] OTHER -> viewing[v]]
  /\ UNCHANGED <<orbitMode, orbitNow, storedAt>>

(* The route answers and the viewer may ask again.                         *)
Viewed(v) ==
  /\ viewing[v] # Unviewed /\ v \notin Waiting
  /\ viewing' = [viewing EXCEPT ![v] = Unviewed]
  /\ UNCHANGED <<orbitMode, orbitNow, storedAt, awaited, blockedTill, orbitHealth>>

OrbitTick ==
  /\ orbitNow < LastMoment
  /\ orbitNow' = orbitNow + 1
  /\ UNCHANGED <<orbitMode, storedAt, awaited, blockedTill, orbitHealth, viewing>>

CatalogNext ==
  \/ \E v \in Viewers : TurnedAway(v) \/ FromSeed(v) \/ FromCache(v) \/ JoinRefresh(v)
                        \/ BackOff(v) \/ Refresh(v) \/ Viewed(v)
  \/ \E g \in Groups : GroupArrives(g)
  \/ \E delay \in {FreshFor, TransientFor} : RefreshFails(delay)
  \/ OrbitTick

CatalogSpec == CatalogInit /\ [][CatalogNext]_catalogVars

-----------------------------------------------------------------------------
(* The types; a refresh is in flight exactly while one caller leads it.    *)
CatalogTypeOK ==
  /\ orbitMode \in {"disabled", "locked", "seed", "live"} /\ orbitNow \in 0..LastMoment
  /\ storedAt \in (0..orbitNow) \cup {NoTime}
  /\ awaited \subseteq Groups
  /\ blockedTill \in (0..LastMoment + FreshFor) \cup {NoTime}
  /\ orbitHealth \in {"unknown", "healthy", "degraded", "unavailable"}
  /\ \A v \in Viewers :
       viewing[v].state \in {"idle", "leads", "joins", "served", "disabled", "locked", "failed"}
  /\ awaited # {} <=> \E v \in Viewers : viewing[v].state = "leads"
  /\ \A v, w \in Viewers : viewing[v].state = "leads" /\ viewing[w].state = "leads" => v = w

(* However callers join, fail and come back: no catalog is served past its *)
(* day, nothing goes upstream while the source is disabled, locked or      *)
(* asked to be left alone, and the health shown is unhealthy exactly from  *)
(* a failed refresh to the next good one (getLiveCatalog,                  *)
(* refreshLiveCatalog).                                                    *)
CatalogHonest ==
  /\ \A v \in Viewers : viewing[v].state = "served" => viewing[v].at - viewing[v].stored <= UsableFor
  /\ awaited # {} => orbitMode = "live" /\ ~BackingOff
  /\ blockedTill # NoTime <=> orbitHealth \in {"degraded", "unavailable"}

=============================================================================
