------------------------------ MODULE CablePacks ------------------------------
(***************************************************************************)
(* The provider registry (packages/providers/src/registry.ts), the cable   *)
(* adapter and its pack loader (cables.ts), the governed flag that         *)
(* activates a pack (apps/server/src/index.ts, routes/cablePackActivation  *)
(* .ts), the cached catalog reads and the two health reports.              *)
(*                                                                         *)
(* A pack is downloaded while other activations, reads and health reports  *)
(* go on; what it changes (registry, adapter, cache, recorded error) is    *)
(* changed in one turn when the download is over.  None of it outlives the *)
(* process, but the ledger's operations do.                                *)
(***************************************************************************)
EXTENDS Integers, Sequences, FiniteSets, Functions, FiniteSetsExt

CONSTANTS
  Activators,    \* activation requests, each made once per process
  CableReaders,  \* catalog requests
  Packs,         \* pack identifiers
  NoPack,
  PackOps,       \* idempotency keys
  Definitions,   \* PROVIDER_DEFINITIONS: provider -> [built, modes, feeds], and
                 \* whether its adapter reports its health (reports)
  Configs,       \* what a server may be configured with
  Downloads,     \* what a pack's address may send: [digest, size, catalog]
  MaxSegments, MaxCoordinates,  \* MAX_CABLE_ROUTE_SEGMENTS, MAX_CABLE_COORDINATES
  MaxStarts      \* bound on the restarts

ASSUME CableAssumption ==
  /\ MaxSegments \in Nat /\ MaxCoordinates \in Nat /\ MaxStarts \in Nat
  /\ NoPack \notin Packs
  /\ \A c \in Configs : c.requested \in {"seed", "live"} /\ c.off \subseteq DOMAIN Definitions

(* What contracts/src/providerRegistry.ts asks of the definitions, and     *)
(* that the cables' adapter reports no health.                             *)
ASSUME DefinitionsAssumption ==
  /\ IsFiniteSet(DOMAIN Definitions) /\ {"cables", "celestrak"} \subseteq DOMAIN Definitions
  /\ \A p \in DOMAIN Definitions :
       Definitions[p].feeds \subseteq BOOLEAN
       /\ (TRUE \in Definitions[p].feeds => Definitions[p].built = "implemented")
  /\ \E p \in DOMAIN Definitions : TRUE \in Definitions[p].feeds
  /\ ~Definitions["cables"].reports

VARIABLES
  config,       \* what the process was started with
  registry,     \* providerRegistry: provider -> [mode, health]
  shelf,        \* the adapter: the active pack, what it holds, how many there were
  mistakes,     \* cableActivationErrors
  cableCache,   \* the cost governor's state of "cables": a generation and a response
  activations,  \* the activation requests
  packOps,      \* the ledger's operations on set_flag
  reads,        \* the catalog requests
  starts        \* restarts so far

cableVars == <<config, registry, shelf, mistakes, cableCache, activations, packOps, reads, starts>>
-----------------------------------------------------------------------------
(* validateCableCatalog: landing points and routes are named once, routes  *)
(* end at landing points, and the whole of them is bounded.                *)
Once(ids) == IsInjective(ids)
CatalogValid(c) ==
  /\ Once(c.landings)
  /\ Once([k \in DOMAIN c.routes |-> c.routes[k].id])
  /\ \A k \in DOMAIN c.routes : c.routes[k].ends \subseteq Range(c.landings)
  /\ MapThenSumSet(LAMBDA k : c.routes[k].segments, DOMAIN c.routes) <= MaxSegments
  /\ MapThenSumSet(LAMBDA k : c.routes[k].coordinates, DOMAIN c.routes) <= MaxCoordinates

(* CablePackManifestSchema, and one manifest for each pack.                *)
ManifestsAccepted(list) ==
  /\ \A k \in DOMAIN list : list[k].https /\ list[k].host /\ list[k].prefix
  /\ Once([k \in DOMAIN list |-> list[k].pack])
HasPack(p) == \E k \in DOMAIN config.manifests : config.manifests[k].pack = p
ManifestOf(p) ==
  config.manifests[CHOOSE k \in DOMAIN config.manifests : config.manifests[k].pack = p]

(* loadPack: what is downloaded is refused unless it is what the manifest  *)
(* pinned and a catalog.                                                   *)
(* Mutant of Trustworthy: the digest is not compared.                      *)
TrustworthyUnpinned(p, d) == d.size <= ManifestOf(p).most /\ CatalogValid(d.catalog)
Trustworthy(p, d) ==
  /\ d.size <= ManifestOf(p).most
  /\ d.digest = ManifestOf(p).digest
  /\ CatalogValid(d.catalog)
-----------------------------------------------------------------------------
(* The registry.                                                           *)
Out == [mode |-> "unavailable", health |-> "unavailable"]

ResolveProviderState(p, requested, disabled, locked) ==
  IF \/ Definitions[p].built # "implemented" \/ p \in locked
     \/ requested \notin Definitions[p].modes
  THEN Out
  ELSE [mode |-> requested, health |-> IF p \in disabled THEN "degraded" ELSE "healthy"]

(* withDisabledProviders.                                                  *)
WithDisabled(r, disabled) ==
  [p \in DOMAIN r |-> IF p \in disabled /\ r[p].health = "healthy"
                      THEN [r[p] EXCEPT !.health = "degraded"] ELSE r[p]]

(* The live satellite source needs its access and its terms.               *)
ConfiguredRegistry(c) ==
  LET locked == IF c.requested = "live" /\ ~c.licensed THEN {"celestrak"} ELSE {}
      made == [p \in DOMAIN Definitions |-> ResolveProviderState(p, c.requested, c.off, locked)]
  IN WithDisabled(made, IF c.cables THEN {} ELSE {"cables"})

(* activateProviderDownloadPack refuses a provider that is not healthy.    *)
Activatable(r) ==
  /\ Definitions["cables"].built = "implemented"
  /\ "download_pack" \in Definitions["cables"].modes
  /\ r["cables"].health = "healthy"

IsActiveProvider(r, p) ==
  /\ Definitions[p].built = "implemented"
  /\ r[p].mode \in {"seed", "live"} /\ r[p].health = "healthy"

(* summarizeProviderRegistry, and the feeds as they are listed.            *)
ActiveCount(r) == Cardinality({p \in DOMAIN r : IsActiveProvider(r, p)})
FeedList(r) ==
  UNION {{[provider |-> p, built |-> f, status |-> IF f THEN r[p].health ELSE "unavailable"] :
            f \in Definitions[p].feeds} : p \in DOMAIN r}

(* /api/feeds/health and /api/health.                                      *)
RegistryStatus(r) ==
  LET feeds == {f \in FeedList(r) : f.built} IN
  CASE \A f \in feeds : f.status = "unavailable" -> "unavailable"
    [] OTHER -> IF \E f \in feeds : f.status # "healthy" THEN "degraded" ELSE "healthy"
SystemStatus(r) ==
  IF \E p \in DOMAIN r : Definitions[p].built = "implemented" /\ r[p].health # "healthy"
  THEN "degraded" ELSE "ok"
-----------------------------------------------------------------------------
NoContent == [pack |-> NoPack, content |-> {}, nth |-> 0]
Fresh == [generation |-> 0, response |-> "none", nth |-> 0]
NotAsked == [state |-> "none", op |-> "none", pack |-> NoPack, updated |-> FALSE, code |-> "none"]
NotRead == [state |-> "none", generation |-> 0, nth |-> 0, floor |-> 0]
NoOp == [state |-> "free", pack |-> NoPack, updated |-> FALSE]

Starts(c) ==
  /\ config = c
  /\ ManifestsAccepted(c.manifests)

CableInit ==
  /\ \E c \in Configs : Starts(c)
  /\ registry = ConfiguredRegistry(config)
  /\ shelf = NoContent /\ mistakes = {} /\ cableCache = Fresh
  /\ activations = [a \in Activators |-> NotAsked]
  /\ packOps = [o \in PackOps |-> NoOp]
  /\ reads = [r \in CableReaders |-> NotRead]
  /\ starts = 0

ServerKept == UNCHANGED <<config, registry, shelf, mistakes, cableCache>>

(* POST /ops/cables/packs/activate, up to the ledger's reservation.  An    *)
(* operation that was settled is not run again.                            *)
AskActivation(a, human, p, o, admitted) ==
  LET known == packOps[o]
      asked == [NotAsked EXCEPT !.op = o, !.pack = p]
      answered(code) == [NotAsked EXCEPT !.state = "answered", !.code = code]
  IN /\ activations[a] = NotAsked
     /\ ServerKept /\ UNCHANGED <<reads, starts>>
     /\ CASE ~human -> activations' = [activations EXCEPT ![a] = answered("HUMAN_AUTH_REQUIRED")]
                       /\ UNCHANGED packOps
          [] human /\ known.state = "free" ->
               IF admitted
               THEN /\ activations' = [activations EXCEPT ![a] = [asked EXCEPT !.state = "loading"]]
                    /\ packOps' = [packOps EXCEPT ![o] = [state |-> "reserved", pack |-> p, updated |-> FALSE]]
               ELSE /\ activations' = [activations EXCEPT ![a] = answered("REFUSED")]
                    /\ UNCHANGED packOps
          [] human /\ known.state # "free" ->
               /\ activations' = [activations EXCEPT ![a] =
                    CASE known.pack # p -> answered("IDEMPOTENCY_CONFLICT")
                      [] known.state = "reserved" -> answered("OPERATION_IN_PROGRESS")
                      [] known.state = "doubt" -> answered("OPERATION_IN_DOUBT")
                      [] OTHER -> [asked EXCEPT !.state = "executed", !.updated = known.updated]]
               /\ UNCHANGED packOps

(* The set_flag handler: the pack that was downloaded, or no pack (d is    *)
(* empty), is put to the registry and the adapter.                         *)
PackLoaded(a, d) ==
  LET p == activations[a].pack
      loaded == d # {} /\ config.cables /\ HasPack(p) /\ (\A b \in d : Trustworthy(p, b))
      updated == loaded /\ Activatable(registry)
  IN /\ activations[a].state = "loading"
     /\ activations' = [activations EXCEPT ![a].state = "handled", ![a].updated = updated]
     /\ IF updated
        THEN /\ registry' = [registry EXCEPT !["cables"] = [mode |-> "download_pack", health |-> "healthy"]]
             /\ shelf' = [pack |-> p, content |-> d, nth |-> shelf.nth + 1]
             /\ cableCache' = [Fresh EXCEPT !.generation = cableCache.generation + 1]
             /\ mistakes' = mistakes \ {p}
        ELSE mistakes' = mistakes \cup {p} /\ UNCHANGED <<registry, shelf, cableCache>>
     /\ UNCHANGED <<config, packOps, reads, starts>>

(* The ledger settles the operation.                                       *)
SettleFlag(a) ==
  /\ activations[a].state = "handled"
  /\ activations' = [activations EXCEPT ![a].state = "executed"]
  /\ packOps' = [packOps EXCEPT ![activations[a].op].state = "settled",
                                ![activations[a].op].updated = activations[a].updated]
  /\ ServerKept /\ UNCHANGED <<reads, starts>>

(* The route reports the pack activated if it still is the active one.     *)
ReportedActive(a) == activations[a].updated /\ shelf.pack = activations[a].pack

AnswerActivation(a) ==
  /\ activations[a].state = "executed"
  /\ activations' = [activations EXCEPT ![a] =
       IF ReportedActive(a) THEN [@ EXCEPT !.state = "answered", !.code = "activated"]
       ELSE [NotAsked EXCEPT !.state = "answered", !.code = "PACK_VALIDATION_FAILED"]]
  /\ ServerKept /\ UNCHANGED <<packOps, reads, starts>>

(* The first part of a catalog request: the kill switch, the cache, or the *)
(* adapter, whose mode and catalog are read at once.                       *)
ReadCatalog(r) ==
  /\ reads[r].state = "none"
  /\ reads' = [reads EXCEPT ![r] =
       CASE ~config.cables -> [NotRead EXCEPT !.state = "disabled", !.floor = shelf.nth]
         [] config.cables /\ cableCache.response # "none" ->
              [NotRead EXCEPT !.state = "answered", !.nth = cableCache.nth, !.floor = shelf.nth]
         [] OTHER -> [state |-> "read", generation |-> cableCache.generation, nth |-> shelf.nth,
                      floor |-> shelf.nth]]
  /\ ServerKept /\ UNCHANGED <<activations, packOps, starts>>

(* The response is kept in the state the request began with, which an      *)
(* activation has put aside.                                               *)
(* Mutant of CachedBy: it is kept in whatever state there is.              *)
CachedByAny(r) == TRUE
CachedBy(r) == reads[r].generation = cableCache.generation

RespondCatalog(r) ==
  /\ reads[r].state = "read"
  /\ reads' = [reads EXCEPT ![r].state = "answered"]
  /\ cableCache' = IF CachedBy(r)
             THEN [cableCache EXCEPT !.response = "catalog", !.nth = reads[r].nth] ELSE cableCache
  /\ UNCHANGED <<config, registry, shelf, mistakes, activations, packOps, starts>>

(* The response has outlived its time.                                     *)
CacheExpires ==
  /\ cableCache.response # "none"
  /\ cableCache' = [cableCache EXCEPT !.response = "none", !.nth = 0]
  /\ UNCHANGED <<config, registry, shelf, mistakes, activations, packOps, reads, starts>>

(* withProviderHealth: an adapter reports.                                 *)
HealthReported(p, health) ==
  /\ Definitions[p].reports /\ p \notin config.off /\ registry[p].mode # "unavailable"
  /\ registry' = [registry EXCEPT ![p].health = health]
  /\ UNCHANGED <<config, shelf, mistakes, cableCache, activations, packOps, reads, starts>>

(* The process starts again: operations under way are in doubt.            *)
RestartServer ==
  /\ starts < MaxStarts /\ starts' = starts + 1
  /\ registry' = ConfiguredRegistry(config)
  /\ shelf' = NoContent /\ mistakes' = {} /\ cableCache' = Fresh
  /\ activations' = [a \in Activators |-> NotAsked]
  /\ reads' = [r \in CableReaders |-> NotRead]
  /\ packOps' = [o \in PackOps |->
       IF packOps[o].state = "reserved" THEN [packOps[o] EXCEPT !.state = "doubt"] ELSE packOps[o]]
  /\ UNCHANGED config

CableNext ==
  \/ \E a \in Activators, human, admitted \in BOOLEAN, p \in Packs, o \in PackOps :
       AskActivation(a, human, p, o, admitted)
  \/ \E a \in Activators :
       \/ \E d \in {{}} \cup {{b} : b \in Downloads} : PackLoaded(a, d)
       \/ SettleFlag(a) \/ AnswerActivation(a)
  \/ \E r \in CableReaders : ReadCatalog(r) \/ RespondCatalog(r)
  \/ CacheExpires
  \/ \E p \in DOMAIN Definitions, h \in {"healthy", "degraded", "unavailable"} : HealthReported(p, h)
  \/ RestartServer

CableSpec == CableInit /\ [][CableNext]_cableVars

CableTypeOK ==
  /\ \A p \in DOMAIN Definitions :
       /\ registry[p].mode \in {"seed", "live", "download_pack", "unavailable"}
       /\ registry[p].health \in {"healthy", "degraded", "unavailable"}
  /\ shelf.pack \in Packs \cup {NoPack} /\ mistakes \subseteq Packs
  /\ \A o \in PackOps : packOps[o].state \in {"free", "reserved", "settled", "doubt"}
  /\ starts \in 0..MaxStarts
-----------------------------------------------------------------------------
(* A pack is served only if it is the one its manifest pinned, whole and   *)
(* valid, and the registry says download pack exactly while one is served; *)
(* a server whose cables are switched off serves none.                     *)
ServedAsPinned ==
  /\ (registry["cables"].mode = "download_pack") <=> (shelf.pack # NoPack)
  /\ shelf.pack # NoPack =>
       /\ config.cables /\ HasPack(shelf.pack)
       /\ \A d \in shelf.content : d.digest = ManifestOf(shelf.pack).digest /\ CatalogValid(d.catalog)

(* Who reads the catalog after an activation sees that pack or a later     *)
(* one, from the cache too.                                                *)
ActivationSeen ==
  /\ \A r \in CableReaders : reads[r].state = "answered" => reads[r].nth >= reads[r].floor
  /\ cableCache.response # "none" => cableCache.nth = shelf.nth

(* An operation that has an answer loaded its pack once: while one is      *)
(* under way nothing else runs on its key, and a pack with a recorded      *)
(* error was not activated since.                                          *)
FlagsRunOnce ==
  /\ \A a, b \in Activators :
       activations[a].state \in {"loading", "handled"} /\ activations[b].state \in {"loading", "handled"}
         /\ activations[a].op = activations[b].op => a = b
  /\ \A a \in Activators :
       activations[a].code = "activated" => packOps[activations[a].op].updated /\ shelf.nth > 0

(* The two health reports agree: while the system is ok every feed that is *)
(* built is healthy, and what is switched off is not counted as active.    *)
ReportsAgree ==
  /\ SystemStatus(registry) = "ok" => RegistryStatus(registry) = "healthy"
  /\ ActiveCount(registry) <= Cardinality({p \in DOMAIN Definitions : p \notin config.off})
  /\ \A p \in config.off : ~IsActiveProvider(registry, p)
  /\ ~config.cables => ~IsActiveProvider(registry, "cables")
  /\ config.requested = "live" /\ ~config.licensed => registry["celestrak"] = Out

(* What the cable packs promise together.                                  *)
PacksTrue == ServedAsPinned /\ ActivationSeen /\ FlagsRunOnce /\ ReportsAgree
=============================================================================
