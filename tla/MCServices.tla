----------------------------- MODULE MCServices -----------------------------
(* The services beside the ledger, which share no state, checked side by   *)
(* side: focus picks one of them in the initial state and only that one    *)
(* moves, so the state space is the union of theirs and not the product.   *)
EXTENDS AuditChain, LayerAccess, SignedApproval, AuditedRoutes, BillableRoutes,
        ExchangeGate, Collaboration, VoiceSession, FeedPipeline, SatelliteCatalog,
        OfficialFeeds, RequestGuards, EvidenceProviders, EvidenceAnalysis, PublicFeeds,
        CablePacks, OperatorStream, AnalysisDesk, TLC

CONSTANTS
  a1, a2, a3,  \* actors: writers, gates, calls, requests, exchanges, sessions
  b1, b2       \* what they work on: keys, operations, rooms, items, a check

VARIABLE focus

MCTrusted == [k \in {"retired", "revoked"} |->
                [status |-> k, from |-> IF k = "retired" THEN 1 ELSE 0, until |-> IF k = "retired" THEN 2 ELSE 9]]

(* Two areas have the same rounded bounds.                                 *)
MCRounded == [a \in {b1, b2, a3} |-> IF a = a3 THEN "far" ELSE "near"]

MCFirsts == [f \in Official |-> CASE f = "alerts" -> 1 [] f = "tropical" -> 3 [] OTHER -> 2]
MCWidth == [f \in Official |-> IF f = "alerts" THEN 1 ELSE 2]
MCSupplied ==
  [kind : {"alert", "taf", "sigmet", "advisory", "metar", "observation"}, from : {0}, to : {1}]
  \cup [kind : {"alert", "prediction"}, from : {1}, to : {2}]

(* An administrator's token that runs out and a viewer's, not valid at once. *)
MCClaims ==
  [t \in Tokens |->
     IF t = "admin"
     THEN [tenant |-> "local", role |-> "platform_admin", actor |-> "human", ours |-> TRUE,
           issued |-> 0, from |-> 0, until |-> 2]
     ELSE [tenant |-> "other", role |-> "viewer", actor |-> "human", ours |-> TRUE,
           issued |-> 0, from |-> 1, until |-> 3]]
MCMounts == {{"upgrade"}, {"voice"}, {"admin", "ops"}, {"layer-access"}}

(* A county and a zip code with records, and a place that does not parse.  *)
County == [level |-> "county", id |-> "48453", coded |-> TRUE]
ZipCode == [level |-> "zcta", id |-> "78701", coded |-> TRUE]
Garbled == [level |-> "county", id |-> "4845", coded |-> FALSE]
MCPlaces == {County, ZipCode, Garbled}
Ev(p, place, code, metric, month, mentions) == [provider |-> p, place |-> place, code |-> code, metric |-> metric, month |-> month, mentions |-> mentions]
MCFixture == <<
  Ev("lau", County, <<>>, "rate", "M07", {"M07"}), Ev("lau", County, <<>>, "count", "M06", {"M06", "M07"}),
  Ev("lau", County, <<>>, "count", "M07", {"M07"}),
  Ev("oews", County, <<5, 4>>, "count", "M05", {"M05"}),
  Ev("acs", ZipCode, <<>>, "count", "M05", {"M05"}), Ev("cbp", ZipCode, <<5>>, "count", "M05", {"M05"}),
  Ev("cbp", ZipCode, <<5, 4, 1>>, "count", "M05", {"M05"}), Ev("cbp", ZipCode, <<7>>, "count", "M05", {"M05"}),
  Ev("cbp", ZipCode, <<>>, "count", "M05", {"M05"}), Ev("nri", County, <<>>, "count", "M05", {"M05"})>>
Fl(zone, shaded, bfe, over) == [zone |-> zone, shaded |-> shaded, sfha |-> zone = "AE", floodway |-> FALSE, bfe |-> bfe, over |-> over]
MCFloodMaps == {<<Fl("X", FALSE, -1, {1}), Fl("D", FALSE, -1, {1, 2}), Fl("X", FALSE, -1, {2})>>,
  <<Fl("AE", FALSE, 3, {1}), Fl("X", TRUE, -1, {1, 2}), Fl("AE", FALSE, 2, {2}), Fl("NA", FALSE, -1, {2})>>}
Pt(x, y, off, m) == [x |-> x, y |-> y, off |-> off, meters |-> m]
MCHeights == {<<Pt(0, 0, FALSE, 5), Pt(2, 0, TRUE, 0)>>, <<Pt(1, 0, TRUE, 0), Pt(0, 0, FALSE, -3), Pt(4, 0, FALSE, 2)>>}
MCSpots == {[x |-> n, y |-> 0] : n \in 0..4}
MCRaws == [kind : {"number"}, value : {-9, -3, 0, 4}] \cup [kind : {"missing"}, value : {0}]

(* What the analyses are asked: estimates with a value, suppressed, missing *)
(* and without a record.                                                   *)
Known == Estimates \cup {NoRecord}
MCMarkets ==
  [pop : Known, estabs : Known, emp : {Available(1)}, pay : {Missing},
   mapped : BOOLEAN, density : {2}, pois : {0, 3}, expects : BOOLEAN, expected : {1, 2}]
  \cup [pop : {NoRecord}, estabs : {NoRecord}, emp : Known, pay : Known,
        mapped : {FALSE}, density : {0}, pois : {0}, expects : {FALSE}, expected : {0}]
MCContests ==
  [sizes : {<<>>, <<1, 1>>, <<7, 1, 1, 1>>, <<2, 2, 1, 1, 1>>, <<0, 0>>}, pois : 0..7, area : {0, 1}, total : {7},
   estabs : {Available(3), Suppressed("disclosure"), NoRecord}, first : {Available(1), NoRecord}]
MCComparisons == [values : {v \in BoundedSeq(Known, 3) : v # <<>>}, bench : {1}]
MCWorkforces ==
  [hourly : Known, annual : {NoRecord, Available(1), Suppressed("disclosure")},
   top : {Missing, Available(0), Available(3), Available(5), Available(9), Suppressed("quality")},
   rate : {NoRecord}, employed : {NoRecord}, median : {NoRecord}, bench : {NoRecord},
   counts : {<<>>}, soc : {NoRecord}, nation : {<<NoRecord, NoRecord>>}]
  \cup [hourly : {NoRecord}, annual : {NoRecord}, top : {NoRecord},
   rate : {NoRecord} \cup {Available(n) : n \in {3, 5, 7, 9}}, employed : {NoRecord, Available(1)},
   median : {NoRecord, Available(1)}, bench : {NoRecord, Available(1), Available(3)},
   counts : {<<>>, <<Available(1)>>, <<Missing, Available(3)>>, <<Available(3), Suppressed("disclosure"), Available(1)>>},
   soc : {Available(1), Suppressed("disclosure"), NoRecord}, nation : {<<Available(1), Available(4)>>}]
Travis == "48453"
Geo(level, id, state, county, coded) == [level |-> level, id |-> id, state |-> state, county |-> county, coded |-> coded]
MCRecords == {Geo("county", Travis, "48", Travis, TRUE), Geo("county", "48491", "48", "48491", FALSE),
  Geo("county", "06001", "06", "06001", TRUE), Geo("state", "48", "48", "none", TRUE), Geo("state", "06", "06", "none", TRUE),
  Geo("tract", "t1", "48", Travis, TRUE), Geo("zcta", "78701", "48", Travis, FALSE), Geo("point", "p", "none", "none", FALSE),
  Geo("nation", "US", "none", "none", FALSE)}

MCPreviews ==
  [found : [{"income", "establishments", "employment", "wage"} -> {Available(1), Available(0), Suppressed("disclosure"), NoRecord}],
   mapped : {TRUE}]
  \cup [found : [{"employment"} -> Known], mapped : {FALSE}]
El(amenity, shop, commercial, office, placed) ==
  [amenity |-> amenity, shop |-> shop, commercial |-> commercial, office |-> office, placed |-> placed,
   tagged |-> TRUE, healthcare |-> FALSE, craft |-> FALSE, tourism |-> "none"]
MCElements == {El("food", "other", "none", FALSE, TRUE), El("service", "other", "none", TRUE, TRUE),
  El("other", "none", "office", FALSE, TRUE), El("none", "none", "none", FALSE, TRUE),
  El("health", "none", "none", TRUE, FALSE)}

(* Publications that drop, move, add and misplace records, and a fixture.  *)
Rec(id, at, size) == [id |-> id, at |-> at, size |-> size]
MCPublished ==
  0 :> {Rec("a", 1, 2), Rec("b", 2, 0)} @@ 1 :> {Rec("a", 1, 0), Rec("c", 0, 1), Rec("d", 2, 2)}
  @@ 2 :> {Rec("b", 2, 1), Rec("e", 9, 2)} @@ 3 :> {Rec("b", 2, 1), Rec("a", 1, 1)}
MCRecorded == {Rec("a", 1, 1), Rec("d", 2, 2)}
MCMapQueries ==
  [excessive : BOOLEAN, own : {"none", "own"}, default : {1, 3}, seconds : {0, 2, 9},
   boxes : {<<>>, <<[name |-> "one", span |-> "small"]>>,
            <<[name |-> "one", span |-> "small"], [name |-> "two", span |-> "wide"]>>}]

(* A place in Texas, one elsewhere and a namesake, and what a caller brings. *)
Place(level, within, namesake) == [level |-> level, within |-> within, namesake |-> namesake]
MCGeographies == {Place("county", "Texas", FALSE), Place("county", "elsewhere", FALSE),
  Place("place", "elsewhere", TRUE), Place("zcta", "Travis", FALSE), Place("state", "Texas", FALSE)}
MCGivens == {{}, {"acs", "oews"}, {"cbp", "lau", "footprint"}}

(* Packs as pinned, misdirected or named twice, and what their address sends. *)
Route(id, ends, segments, coordinates) == [id |-> id, ends |-> ends, segments |-> segments, coordinates |-> coordinates]
Chart(landings, routes) == [landings |-> landings, routes |-> routes]
MCDefinitions ==
  [p \in {"cables", "celestrak", "cctv", "nowcoast"} |->
     CASE p = "cables" -> [built |-> "implemented", modes |-> {"seed", "download_pack"}, feeds |-> {TRUE}, reports |-> FALSE]
       [] p = "celestrak" -> [built |-> "implemented", modes |-> {"seed", "live"}, feeds |-> {TRUE}, reports |-> TRUE]
       [] p = "cctv" -> [built |-> "implemented", modes |-> {"seed"}, feeds |-> {TRUE}, reports |-> FALSE]
       [] OTHER -> [built |-> "planned", modes |-> {"seed", "live"}, feeds |-> {FALSE}, reports |-> FALSE]]
Manifest(pack, https) == [pack |-> pack, digest |-> "ours", most |-> 2, https |-> https, host |-> TRUE, prefix |-> TRUE]
Config(requested, off, cables, manifests) ==
  [requested |-> requested, licensed |-> FALSE, off |-> off, cables |-> cables, manifests |-> manifests]
MCConfigs ==
  {Config("seed", {"celestrak"}, TRUE, <<Manifest(b1, TRUE), Manifest(b2, TRUE)>>),
   Config("seed", {}, TRUE, <<>>),
   Config("live", {}, TRUE, <<Manifest(b1, TRUE)>>), Config("seed", {}, FALSE, <<>>),
   Config("seed", {}, TRUE, <<Manifest(b1, FALSE)>>),
   Config("seed", {}, TRUE, <<Manifest(b1, TRUE), Manifest(b1, TRUE)>>)}
Good == Chart(<<"l1", "l2">>, <<Route("r1", {"l1", "l2"}, 1, 3), Route("r2", {"l2"}, 1, 2)>>)
Long == Chart(<<"l1">>, <<Route("r1", {"l1"}, 2, 3), Route("r2", {"l1"}, 1, 2)>>)
Twice == Chart(<<"l1", "l1">>, <<Route("r1", {"l1"}, 1, 2)>>)
Astray == Chart(<<"l1">>, <<Route("r1", {"l3"}, 1, 2)>>)
MCDownloads ==
  [digest : {"ours"}, size : {1, 3}, catalog : {Good}]
  \cup [digest : {"ours"}, size : {2}, catalog : {Long, Twice, Astray}]
  \cup {[digest |-> "other", size |-> 1, catalog |-> Good]}

serverVars == <<auditChainVars, layerVars, approvalVars, routeVars, billableVars, gateVars, guardVars>>
clientVars == <<collabVars, voiceVars, feedVars>>
sourceVars == <<catalogVars, officialVars, evidenceVars, analysisVars, publicVars, cableVars>>
operatorVars == <<streamVars, deskVars>>

ServicesInit ==
  /\ focus \in {"audit chain", "layer access", "approval", "routes", "billable",
                "gate", "collaboration", "voice", "feeds", "catalog", "official", "guards",
                "evidence", "analysis", "public", "cables", "stream", "desk"}
  /\ AuditChainInit /\ (focus # "audit chain" => db = Migrated(0))
  /\ LayerInit /\ (focus # "layer access" => validator)
  /\ ApprovalInit /\ RoutesInit
  /\ BillableInit /\ (focus # "billable" => metered)
  /\ GateInit
  /\ GuardInit /\ (focus # "guards" => setup = "open" /\ mounted = {"voice"})
  /\ CollabInit /\ VoiceInit
  /\ FeedInit /\ (focus # "feeds" => feed = "flights" /\ visible)
  /\ CatalogInit /\ (focus # "catalog" => orbitMode = "live")
  /\ OfficialInit /\ (focus # "official" => official = "alerts" /\ permitted)
  /\ EvidenceInit
  /\ (focus # "evidence" => source = "osm" /\ desk = [enabled |-> TRUE, seed |-> TRUE, live |-> FALSE])
  /\ AnalysisInit
  /\ PublicInit /\ (focus # "public" => playback)
  /\ CableInit /\ (focus # "cables" => config = CHOOSE c \in Configs : ~c.cables)
  /\ StreamInit /\ DeskInit

ServerNext ==
  \/ /\ focus = "audit chain" /\ AuditChainNext
     /\ UNCHANGED <<layerVars, approvalVars, routeVars, billableVars, gateVars, guardVars>>
  \/ /\ focus = "layer access" /\ LayerNext
     /\ UNCHANGED <<auditChainVars, approvalVars, routeVars, billableVars, gateVars, guardVars>>
  \/ /\ focus = "approval" /\ ApprovalNext
     /\ UNCHANGED <<auditChainVars, layerVars, routeVars, billableVars, gateVars, guardVars>>
  \/ /\ focus = "routes" /\ RoutesNext
     /\ UNCHANGED <<auditChainVars, layerVars, approvalVars, billableVars, gateVars, guardVars>>
  \/ /\ focus = "billable" /\ BillableNext
     /\ UNCHANGED <<auditChainVars, layerVars, approvalVars, routeVars, gateVars, guardVars>>
  \/ /\ focus = "gate" /\ GateNext
     /\ UNCHANGED <<auditChainVars, layerVars, approvalVars, routeVars, billableVars, guardVars>>
  \/ /\ focus = "guards" /\ GuardNext
     /\ UNCHANGED <<auditChainVars, layerVars, approvalVars, routeVars, billableVars, gateVars>>

ClientNext ==
  \/ focus = "collaboration" /\ CollabNext /\ UNCHANGED <<voiceVars, feedVars>>
  \/ focus = "voice" /\ VoiceNext /\ UNCHANGED <<collabVars, feedVars>>
  \/ focus = "feeds" /\ FeedNext /\ UNCHANGED <<collabVars, voiceVars>>

SourceNext ==
  \/ /\ focus = "catalog" /\ CatalogNext
     /\ UNCHANGED <<officialVars, evidenceVars, analysisVars, publicVars, cableVars>>
  \/ /\ focus = "official" /\ OfficialNext
     /\ UNCHANGED <<catalogVars, evidenceVars, analysisVars, publicVars, cableVars>>
  \/ /\ focus = "evidence" /\ EvidenceNext
     /\ UNCHANGED <<catalogVars, officialVars, analysisVars, publicVars, cableVars>>
  \/ /\ focus = "analysis" /\ AnalysisNext
     /\ UNCHANGED <<catalogVars, officialVars, evidenceVars, publicVars, cableVars>>
  \/ /\ focus = "public" /\ PublicNext
     /\ UNCHANGED <<catalogVars, officialVars, evidenceVars, analysisVars, cableVars>>
  \/ /\ focus = "cables" /\ CableNext
     /\ UNCHANGED <<catalogVars, officialVars, evidenceVars, analysisVars, publicVars>>

OperatorNext ==
  \/ focus = "stream" /\ StreamNext /\ UNCHANGED deskVars
  \/ focus = "desk" /\ DeskNext /\ UNCHANGED streamVars

ServicesNext ==
  \/ ServerNext /\ UNCHANGED <<focus, clientVars, sourceVars, operatorVars>>
  \/ ClientNext /\ UNCHANGED <<focus, serverVars, sourceVars, operatorVars>>
  \/ SourceNext /\ UNCHANGED <<focus, serverVars, clientVars, operatorVars>>
  \/ OperatorNext /\ UNCHANGED <<focus, serverVars, clientVars, sourceVars>>

servicesVars == <<focus, serverVars, clientVars, sourceVars, operatorVars>>

ServicesSpec == ServicesInit /\ [][ServicesNext]_servicesVars

(* The type invariant of the service that moves; the others stay at their  *)
(* initial values.                                                         *)
ServicesTypeOK ==
  CASE focus = "audit chain"   -> AuditTypeOK
    [] focus = "layer access"  -> LayerTypeOK
    [] focus = "approval"      -> ApprovalTypeOK
    [] focus = "routes"        -> RoutesTypeOK
    [] focus = "billable"      -> BillableTypeOK
    [] focus = "gate"          -> GateTypeOK
    [] focus = "collaboration" -> CollabTypeOK
    [] focus = "voice"         -> VoiceTypeOK
    [] focus = "feeds"         -> FeedTypeOK
    [] focus = "catalog"       -> CatalogTypeOK
    [] focus = "official"      -> OfficialTypeOK
    [] focus = "guards"        -> GuardTypeOK
    [] focus = "evidence"      -> EvidenceTypeOK
    [] focus = "analysis"      -> AnalysisTypeOK
    [] focus = "public"        -> PublicTypeOK
    [] focus = "cables"        -> CableTypeOK
    [] focus = "stream"        -> StreamTypeOK
    [] focus = "desk"          -> DeskTypeOK

(* Actors are interchangeable, and what they work on is.  The services     *)
(* share the values, since only one of them moves.                         *)
ServicesSymmetry == Permutations({a1, a2}) \cup Permutations({b1, b2})

(* What is answered is what it claims to be: data within its age, current  *)
(* when answered and asked for only where that is allowed (satellites.ts,  *)
(* the official and public feeds, the evidence providers), analyses that   *)
(* claim no more than their evidence (packages/economic, the analysis      *)
(* routes), cable packs as pinned (cables.ts, registry.ts) and an audit    *)
(* stream in the log's order (auditStream.ts).                             *)
SourcesHonest ==
  /\ CatalogHonest /\ OfficialHonest /\ EvidenceHonest /\ AnalysesSound
  /\ FeedsTrue /\ PacksTrue /\ WatchedTrue /\ DeskTrue

=============================================================================
