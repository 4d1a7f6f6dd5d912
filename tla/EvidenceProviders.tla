-------------------------- MODULE EvidenceProviders --------------------------
(***************************************************************************)
(* The statistical evidence providers (packages/providers: blsLau.ts,      *)
(* blsOews.ts, censusAcs.ts, censusCbpZbp.ts, femaNri.ts, femaNfhl.ts,     *)
(* usgs3dep.ts, osmCommercial.ts).  Each has a kill switch, a seed mode    *)
(* that answers from a validated fixture read once, and a live mode that   *)
(* an operator must allow.  The commercial map provider also caches its    *)
(* answers and spaces its live requests, while others are in flight.       *)
(*                                                                         *)
(* A record is its provider, its place and what it measures; an elevation  *)
(* is a small integer, and a foot is a whole fraction of a meter.          *)
(***************************************************************************)
EXTENDS Integers, Sequences, FiniteSets, SequencesExt, FiniteSetsExt, Selections

CONSTANTS
  Fixture,      \* the evidence records of the seed fixtures, in their order
  Places,       \* geographies that may be asked for
  FloodMaps,    \* the flood fixtures a deployment may have
  Heights,      \* the elevation fixtures a deployment may have
  Spots,        \* coordinates that may be asked for
  Radius,       \* how near a fixture's point must be
  Raws,         \* what the elevation service may send
  Callees,      \* concurrent callers of the commercial map
  Boxes,        \* its areas
  BoxTtl,       \* cacheTtlMs
  Spacing,      \* minRequestIntervalMs
  LastMinute    \* bound on the clock

Statistics == {"lau", "oews", "acs", "cbp", "nri"}
EvidenceKinds == Statistics \cup {"nfhl", "3dep", "osm"}
FeetPerMeter == 3
OffCoverage == -9
NoBase == -1     \* no base flood elevation
Baseline == 2    \* the least horizontal distance of a slope

ASSUME EvidenceAssumption ==
  /\ {BoxTtl, Spacing, LastMinute, Radius} \subseteq Nat /\ Spacing <= LastMinute
  /\ Fixture \in Seq(ToSet(Fixture))
  /\ \A r \in ToSet(Fixture) :
       r.provider \in Statistics /\ r.month \in r.mentions /\ r.code \in Seq(Nat)
  /\ \A q \in FloodMaps : q \in Seq(ToSet(q)) /\ \A f \in ToSet(q) : f.bfe \in Int
  /\ \A q \in Heights : q \in Seq([x : Int, y : Int, off : BOOLEAN, meters : Int])
                      /\ \A p \in ToSet(q) : p.meters > OffCoverage
  /\ Spots \subseteq [x : Int, y : Int]
  /\ \A raw \in Raws : raw.value \in Int

VARIABLES
  source,       \* the provider this behaviour is of
  desk,         \* its switches: enabled, seedMode, allowLiveCalls
  floods, heights, \* the fixtures of the flood and elevation providers
  minute,       \* the clock
  cached,       \* commercial map: area -> its cached answer
  lastLive,     \* commercial map: lastLiveCallTimestampMs
  calling,      \* caller -> its call of the commercial map
  dispatched,   \* history: the live requests of the commercial map
  told          \* the last question and its answer

setting == <<source, desk, floods, heights>>
mapVars == <<minute, cached, lastLive, calling, dispatched>>
evidenceVars == <<setting, mapVars, told>>

NoCall == [at |-> "idle", box |-> "none", asked |-> 0, due |-> 0]
Silence == [q |-> "nothing", kind |-> "none", records |-> <<>>, wire |-> FALSE]

EvidenceInit ==
  /\ source \in EvidenceKinds
  /\ desk \in [enabled : BOOLEAN, seed : BOOLEAN, live : BOOLEAN]
  /\ floods \in IF source = "nfhl" THEN FloodMaps ELSE {<<>>}
  /\ heights \in IF source = "3dep" THEN Heights ELSE {<<>>}
  /\ minute = Spacing /\ lastLive = 0
  /\ cached = [b \in Boxes |-> [at |-> -1, live |-> FALSE]]
  /\ calling = [c \in Callees |-> NoCall]
  /\ dispatched = <<>>
  /\ told = Silence

(* What is checked of a query, in this order, before it is answered.       *)
Examined(p) ==
  CASE p = "lau"  -> <<"personal_data", "geography", "too_many">>
    [] p = "oews" -> <<"personal_data", "geography", "code", "too_many">>
    [] p = "acs"  -> <<"no_variables", "geography", "vintage">>
    [] p = "cbp"  -> <<"geography", "code", "vintage">>
    [] p = "nri"  -> <<"geography">>
    [] OTHER      -> <<"malformed">>

Levels(p) ==
  CASE p \in {"lau", "oews"} -> {"county", "cbsa", "state", "nation"}
    [] p = "acs" -> {"county", "tract", "zcta", "place", "state", "nation"}
    [] p = "cbp" -> {"county", "zcta", "cbsa", "state", "nation"}
    [] OTHER     -> {"county", "tract", "state"}

(* A level of another provider or codes that do not parse are refused; the *)
(* risk index looks at the level alone.                                    *)
GoodPlace(p, place) == place.level \in Levels(p) /\ (place.coded \/ p = "nri")

Violates(p, q, check) ==
  CASE check = "geography"    -> ~GoodPlace(p, q.place)
    [] check = "no_variables" -> q.metrics = {}
    [] OTHER                  -> check \in q.faults

QueryChecks == {"personal_data", "geography", "code", "too_many", "no_variables", "vintage", "malformed"}

(* The first check that fails, or none.                                    *)
Refusal(p, q) ==
  LET failed == {i \in DOMAIN Examined(p) : Violates(p, q, Examined(p)[i])}
  IN IF failed = {} THEN "none" ELSE Examined(p)[Min(failed)]

(* An occupation matches exactly; an industry matches its sectors and the  *)
(* industries below it; a record without a code matches neither.           *)
OfCode(p, q, r) ==
  \/ q.code = <<>>
  \/ p = "oews" /\ r.code = q.code
  \/ /\ p = "cbp" /\ r.code # <<>>
     /\ IsPrefix(q.code, r.code) \/ IsPrefix(r.code, q.code)
  \/ p \notin {"oews", "cbp"}

(* A month or a year is looked for in the record's period, its vintage and *)
(* anywhere in its identifier.                                             *)
Wanted(p, q, r) ==
  /\ r.provider = p /\ r.place = q.place
  /\ OfCode(p, q, r)
  /\ p = "lau" => q.when \subseteq r.mentions
  /\ q.metrics = {} \/ r.metric \in q.metrics

Select(p, q) == Staying(Fixture, {i \in DOMAIN Fixture : Wanted(p, q, Fixture[i])})

Say(q, kind, records, wire) ==
  told' = [q |-> q, kind |-> kind, records |-> records, wire |-> wire]

(* Outside seed mode the four bureaus' adapters throw even where live      *)
(* calls are allowed, and the two FEMA ones fetch and answer nothing.      *)
Live(q, answer) ==
  \/ ~desk.live /\ Say(q, "seed_mode", <<>>, FALSE)
  \/ desk.live /\ source \in Statistics \ {"nri"} /\ Say(q, "unauthorized", <<>>, FALSE)
  \/ /\ desk.live /\ source \in {"nri", "nfhl"}
     /\ \E k \in {answer, "failed"} : Say(q, k, <<>>, TRUE)

(* query and the conveniences that call it with a code or metrics.         *)
Query(q) ==
  /\ source \in Statistics
  /\ \/ ~desk.enabled /\ Say(q, "disabled", <<>>, FALSE)
     \/ desk.enabled /\ Refusal(source, q) # "none" /\ Say(q, Refusal(source, q), <<>>, FALSE)
     \/ /\ desk.enabled /\ Refusal(source, q) = "none"
        /\ IF desk.seed THEN Say(q, "records", Select(source, q), FALSE) ELSE Live(q, "records")
  /\ UNCHANGED <<setting, mapVars>>

(* getEvidenceByGeography reads the fixture in either mode.                *)
ByGeography(place) ==
  LET q == [place |-> place, code |-> <<>>, metrics |-> {}, when |-> {}, faults |-> {}] IN
  /\ source \in Statistics
  /\ \/ ~desk.enabled /\ Say(q, "disabled", <<>>, FALSE)
     \/ desk.enabled /\ ~GoodPlace(source, place) /\ Say(q, "geography", <<>>, FALSE)
     \/ desk.enabled /\ GoodPlace(source, place) /\ Say(q, "of_place", Select(source, q), FALSE)
  /\ UNCHANGED <<setting, mapVars>>
-----------------------------------------------------------------------------
(* The flood hazard layer: zones, their classes and the summary of those   *)
(* that meet an area.                                                      *)
Classify(f) ==
  CASE f.zone \in {"A", "AE", "AO", "VE"}                  -> "high"
    [] f.zone = "B" \/ (f.zone = "X" /\ f.shaded)         -> "moderate"
    [] f.zone = "C" \/ (f.zone = "X" /\ ~f.shaded)        -> "minimal"
    [] f.zone = "D"                                        -> "undetermined"
    [] OTHER                                               -> "unknown"

NoFlood == [zone |-> "X", class |-> "minimal", sfha |-> FALSE, floodway |-> FALSE, bfe |-> NoBase]

Outranks(class, over) ==
  \/ class = "high"
  \/ class = "moderate" /\ over # "high"
  \/ class = "undetermined" /\ over \notin {"high", "moderate"}

FoldFlood(s, f) ==
  [zone |-> IF Outranks(Classify(f), s.class) THEN f.zone ELSE s.zone,
   class |-> IF Outranks(Classify(f), s.class) THEN Classify(f) ELSE s.class,
   sfha |-> s.sfha \/ f.sfha,
   floodway |-> s.floodway \/ f.floodway,
   bfe |-> IF f.bfe > s.bfe THEN f.bfe ELSE s.bfe]

FloodSummary(features) ==
  LET upTo[n \in 0..Len(features)] ==
        IF n = 0 THEN NoFlood ELSE FoldFlood(upTo[n - 1], features[n])
  IN upTo[Len(features)]

(* A point or a box is met by the bounding boxes; a geography is the whole *)
(* fixture in the one county it covers and nothing elsewhere.              *)
FloodsOf(q) ==
  CASE q.by = "area" -> Staying(floods, {i \in DOMAIN floods : floods[i].over \cap q.cells # {}})
    [] q.by = "geography" -> IF q.covered THEN floods ELSE <<>>
    [] OTHER -> floods

FloodQuery(q) ==
  /\ source = "nfhl"
  /\ \/ ~desk.enabled /\ Say(q, "disabled", <<>>, FALSE)
     \/ desk.enabled /\ desk.seed /\ Say(q, "floods", FloodsOf(q), FALSE)
     \/ desk.enabled /\ ~desk.seed /\ Live(q, "floods")
  /\ UNCHANGED <<setting, mapVars>>
-----------------------------------------------------------------------------
(* Elevation: estimates in meters and feet, off coverage never a number.   *)
NoHeight == [status |-> "unavailable", value |-> 0]
Meters(v) == [status |-> "available", value |-> v]
ToUnit(e, unit) ==
  IF e.status = "available" /\ unit = "Feet" THEN [e EXCEPT !.value = @ * FeetPerMeter] ELSE e

Distance(p, s) == LET dx == p.x - s.x  dy == p.y - s.y IN dx * dx + dy * dy

(* The point itself, or the first of the nearest within the radius.        *)
Nearest(s) ==
  LET near == {i \in DOMAIN heights : Distance(heights[i], s) < Radius * Radius}
      least == CHOOSE d \in {Distance(heights[i], s) : i \in near} :
                 \A i \in near : d <= Distance(heights[i], s)
  IN IF near = {} THEN {} ELSE {Min({i \in near : Distance(heights[i], s) = least})}

SeedHeight(s) ==
  IF \E i \in Nearest(s) : ~heights[i].off
  THEN Meters(heights[CHOOSE i \in Nearest(s) : TRUE].meters) ELSE NoHeight

(* The service's answer is a number or not; the sentinel is off coverage.  *)
RawHeight(raw) ==
  IF raw.kind = "number" /\ raw.value > OffCoverage THEN Meters(raw.value) ELSE NoHeight

(* What a coordinate may be answered: the fixture's, or any the service    *)
(* sends where live calls are allowed.                                     *)
HeightsOf(s) == IF desk.seed THEN {SeedHeight(s)} ELSE {RawHeight(raw) : raw \in Raws}

(* Slope needs both ends and a distance between them that the height of a  *)
(* step of the elevation model does not drown in.                          *)
Slope(e1, e2, distance) ==
  IF e1.status # "available" \/ e2.status # "available" THEN NoHeight
  ELSE CASE distance = 0 -> [status |-> "not_applicable", value |-> 0]
         [] distance \in 1..(Baseline * Baseline - 1) -> NoHeight
         [] OTHER -> Meters(IF e1.value > e2.value THEN e1.value - e2.value ELSE e2.value - e1.value)

(* A coordinate that is refused fails both its height and its slope.       *)
Refused3dep(q) ==
  \/ ~desk.enabled /\ Say(q, "disabled", <<>>, FALSE)
  \/ desk.enabled /\ ~desk.seed /\ ~desk.live /\ Say(q, "seed_mode", <<>>, FALSE)

HeightQuery(s, unit) ==
  LET q == [spot |-> s, unit |-> unit] IN
  /\ source = "3dep"
  /\ \/ Refused3dep(q)
     \/ /\ desk.enabled /\ (desk.seed \/ desk.live)
        /\ \E e \in HeightsOf(s) : Say(q, "height", <<ToUnit(e, unit), e>>, ~desk.seed)
  /\ UNCHANGED <<setting, mapVars>>

SlopeQuery(s1, s2) ==
  LET q == [spot |-> s1, unit |-> "slope"] IN
  /\ source = "3dep"
  /\ \/ Refused3dep(q)
     \/ /\ desk.enabled /\ (desk.seed \/ desk.live)
        /\ \E e1 \in HeightsOf(s1), e2 \in HeightsOf(s2) :
             Say(q, "slope", <<Slope(e1, e2, Distance(s1, s2)), e1, e2>>, ~desk.seed)
  /\ UNCHANGED <<setting, mapVars>>
-----------------------------------------------------------------------------
(* The commercial map: a cache over a throttled live request.              *)
Usable(b) == cached[b].at >= 0 /\ minute - cached[b].at < BoxTtl

(* When a live request may go: at once, or after the rest of the interval  *)
(* since the last one sent when this one was asked for.  DueAtOnce is the  *)
(* mutant that drops the wait.                                             *)
DueAtOnce == minute
Due == IF minute - lastLive < Spacing THEN lastLive + Spacing ELSE minute

FromMapCache(b) ==
  /\ Usable(b)
  /\ Say(b, "cached", <<cached[b]>>, FALSE)
  /\ UNCHANGED <<cached, lastLive, calling, dispatched>>

FromMapSeed(b) ==
  /\ ~Usable(b) /\ desk.seed
  /\ cached' = [cached EXCEPT ![b] = [at |-> minute, live |-> FALSE]]
  /\ Say(b, "fresh", <<cached'[b]>>, FALSE)
  /\ UNCHANGED <<lastLive, calling, dispatched>>

(* A request that need not wait is sent within the call.                   *)
AskMap(c, b) ==
  /\ ~Usable(b) /\ ~desk.seed /\ desk.live
  /\ calling' = [calling EXCEPT ![c] =
       [at |-> IF Due = minute THEN "sent" ELSE "waiting", box |-> b, asked |-> minute, due |-> Due]]
  /\ IF Due = minute
     THEN lastLive' = minute /\ dispatched' = Append(dispatched, [asked |-> minute, at |-> minute])
     ELSE UNCHANGED <<lastLive, dispatched>>
  /\ UNCHANGED <<cached, told>>

CallMap(c, b) ==
  /\ source = "osm" /\ calling[c].at = "idle"
  /\ \/ /\ ~desk.enabled /\ Say(b, "disabled", <<>>, FALSE)
        /\ UNCHANGED <<cached, lastLive, calling, dispatched>>
     \/ desk.enabled /\ FromMapCache(b)
     \/ desk.enabled /\ FromMapSeed(b)
     \/ desk.enabled /\ AskMap(c, b)
     \/ /\ desk.enabled /\ ~Usable(b) /\ ~desk.seed /\ ~desk.live
        /\ Say(b, "seed_mode", <<>>, FALSE)
        /\ UNCHANGED <<cached, lastLive, calling, dispatched>>
  /\ UNCHANGED <<setting, minute>>

(* The timer of a waiting request fires; nothing is looked at again.       *)
SendMap(c) ==
  /\ calling[c].at = "waiting" /\ minute >= calling[c].due
  /\ lastLive' = minute
  /\ dispatched' = Append(dispatched, [asked |-> calling[c].asked, at |-> minute])
  /\ calling' = [calling EXCEPT ![c].at = "sent"]
  /\ UNCHANGED <<setting, minute, cached, told>>

(* The answer is cached as of its arrival; an error leaves the cache.      *)
MapAnswers(c) ==
  LET b == calling[c].box IN
  /\ calling[c].at = "sent"
  /\ \/ /\ cached' = [cached EXCEPT ![b] = [at |-> minute, live |-> TRUE]]
        /\ Say(b, "fresh", <<cached'[b]>>, TRUE)
     \/ Say(b, "failed", <<>>, TRUE) /\ UNCHANGED cached
  /\ calling' = [calling EXCEPT ![c] = NoCall]
  /\ UNCHANGED <<setting, minute, lastLive, dispatched>>

(* What was told is looked at before the clock moves on.                   *)
MinutePasses ==
  /\ source = "osm"
  /\ minute < LastMinute /\ minute' = minute + 1
  /\ told' = Silence
  /\ UNCHANGED <<setting, cached, lastLive, calling, dispatched>>
-----------------------------------------------------------------------------
Queries ==
  [place : Places, code : {<<>>, <<5>>, <<5, 4>>}, metrics : {{}, {"count"}}, when : {{}, {"M07"}},
   faults : {{}, {"personal_data"}, {"code", "vintage"}, {"too_many"}}]
FloodQueries ==
  [by : {"area"}, cells : {{1}, {2}, {1, 2}}, covered : {FALSE}]
  \cup [by : {"geography"}, cells : {{}}, covered : BOOLEAN]

EvidenceNext ==
  \/ told = Silence /\ \E q \in Queries : Query(q)
  \/ told = Silence /\ \E p \in Places : ByGeography(p)
  \/ told = Silence /\ \E q \in FloodQueries : FloodQuery(q)
  \/ told = Silence /\ \E s \in Spots, u \in {"Meters", "Feet"} : HeightQuery(s, u)
  \/ told = Silence /\ \E s1, s2 \in Spots : SlopeQuery(s1, s2)
  \/ \E c \in Callees, b \in Boxes : CallMap(c, b)
  \/ \E c \in Callees : SendMap(c) \/ MapAnswers(c)
  \/ MinutePasses

EvidenceSpec == EvidenceInit /\ [][EvidenceNext]_evidenceVars

Tellings ==
  QueryChecks \cup {"none", "disabled", "seed_mode", "unauthorized", "failed", "records",
                   "of_place", "floods", "height", "slope", "cached", "fresh"}

EvidenceTypeOK ==
  /\ source \in EvidenceKinds
  /\ desk \in [enabled : BOOLEAN, seed : BOOLEAN, live : BOOLEAN]
  /\ minute \in Spacing..LastMinute /\ lastLive \in 0..minute
  /\ cached \in [Boxes -> [at : -1..minute, live : BOOLEAN]]
  /\ \A c \in Callees : calling[c].at \in {"idle", "waiting", "sent"}
  /\ told.kind \in Tellings /\ told.wire \in BOOLEAN

(* A disabled provider answers nothing, a query that fails a check is      *)
(* answered by that refusal alone, no request leaves in seed mode or       *)
(* without permission, and what a query is answered with from the fixture  *)
(* is answered in seed mode only.                                          *)
DeskKept ==
  /\ told.wire => (desk.enabled /\ ~desk.seed /\ desk.live)
  /\ (told.kind # "none" /\ ~desk.enabled) => told.kind = "disabled"
  /\ (told.kind = "records" /\ told.records # <<>>) => desk.seed
  /\ told.kind \in {"records", "of_place"} =>
       /\ (source = "lau") => ({"too_many", "personal_data"} \cap told.q.faults = {})
       /\ (source = "cbp") => ({"code", "vintage"} \cap told.q.faults = {})
       /\ (told.q.place.level = "zcta") => source \in {"acs", "cbp"}
       /\ ~told.q.place.coded => source = "nri"

(* A record is told only of its own place and provider, of the industry    *)
(* asked for or one that contains or is contained in it, and no record of  *)
(* the month asked for is left out.                                        *)
RecordsAsked ==
  told.kind = "records" =>
    /\ \A i \in DOMAIN told.records : LET r == told.records[i] IN
         /\ r.provider = source /\ r.place = told.q.place
         /\ (source = "cbp" /\ told.q.code # <<>>) =>
              (r.code # <<>> /\ r.code[1] = told.q.code[1])
    /\ (desk.seed /\ told.q.code = <<>>) =>
         \A i \in DOMAIN Fixture : LET r == Fixture[i] IN
           (/\ r.provider = source /\ r.place = told.q.place
            /\ told.q.when \subseteq {r.month}
            /\ told.q.metrics = {} \/ r.metric \in told.q.metrics)
           => r \in ToSet(told.records)

(* A flood summary is of the worst class present, an undetermined zone     *)
(* among minimal ones is never minimal, its zone is of that class and its  *)
(* base flood elevation the highest (femaNfhl.ts getFloodSummary).         *)
FloodsTrue ==
  told.kind = "floods" =>
    LET s == FloodSummary(told.records)
        classes == {Classify(told.records[i]) : i \in DOMAIN told.records}
    IN /\ ("high" \in classes) => s.class = "high"
       /\ ("high" \notin classes /\ "moderate" \in classes) => s.class = "moderate"
       /\ (s.class = "minimal") => classes \subseteq {"minimal", "unknown"}
       /\ s.class # "minimal" =>
            \E i \in DOMAIN told.records : /\ told.records[i].zone = s.zone
                                           /\ Classify(told.records[i]) = s.class
       /\ \A i \in DOMAIN told.records : s.bfe >= told.records[i].bfe

(* A seed elevation is that of a covered point within the radius with none *)
(* nearer, a point off coverage is never a number, feet and meters agree,  *)
(* and a slope never comes of an elevation that is not available.          *)
HeightsTrue ==
  /\ told.kind = "height" =>
       /\ told.records[1].status = told.records[2].status
       /\ (told.records[1].status = "available" /\ desk.seed) =>
            \E i \in DOMAIN heights :
              /\ ~heights[i].off /\ heights[i].meters = told.records[2].value
              /\ Distance(heights[i], told.q.spot) < Radius * Radius
              /\ \A j \in DOMAIN heights :
                   Distance(heights[i], told.q.spot) <= Distance(heights[j], told.q.spot)
       /\ told.records[2].status = "available" => told.records[2].value > OffCoverage
  /\ (told.kind = "slope" /\ told.records[1].status = "available") =>
       \A i \in {2, 3} : told.records[i].status = "available"

(* A cached map answer is younger than its time to live, and a live        *)
(* request asked for after another was sent follows it by the interval.    *)
MapKept ==
  /\ told.kind = "cached" => minute - told.records[1].at < BoxTtl
  /\ \A i, j \in DOMAIN dispatched :
       (i < j /\ dispatched[j].asked > dispatched[i].at) =>
         dispatched[j].at - dispatched[i].at >= Spacing

(* What the evidence providers promise together.                          *)
EvidenceHonest == DeskKept /\ RecordsAsked /\ FloodsTrue /\ HeightsTrue /\ MapKept
=============================================================================
