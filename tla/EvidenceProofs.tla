--------------------------- MODULE EvidenceProofs ---------------------------
(***************************************************************************)
(* Proofs about the evidence of the economic analyses: the providers it    *)
(* comes from, which share the pace of the commercial map, and what the    *)
(* analyses make of it.                                                    *)
(***************************************************************************)
EXTENDS EvidenceProviders, EvidenceAnalysis, CountingLemmas, SequenceTheorems

-----------------------------------------------------------------------------
(* EVIDENCE PROVIDERS.  What the calls of the commercial map may be.       *)
MapCalls == [at : {"idle", "waiting", "sent"}, box : Boxes \cup {"none"}, asked : Nat, due : Nat]

(* Who waits is due an interval after every request that went before it    *)
(* was asked for; a request leaves only with permission.                   *)
MapCallOK(s, sent, now) ==
  /\ s \in MapCalls /\ s.asked <= now
  /\ s.at # "idle" => s.box \in Boxes /\ desk.enabled /\ ~desk.seed /\ desk.live
  /\ s.at = "waiting" => \A i \in DOMAIN sent : s.asked > sent[i].at => s.due - sent[i].at >= Spacing

SentOK ==
  /\ dispatched \in Seq([asked : Nat, at : Nat])
  /\ \A i \in DOMAIN dispatched : dispatched[i].at <= lastLive
  /\ \A i, j \in DOMAIN dispatched :
       i < j /\ dispatched[j].asked > dispatched[i].at => dispatched[j].at - dispatched[i].at >= Spacing

ToldOK == told.kind = "cached" => minute - told.records[1].at < BoxTtl

EvidenceInv ==
  /\ source \in EvidenceKinds
  /\ desk \in [enabled : BOOLEAN, seed : BOOLEAN, live : BOOLEAN]
  /\ minute \in Spacing..LastMinute /\ lastLive \in 0..minute
  /\ cached \in [Boxes -> [at : -1..minute, live : BOOLEAN]]
  /\ DOMAIN calling = Callees /\ \A c \in Callees : MapCallOK(calling[c], dispatched, minute)
  /\ SentOK /\ ToldOK /\ DeskKept
  /\ told.kind \in Tellings /\ told.wire \in BOOLEAN

-----------------------------------------------------------------------------
(* A refusal is the first of the checks that fail.                         *)
LEMMA RefusalKnown ==
  ASSUME NEW p, NEW q
  PROVE  /\ Refusal(p, q) \in QueryChecks \cup {"none"}
         /\ Refusal(p, q) = "none" =>
              \A i \in DOMAIN Examined(p) : ~Violates(p, q, Examined(p)[i])
<1>1. PICK e, failed : e = Examined(p) /\ failed = {i \in DOMAIN e : Violates(p, q, e[i])}
  OBVIOUS
<1>2. /\ DOMAIN e = 1..Len(e) /\ Len(e) \in 1..4
      /\ \A i \in DOMAIN e : e[i] \in QueryChecks
  <2>1. CASE p = "lau"
    <3>1. e = <<"personal_data", "geography", "too_many">>
      BY <1>1, <2>1 DEF Examined
    <3>2. Len(e) = 3 /\ DOMAIN e = 1..3
      BY ONLY <3>1
    <3>3. e[1] = "personal_data" /\ e[2] = "geography" /\ e[3] = "too_many"
      BY ONLY <3>1
    <3>4. \A i \in 1..3 : e[i] \in QueryChecks
      BY ONLY <3>3 DEF QueryChecks
    <3> QED BY ONLY <3>2, <3>4
  <2>2. CASE p = "oews"
    <3>1. e = <<"personal_data", "geography", "code", "too_many">>
      BY <1>1, <2>2 DEF Examined
    <3>2. Len(e) = 4 /\ DOMAIN e = 1..4
      BY ONLY <3>1
    <3>3. e[1] = "personal_data" /\ e[2] = "geography" /\ e[3] = "code" /\ e[4] = "too_many"
      BY ONLY <3>1
    <3>4. \A i \in 1..4 : e[i] \in QueryChecks
      BY ONLY <3>3 DEF QueryChecks
    <3> QED BY ONLY <3>2, <3>4
  <2>3. CASE p = "acs"
    <3>1. e = <<"no_variables", "geography", "vintage">>
      BY <1>1, <2>3 DEF Examined
    <3>2. Len(e) = 3 /\ DOMAIN e = 1..3
      BY ONLY <3>1
    <3>3. e[1] = "no_variables" /\ e[2] = "geography" /\ e[3] = "vintage"
      BY ONLY <3>1
    <3>4. \A i \in 1..3 : e[i] \in QueryChecks
      BY ONLY <3>3 DEF QueryChecks
    <3> QED BY ONLY <3>2, <3>4
  <2>4. CASE p = "cbp"
    <3>1. e = <<"geography", "code", "vintage">>
      BY <1>1, <2>4 DEF Examined
    <3>2. Len(e) = 3 /\ DOMAIN e = 1..3
      BY ONLY <3>1
    <3>3. e[1] = "geography" /\ e[2] = "code" /\ e[3] = "vintage"
      BY ONLY <3>1
    <3>4. \A i \in 1..3 : e[i] \in QueryChecks
      BY ONLY <3>3 DEF QueryChecks
    <3> QED BY ONLY <3>2, <3>4
  <2>5. CASE p = "nri"
    <3>1. e = <<"geography">>
      BY <1>1, <2>5 DEF Examined
    <3>2. Len(e) = 1 /\ DOMAIN e = 1..1
      BY ONLY <3>1
    <3>3. e[1] = "geography"
      BY ONLY <3>1
    <3>4. \A i \in 1..1 : e[i] \in QueryChecks
      BY ONLY <3>3 DEF QueryChecks
    <3> QED BY ONLY <3>2, <3>4
  <2>6. CASE p \notin {"lau", "oews", "acs", "cbp", "nri"}
    <3>1. e = <<"malformed">>
      BY <1>1, <2>6 DEF Examined
    <3>2. Len(e) = 1 /\ DOMAIN e = 1..1
      BY ONLY <3>1
    <3>3. e[1] = "malformed"
      BY ONLY <3>1
    <3>4. \A i \in 1..1 : e[i] \in QueryChecks
      BY ONLY <3>3 DEF QueryChecks
    <3> QED BY ONLY <3>2, <3>4
  <2> QED BY <2>1, <2>2, <2>3, <2>4, <2>5, <2>6
<1>3. Refusal(p, q) = IF failed = {} THEN "none" ELSE e[Min(failed)]
  BY <1>1 DEF Refusal
<1>4. CASE failed = {}
  BY <1>1, <1>3, <1>4
<1>5. CASE failed # {}
  <2>1. failed \subseteq DOMAIN e /\ failed \subseteq 1..4
    BY <1>1, <1>2
  <2>2. \E x \in failed : \A y \in failed : x <= y
    <3>1. CASE 1 \in failed
      BY <2>1, <3>1
    <3>2. CASE 1 \notin failed /\ 2 \in failed
      BY <2>1, <3>2
    <3>3. CASE 1 \notin failed /\ 2 \notin failed /\ 3 \in failed
      BY <2>1, <3>3
    <3>4. CASE 1 \notin failed /\ 2 \notin failed /\ 3 \notin failed
      BY <1>5, <2>1, <3>4
    <3> QED BY <3>1, <3>2, <3>3, <3>4
  <2>3. Min(failed) \in failed
    BY <2>2 DEF Min
  <2>4. e[Min(failed)] \in QueryChecks
    BY <1>2, <2>1, <2>3
  <2> QED BY <1>3, <1>5, <2>4 DEF QueryChecks
<1> QED BY <1>4, <1>5

(* What a query that passed its checks asks for.                           *)
LEMMA ExaminedKnown ==
  ASSUME NEW q, source \in Statistics, Refusal(source, q) = "none"
  PROVE  /\ GoodPlace(source, q.place)
         /\ source = "lau" => "too_many" \notin q.faults /\ "personal_data" \notin q.faults
         /\ source = "cbp" => "code" \notin q.faults /\ "vintage" \notin q.faults
<1>1. \A i \in DOMAIN Examined(source) : ~Violates(source, q, Examined(source)[i])
  BY RefusalKnown
<1>2. CASE source = "lau"
  <2>1. DOMAIN Examined(source) = {1, 2, 3} /\ Examined(source)[1] = "personal_data"
        /\ Examined(source)[2] = "geography" /\ Examined(source)[3] = "too_many"
    BY <1>2 DEF Examined
  <2> QED BY <1>1, <1>2, <2>1 DEF Violates
<1>3. CASE source = "oews"
  <2>1. 2 \in DOMAIN Examined(source) /\ Examined(source)[2] = "geography"
    BY <1>3 DEF Examined
  <2> QED BY <1>1, <1>3, <2>1 DEF Violates
<1>4. CASE source = "acs"
  <2>1. 2 \in DOMAIN Examined(source) /\ Examined(source)[2] = "geography"
    BY <1>4 DEF Examined
  <2> QED BY <1>1, <1>4, <2>1 DEF Violates
<1>5. CASE source = "cbp"
  <2>1. DOMAIN Examined(source) = {1, 2, 3} /\ Examined(source)[1] = "geography"
        /\ Examined(source)[2] = "code" /\ Examined(source)[3] = "vintage"
    BY <1>5 DEF Examined
  <2> QED BY <1>1, <1>5, <2>1 DEF Violates
<1>6. CASE source = "nri"
  <2>1. 1 \in DOMAIN Examined(source) /\ Examined(source)[1] = "geography"
    BY <1>6 DEF Examined
  <2> QED BY <1>1, <1>6, <2>1 DEF Violates
<1> QED BY <1>2, <1>3, <1>4, <1>5, <1>6 DEF Statistics

-----------------------------------------------------------------------------
(* What is told without the commercial map: nothing of its calls changes.  *)
Told(q, kind, records, wire) == [q |-> q, kind |-> kind, records |-> records, wire |-> wire]

(* DeskKept of what is told and of the switches.                           *)
SaidOK(t) ==
  /\ t.wire \in BOOLEAN /\ t.kind \in Tellings
  /\ t.wire => (desk.enabled /\ ~desk.seed /\ desk.live)
  /\ (t.kind # "none" /\ ~desk.enabled) => t.kind = "disabled"
  /\ (t.kind = "records" /\ t.records # <<>>) => desk.seed
  /\ t.kind \in {"records", "of_place"} =>
       /\ (source = "lau") => ({"too_many", "personal_data"} \cap t.q.faults = {})
       /\ (source = "cbp") => ({"code", "vintage"} \cap t.q.faults = {})
       /\ (t.q.place.level = "zcta") => source \in {"acs", "cbp"}
       /\ ~t.q.place.coded => source = "nri"

LEMMA SaysKnown ==
  ASSUME NEW q, NEW kind, NEW records, NEW wire, Say(q, kind, records, wire)
  PROVE  told'.q = q /\ told'.kind = kind /\ told'.records = records /\ told'.wire = wire
BY DEF Say

LEMMA DeskSays ==
  ASSUME EvidenceInv, UNCHANGED <<setting, mapVars>>, SaidOK(told'), told'.kind # "cached"
  PROVE  EvidenceInv'
<1>1. UNCHANGED <<source, desk, floods, heights>> /\ UNCHANGED <<minute, cached, lastLive, calling, dispatched>>
  BY DEF setting, mapVars
<1>2. DeskKept' /\ ToldOK'
  BY <1>1 DEF SaidOK, DeskKept, ToldOK
<1>3. SentOK' /\ \A c \in Callees : MapCallOK(calling[c], dispatched, minute)'
  BY <1>1 DEF EvidenceInv, SentOK, MapCallOK, MapCalls
<1> QED BY <1>1, <1>2, <1>3 DEF EvidenceInv, SaidOK

(* A place that is good is of a level its provider has.                    *)
LEMMA GoodPlaces ==
  ASSUME NEW place, source \in Statistics, GoodPlace(source, place)
  PROVE  /\ (place.level = "zcta") => source \in {"acs", "cbp"}
         /\ ~place.coded => source = "nri"
BY DEF GoodPlace, Levels, Statistics

LEMMA LiveKeeps ==
  ASSUME EvidenceInv, NEW q, NEW reply, Live(q, reply), desk.enabled, ~desk.seed, UNCHANGED <<setting, mapVars>>,
         reply \in {"records", "floods"},
         reply = "records" /\ source = "nri" => ~(q.place.level = "zcta"),
         source = "nfhl" => reply = "floods"
  PROVE  EvidenceInv'
<1>1. CASE ~desk.live /\ Say(q, "seed_mode", <<>>, FALSE)
  <2>1. told'.kind = "seed_mode" /\ told'.records = <<>> /\ told'.wire = FALSE
    BY <1>1, SaysKnown
  <2> QED BY <2>1, DeskSays DEF SaidOK, Tellings, QueryChecks
<1>2. CASE desk.live /\ source \in Statistics \ {"nri"} /\ Say(q, "unauthorized", <<>>, FALSE)
  <2>1. told'.kind = "unauthorized" /\ told'.records = <<>> /\ told'.wire = FALSE
    BY <1>2, SaysKnown
  <2> QED BY <2>1, DeskSays DEF SaidOK, Tellings, QueryChecks
<1>3. CASE desk.live /\ source \in {"nri", "nfhl"} /\ \E k \in {reply, "failed"} : Say(q, k, <<>>, TRUE)
  <2>1. PICK k \in {reply, "failed"} : Say(q, k, <<>>, TRUE)
    BY <1>3
  <2>2. told'.kind = k /\ told'.records = <<>> /\ told'.wire = TRUE /\ told'.q = q
    BY <2>1, SaysKnown
  <2>3. k \in {"records", "floods", "failed"} /\ (k = "records" => source = "nri")
    BY <1>3, <2>1
  <2>4. SaidOK(told')
    BY <1>3, <2>1, <2>2, <2>3 DEF SaidOK, Tellings
  <2> QED BY <2>2, <2>3, <2>4, DeskSays
<1> QED BY <1>1, <1>2, <1>3 DEF Live

LEMMA QueryKeeps ==
  ASSUME EvidenceInv, NEW q, Query(q)
  PROVE  EvidenceInv'
<1>1. source \in Statistics /\ UNCHANGED <<setting, mapVars>>
  BY DEF Query
<1>2. CASE ~desk.enabled /\ Say(q, "disabled", <<>>, FALSE)
  <2>1. told'.kind = "disabled" /\ told'.records = <<>> /\ told'.wire = FALSE
    BY <1>2, SaysKnown
  <2> QED BY <1>1, <1>2, <2>1, DeskSays DEF SaidOK, Tellings, QueryChecks
<1>3. CASE desk.enabled /\ Refusal(source, q) # "none" /\ Say(q, Refusal(source, q), <<>>, FALSE)
  <2>1. PICK why : why = Refusal(source, q)
    OBVIOUS
  <2>2. told'.kind = why /\ told'.records = <<>> /\ told'.wire = FALSE
    BY <1>3, <2>1, SaysKnown
  <2>3. why \in QueryChecks
    BY <1>3, <2>1, RefusalKnown
  <2>4. why \in Tellings /\ why \notin {"records", "of_place", "cached"}
    BY <2>3 DEF QueryChecks, Tellings
  <2>5. SaidOK(told')
    BY <1>3, <2>2, <2>4 DEF SaidOK
  <2> QED BY <1>1, <2>2, <2>4, <2>5, DeskSays
<1>4. CASE desk.enabled /\ Refusal(source, q) = "none"
            /\ IF desk.seed THEN Say(q, "records", Select(source, q), FALSE) ELSE Live(q, "records")
  <2>1. /\ (q.place.level = "zcta") => source \in {"acs", "cbp"}
        /\ ~q.place.coded => source = "nri"
        /\ source = "lau" => "too_many" \notin q.faults /\ "personal_data" \notin q.faults
        /\ source = "cbp" => "code" \notin q.faults /\ "vintage" \notin q.faults
    BY <1>1, <1>4, ExaminedKnown, GoodPlaces
  <2>2. CASE desk.seed
    <3>1. PICK some : some = Select(source, q)
      OBVIOUS
    <3>2. told'.q = q /\ told'.kind = "records" /\ told'.records = some /\ told'.wire = FALSE
      BY <1>4, <2>2, <3>1, SaysKnown
    <3>3. SaidOK(told')
      BY <1>4, <2>1, <2>2, <3>2 DEF SaidOK, Tellings
    <3> QED BY <1>1, <3>2, <3>3, DeskSays
  <2>3. CASE ~desk.seed
    BY <1>1, <1>4, <2>1, <2>3, LiveKeeps DEF Statistics
  <2> QED BY <2>2, <2>3
<1> QED BY <1>2, <1>3, <1>4 DEF Query

LEMMA ByGeographyKeeps ==
  ASSUME EvidenceInv, NEW place, ByGeography(place)
  PROVE  EvidenceInv'
<1>1. PICK q : q = [place |-> place, code |-> <<>>, metrics |-> {}, when |-> {}, faults |-> {}]
  OBVIOUS
<1>2. q.place = place /\ q.faults = {}
  BY <1>1
<1>3. source \in Statistics /\ UNCHANGED <<setting, mapVars>>
  BY DEF ByGeography
<1>4. PICK some : some = Select(source, q)
  OBVIOUS
<1>5. \/ ~desk.enabled /\ Say(q, "disabled", <<>>, FALSE)
      \/ desk.enabled /\ ~GoodPlace(source, place) /\ Say(q, "geography", <<>>, FALSE)
      \/ desk.enabled /\ GoodPlace(source, place) /\ Say(q, "of_place", some, FALSE)
  BY <1>1, <1>4 DEF ByGeography
<1>6. CASE ~desk.enabled /\ Say(q, "disabled", <<>>, FALSE)
  <2>1. told'.kind = "disabled" /\ told'.records = <<>> /\ told'.wire = FALSE
    BY <1>6, SaysKnown
  <2> QED BY <1>3, <1>6, <2>1, DeskSays DEF SaidOK, Tellings, QueryChecks
<1>7. CASE desk.enabled /\ ~GoodPlace(source, place) /\ Say(q, "geography", <<>>, FALSE)
  <2>1. told'.kind = "geography" /\ told'.records = <<>> /\ told'.wire = FALSE
    BY <1>7, SaysKnown
  <2> QED BY <1>3, <1>7, <2>1, DeskSays DEF SaidOK, Tellings, QueryChecks
<1>8. CASE desk.enabled /\ GoodPlace(source, place) /\ Say(q, "of_place", some, FALSE)
  <2>1. told'.q = q /\ told'.kind = "of_place" /\ told'.records = some /\ told'.wire = FALSE
    BY <1>8, SaysKnown
  <2>2. /\ (place.level = "zcta") => source \in {"acs", "cbp"}
        /\ ~place.coded => source = "nri"
    BY <1>3, <1>8, GoodPlaces
  <2>3. SaidOK(told')
    BY <1>2, <1>8, <2>1, <2>2 DEF SaidOK, Tellings
  <2> QED BY <1>3, <2>1, <2>3, DeskSays
<1> QED BY <1>5, <1>6, <1>7, <1>8

LEMMA FloodQueryKeeps ==
  ASSUME EvidenceInv, NEW q, FloodQuery(q)
  PROVE  EvidenceInv'
<1>1. source = "nfhl" /\ UNCHANGED <<setting, mapVars>>
  BY DEF FloodQuery
<1>2. CASE ~desk.enabled /\ Say(q, "disabled", <<>>, FALSE)
  <2>1. told'.kind = "disabled" /\ told'.records = <<>> /\ told'.wire = FALSE
    BY <1>2, SaysKnown
  <2> QED BY <1>1, <1>2, <2>1, DeskSays DEF SaidOK, Tellings, QueryChecks
<1>3. CASE desk.enabled /\ desk.seed /\ Say(q, "floods", FloodsOf(q), FALSE)
  <2>1. PICK some : some = FloodsOf(q)
    OBVIOUS
  <2>2. told'.kind = "floods" /\ told'.records = some /\ told'.wire = FALSE
    BY <1>3, <2>1, SaysKnown
  <2> QED BY <1>1, <1>3, <2>2, DeskSays DEF SaidOK, Tellings, QueryChecks
<1>4. CASE desk.enabled /\ ~desk.seed /\ Live(q, "floods")
  BY <1>1, <1>4, LiveKeeps
<1> QED BY <1>2, <1>3, <1>4 DEF FloodQuery

(* An elevation or a slope is told of by kind and wire alone.              *)
LEMMA HeightSays ==
  ASSUME EvidenceInv, UNCHANGED <<setting, mapVars>>, NEW q, NEW kind \in {"height", "slope"}, NEW records,
         Refused3dep(q)
         \/ (desk.enabled /\ (desk.seed \/ desk.live) /\ Say(q, kind, records, ~desk.seed))
  PROVE  EvidenceInv'
<1>1. CASE ~desk.enabled /\ Say(q, "disabled", <<>>, FALSE)
  <2>1. told'.kind = "disabled" /\ told'.records = <<>> /\ told'.wire = FALSE
    BY <1>1, SaysKnown
  <2> QED BY <1>1, <2>1, DeskSays DEF SaidOK, Tellings, QueryChecks
<1>2. CASE desk.enabled /\ ~desk.seed /\ ~desk.live /\ Say(q, "seed_mode", <<>>, FALSE)
  <2>1. told'.kind = "seed_mode" /\ told'.records = <<>> /\ told'.wire = FALSE
    BY <1>2, SaysKnown
  <2> QED BY <1>2, <2>1, DeskSays DEF SaidOK, Tellings, QueryChecks
<1>3. CASE desk.enabled /\ (desk.seed \/ desk.live) /\ Say(q, kind, records, ~desk.seed)
  <2>1. PICK wire : wire = ~desk.seed
    OBVIOUS
  <2>2. told'.kind = kind /\ told'.records = records /\ told'.wire = wire
    BY <1>3, <2>1, SaysKnown
  <2>3. kind \in Tellings /\ kind \notin {"records", "of_place", "cached", "none"} /\ wire \in BOOLEAN
    BY <2>1 DEF Tellings
  <2>4. SaidOK(told')
    BY <1>3, <2>1, <2>2, <2>3 DEF SaidOK, Tellings
  <2> QED BY <2>2, <2>3, <2>4, DeskSays
<1> QED BY <1>1, <1>2, <1>3 DEF Refused3dep

LEMMA HeightsKeep ==
  ASSUME EvidenceInv,
         (\E s \in Spots, u \in {"Meters", "Feet"} : HeightQuery(s, u)) \/ (\E s1, s2 \in Spots : SlopeQuery(s1, s2))
  PROVE  EvidenceInv'
<1>1. ASSUME NEW s \in Spots, NEW u \in {"Meters", "Feet"}, HeightQuery(s, u) PROVE EvidenceInv'
  <2>1. PICK q : q = [spot |-> s, unit |-> u]
    OBVIOUS
  <2>2. /\ UNCHANGED <<setting, mapVars>>
        /\ \/ Refused3dep(q)
           \/ /\ desk.enabled /\ (desk.seed \/ desk.live)
              /\ \E e \in HeightsOf(s) : Say(q, "height", <<ToUnit(e, u), e>>, ~desk.seed)
    BY <1>1, <2>1 DEF HeightQuery
  <2>3. \E records : Refused3dep(q)
                     \/ (desk.enabled /\ (desk.seed \/ desk.live) /\ Say(q, "height", records, ~desk.seed))
    BY <2>2
  <2> QED BY <2>2, <2>3, HeightSays
<1>2. ASSUME NEW s1 \in Spots, NEW s2 \in Spots, SlopeQuery(s1, s2) PROVE EvidenceInv'
  <2>1. PICK q : q = [spot |-> s1, unit |-> "slope"]
    OBVIOUS
  <2>2. /\ UNCHANGED <<setting, mapVars>>
        /\ \/ Refused3dep(q)
           \/ /\ desk.enabled /\ (desk.seed \/ desk.live)
              /\ \E e1 \in HeightsOf(s1), e2 \in HeightsOf(s2) :
                   Say(q, "slope", <<Slope(e1, e2, Distance(s1, s2)), e1, e2>>, ~desk.seed)
    BY <1>2, <2>1 DEF SlopeQuery
  <2>3. \E records : Refused3dep(q)
                     \/ (desk.enabled /\ (desk.seed \/ desk.live) /\ Say(q, "slope", records, ~desk.seed))
    BY <2>2
  <2> QED BY <2>2, <2>3, HeightSays
<1> QED BY <1>1, <1>2

-----------------------------------------------------------------------------
(* The commercial map.  What was sent, one by one.                         *)
LEMMA SentKnown ==
  ASSUME EvidenceInv, NEW i \in DOMAIN dispatched
  PROVE  /\ dispatched[i].at \in Nat /\ dispatched[i].asked \in Nat /\ dispatched[i].at <= lastLive
<1>1. dispatched \in Seq([asked : Nat, at : Nat]) /\ dispatched[i].at <= lastLive
  BY DEF EvidenceInv, SentOK
<1>2. PICK R : R = [asked : Nat, at : Nat]
  OBVIOUS
<1>3. dispatched \in Seq(R)
  BY <1>1, <1>2
<1>4. dispatched[i] \in R
  BY ONLY <1>3, i \in DOMAIN dispatched
<1> QED BY <1>1, <1>2, <1>4

(* The cache, the calls and what was sent, when the switches stay.         *)
LEMMA MapKeeps ==
  ASSUME EvidenceInv, UNCHANGED setting, minute' = minute, lastLive' \in 0..minute,
         cached' \in [Boxes -> [at : -1..minute, live : BOOLEAN]], DOMAIN calling' = Callees,
         \A c \in Callees : MapCallOK(calling'[c], dispatched', minute), SentOK', SaidOK(told'),
         told'.kind = "cached" => minute - told'.records[1].at < BoxTtl
  PROVE  EvidenceInv'
<1>1. UNCHANGED <<source, desk, floods, heights>>
  BY DEF setting
<1>2. DeskKept' /\ ToldOK'
  BY <1>1 DEF SaidOK, DeskKept, ToldOK
<1>3. \A c \in Callees : MapCallOK(calling[c], dispatched, minute)'
  BY <1>1 DEF MapCallOK, MapCalls
<1> QED BY <1>1, <1>2, <1>3 DEF EvidenceInv, SaidOK

(* A request goes out: it follows those before it by the interval if it    *)
(* was asked for after them.                                               *)
LEMMA GoesOut ==
  ASSUME EvidenceInv, NEW asked \in Nat, asked <= minute, lastLive' = minute,
         dispatched' = Append(dispatched, [asked |-> asked, at |-> minute]),
         \A i \in DOMAIN dispatched : asked > dispatched[i].at => minute - dispatched[i].at >= Spacing
  PROVE  /\ SentOK'
         /\ \A c \in Callees : MapCallOK(calling[c], dispatched', minute)
         /\ \A s : s.at # "waiting" /\ MapCallOK(s, dispatched, minute) => MapCallOK(s, dispatched', minute)
<1>1. PICK old, n, x, new : /\ old = dispatched /\ n = Len(old) /\ x = [asked |-> asked, at |-> minute]
                            /\ new = Append(old, x)
  OBVIOUS
<1>2. /\ minute \in Nat /\ lastLive \in Nat /\ lastLive <= minute /\ Spacing \in Nat
      /\ \A c \in Callees : MapCallOK(calling[c], dispatched, minute)
  BY EvidenceAssumption DEF EvidenceInv
<1>3. x \in [asked : Nat, at : Nat] /\ x.asked = asked /\ x.at = minute
  BY <1>1, <1>2
<1>4. /\ old \in Seq([asked : Nat, at : Nat]) /\ n \in Nat /\ DOMAIN old = 1..n
      /\ \A i \in 1..n : old[i].at \in Nat /\ old[i].asked \in Nat /\ old[i].at <= lastLive
      /\ \A i, j \in 1..n : i < j /\ old[j].asked > old[i].at => old[j].at - old[i].at >= Spacing
  <2>1. old \in Seq([asked : Nat, at : Nat]) /\ n \in Nat /\ DOMAIN old = 1..n
    BY <1>1 DEF EvidenceInv, SentOK
  <2>2. \A i \in 1..n : old[i].at \in Nat /\ old[i].asked \in Nat /\ old[i].at <= lastLive
    BY <1>1, <2>1, SentKnown
  <2>3. \A i, j \in 1..n : i < j /\ old[j].asked > old[i].at => old[j].at - old[i].at >= Spacing
    BY <1>1, <2>1 DEF EvidenceInv, SentOK
  <2> QED BY <2>1, <2>2, <2>3
<1>5. /\ new \in Seq([asked : Nat, at : Nat]) /\ DOMAIN new = 1..(n + 1) /\ new[n + 1] = x
      /\ \A i \in 1..n : new[i] = old[i]
  BY <1>1, <1>3, <1>4
<1>6. dispatched' = new
  BY <1>1
<1>7. \A i \in 1..(n + 1) : i \in 1..n \/ i = n + 1
  BY <1>4
<1>8. \A i \in 1..(n + 1) : new[i].at <= minute
  BY <1>2, <1>3, <1>4, <1>5, <1>7
<1>9. ASSUME NEW i \in 1..(n + 1), NEW j \in 1..(n + 1), i < j, new[j].asked > new[i].at
      PROVE  new[j].at - new[i].at >= Spacing
  <2>1. i \in 1..n
    BY <1>4, <1>7, <1>9
  <2>2. CASE j \in 1..n
    BY <1>4, <1>5, <1>9, <2>1, <2>2
  <2>3. CASE j = n + 1
    <3>1. asked > old[i].at /\ new[j].at = minute /\ new[i].at = old[i].at
      BY <1>3, <1>5, <1>9, <2>1, <2>3
    <3> QED BY <1>1, <1>4, <2>1, <3>1
  <2> QED BY <1>7, <2>2, <2>3
<1>10. SentOK'
  BY <1>5, <1>6, <1>8, <1>9 DEF SentOK
<1>11. ASSUME NEW s, MapCallOK(s, dispatched, minute) PROVE MapCallOK(s, new, minute)
  <2>1. ASSUME s.at = "waiting", NEW i \in DOMAIN new, s.asked > new[i].at PROVE s.due - new[i].at >= Spacing
    <3>1. CASE i \in 1..n
      BY <1>1, <1>4, <1>5, <1>11, <2>1, <3>1 DEF MapCallOK
    <3>2. CASE i = n + 1
      <4>1. s.asked \in Nat /\ s.asked <= minute
        BY <1>11 DEF MapCallOK, MapCalls
      <4> QED BY <1>2, <1>3, <1>5, <2>1, <3>2, <4>1
    <3> QED BY <1>5, <1>7, <3>1, <3>2
  <2> QED BY <1>11, <2>1 DEF MapCallOK
<1> QED BY <1>2, <1>6, <1>10, <1>11

LEMMA MapUnsaid ==
  ASSUME EvidenceInv
  PROVE  SaidOK(told)
BY DEF EvidenceInv, DeskKept, SaidOK

LEMMA MapStays ==
  ASSUME EvidenceInv, UNCHANGED setting, UNCHANGED <<minute, lastLive, calling, dispatched>>,
         cached' \in [Boxes -> [at : -1..minute, live : BOOLEAN]], SaidOK(told'),
         told'.kind = "cached" => minute - told'.records[1].at < BoxTtl
  PROVE  EvidenceInv'
<1>1. SentOK'
  BY DEF EvidenceInv, SentOK
<1> QED BY <1>1, MapKeeps DEF EvidenceInv

LEMMA CachedNext ==
  ASSUME EvidenceInv, NEW b \in Boxes, NEW live \in BOOLEAN, cached' = [cached EXCEPT ![b] = [at |-> minute, live |-> live]]
  PROVE  cached' \in [Boxes -> [at : -1..minute, live : BOOLEAN]]
<1>1. cached \in [Boxes -> [at : -1..minute, live : BOOLEAN]] /\ minute \in Nat
  BY EvidenceAssumption DEF EvidenceInv
<1>2. PICK x : x = [at |-> minute, live |-> live]
  OBVIOUS
<1>3. x \in [at : -1..minute, live : BOOLEAN] /\ cached' = [cached EXCEPT ![b] = x]
  BY <1>1, <1>2
<1> QED BY <1>1, <1>3

LEMMA AskMapKeeps ==
  ASSUME EvidenceInv, NEW c \in Callees, NEW b \in Boxes, UNCHANGED setting, minute' = minute, desk.enabled,
         AskMap(c, b)
  PROVE  EvidenceInv'
<1>1. PICK d, where, y : d = Due /\ where = (IF d = minute THEN "sent" ELSE "waiting")
                         /\ y = [at |-> where, box |-> b, asked |-> minute, due |-> d]
  OBVIOUS
<1>2. /\ ~desk.seed /\ desk.live /\ calling' = [calling EXCEPT ![c] = y] /\ UNCHANGED <<cached, told>>
      /\ (IF d = minute
          THEN lastLive' = minute /\ dispatched' = Append(dispatched, [asked |-> minute, at |-> minute])
          ELSE UNCHANGED <<lastLive, dispatched>>)
  BY <1>1 DEF AskMap
<1>3. /\ minute \in Nat /\ lastLive \in 0..minute /\ Spacing \in Nat /\ SentOK
      /\ DOMAIN calling = Callees /\ \A k \in Callees : MapCallOK(calling[k], dispatched, minute)
  BY EvidenceAssumption DEF EvidenceInv
<1>4. d \in Nat /\ d - lastLive >= Spacing
  BY <1>1, <1>3 DEF Due
<1>5. y.at = where /\ y.box = b /\ y.asked = minute /\ y.due = d
  BY ONLY <1>1
<1>6. y \in MapCalls
  BY <1>1, <1>3, <1>4 DEF MapCalls
<1>7. \A i \in DOMAIN dispatched : dispatched[i].at \in Nat /\ dispatched[i].at <= lastLive
  BY SentKnown
<1>8. \A i \in DOMAIN dispatched : d - dispatched[i].at >= Spacing
  BY <1>3, <1>4, <1>7
<1>9. MapCallOK(y, dispatched, minute)
  BY <1>2, <1>3, <1>5, <1>6, <1>8 DEF MapCallOK
<1>10. SaidOK(told') /\ (told'.kind = "cached" => minute - told'.records[1].at < BoxTtl)
  BY <1>2, MapUnsaid DEF EvidenceInv, ToldOK
<1>11. DOMAIN calling' = Callees /\ \A k \in Callees : calling'[k] = IF k = c THEN y ELSE calling[k]
  BY <1>2, <1>3
<1>12. CASE d = minute
  <2>1. lastLive' = minute /\ dispatched' = Append(dispatched, [asked |-> minute, at |-> minute])
    BY <1>2, <1>12
  <2>2. \A i \in DOMAIN dispatched : minute > dispatched[i].at => minute - dispatched[i].at >= Spacing
    BY <1>8, <1>12
  <2>3. /\ SentOK' /\ \A k \in Callees : MapCallOK(calling[k], dispatched', minute)
        /\ \A s : s.at # "waiting" /\ MapCallOK(s, dispatched, minute) => MapCallOK(s, dispatched', minute)
    BY <1>3, <2>1, <2>2, GoesOut
  <2>4. y.at # "waiting"
    BY <1>1, <1>5, <1>12
  <2>5. \A k \in Callees : MapCallOK(calling'[k], dispatched', minute)
    BY <1>9, <1>11, <2>3, <2>4
  <2>6. lastLive' \in 0..minute /\ cached' \in [Boxes -> [at : -1..minute, live : BOOLEAN]]
    BY <1>2, <1>3, <2>1 DEF EvidenceInv
  <2> QED BY <1>10, <1>11, <2>3, <2>5, <2>6, MapKeeps
<1>13. CASE d # minute
  <2>1. lastLive' = lastLive /\ dispatched' = dispatched
    BY <1>2, <1>13
  <2>2. \A k \in Callees : MapCallOK(calling'[k], dispatched', minute)
    BY <1>3, <1>9, <1>11, <2>1
  <2>3. SentOK' /\ lastLive' \in 0..minute /\ cached' \in [Boxes -> [at : -1..minute, live : BOOLEAN]]
    BY <1>2, <1>3, <2>1 DEF EvidenceInv, SentOK
  <2> QED BY <1>10, <1>11, <2>2, <2>3, MapKeeps
<1> QED BY <1>12, <1>13

LEMMA CallMapKeeps ==
  ASSUME EvidenceInv, NEW c \in Callees, NEW b \in Boxes, CallMap(c, b)
  PROVE  EvidenceInv'
<1>1. UNCHANGED setting /\ minute' = minute /\ cached \in [Boxes -> [at : -1..minute, live : BOOLEAN]]
  BY DEF CallMap, EvidenceInv
<1>2. ASSUME NEW why \in {"disabled", "seed_mode"}, Say(b, why, <<>>, FALSE), desk.enabled \/ why = "disabled",
             UNCHANGED <<cached, lastLive, calling, dispatched>>
      PROVE  EvidenceInv'
  <2>1. told'.kind = why /\ told'.wire = FALSE
    BY <1>2, SaysKnown
  <2>2. SaidOK(told') /\ told'.kind # "cached"
    BY <1>2, <2>1 DEF SaidOK, Tellings
  <2> QED BY <1>1, <1>2, <2>2, MapStays
<1>3. CASE desk.enabled /\ FromMapCache(b)
  <2>1. PICK r : r = <<cached[b]>>
    OBVIOUS
  <2>2. Usable(b) /\ Say(b, "cached", r, FALSE) /\ UNCHANGED <<cached, lastLive, calling, dispatched>>
    BY <1>3, <2>1 DEF FromMapCache
  <2>3. told'.kind = "cached" /\ told'.wire = FALSE /\ told'.records = r
    BY <2>2, SaysKnown
  <2>4. r[1] = cached[b]
    BY <2>1
  <2>5. minute - told'.records[1].at < BoxTtl
    BY <2>2, <2>3, <2>4 DEF Usable
  <2>6. SaidOK(told')
    BY <1>3, <2>3 DEF SaidOK, Tellings
  <2> QED BY <1>1, <2>2, <2>5, <2>6, MapStays
<1>4. CASE desk.enabled /\ FromMapSeed(b)
  <2>1. PICK r : r = <<cached'[b]>>
    OBVIOUS
  <2>2. /\ cached' = [cached EXCEPT ![b] = [at |-> minute, live |-> FALSE]] /\ Say(b, "fresh", r, FALSE)
        /\ UNCHANGED <<lastLive, calling, dispatched>>
    BY <1>4, <2>1 DEF FromMapSeed
  <2>3. told'.kind = "fresh" /\ told'.wire = FALSE
    BY <2>2, SaysKnown
  <2>4. SaidOK(told') /\ told'.kind # "cached"
    BY <1>4, <2>3 DEF SaidOK, Tellings
  <2>5. cached' \in [Boxes -> [at : -1..minute, live : BOOLEAN]]
    BY <2>2, CachedNext
  <2> QED BY <1>1, <2>2, <2>4, <2>5, MapStays
<1>5. CASE desk.enabled /\ AskMap(c, b)
  BY <1>1, <1>5, AskMapKeeps
<1> QED BY <1>2, <1>3, <1>4, <1>5 DEF CallMap

LEMMA SendMapKeeps ==
  ASSUME EvidenceInv, NEW c \in Callees, SendMap(c)
  PROVE  EvidenceInv'
<1>1. PICK was, asked : was = calling[c] /\ asked = was.asked
  OBVIOUS
<1>2. /\ was.at = "waiting" /\ minute >= was.due /\ lastLive' = minute
      /\ dispatched' = Append(dispatched, [asked |-> asked, at |-> minute])
      /\ UNCHANGED setting /\ UNCHANGED <<minute, cached, told>>
  BY <1>1 DEF SendMap
<1>3. /\ minute \in Nat /\ Spacing \in Nat /\ SentOK /\ MapCallOK(was, dispatched, minute)
      /\ DOMAIN calling = Callees /\ \A k \in Callees : MapCallOK(calling[k], dispatched, minute)
  BY <1>1, EvidenceAssumption DEF EvidenceInv
<1>4. PICK box, due : was = [at |-> "waiting", box |-> box, asked |-> asked, due |-> due]
                      /\ box \in Boxes \cup {"none"} /\ asked \in Nat /\ due \in Nat
  BY <1>1, <1>2, <1>3 DEF MapCallOK, MapCalls
<1>5. PICK y : y = [was EXCEPT !.at = "sent"]
  OBVIOUS
<1>6. calling' = [calling EXCEPT ![c] = y]
  <2>1. calling' = [calling EXCEPT ![c].at = "sent"]
    BY DEF SendMap
  <2> QED BY <1>1, <1>3, <1>5, <2>1
<1>7. was = [at |-> "waiting", box |-> box, asked |-> asked, due |-> due]
  BY ONLY <1>4
<1>8. y = [at |-> "sent", box |-> box, asked |-> asked, due |-> due]
  BY ONLY <1>5, <1>7
<1>9. was.box = box /\ was.due = due /\ y.at = "sent" /\ y.box = box /\ y.asked = asked
  BY ONLY <1>7, <1>8
<1>10. y \in MapCalls
  BY <1>4, <1>8 DEF MapCalls
<1>11. asked <= minute /\ was.box \in Boxes /\ desk.enabled /\ ~desk.seed /\ desk.live
  BY <1>1, <1>2, <1>3 DEF MapCallOK
<1>12. MapCallOK(y, dispatched, minute)
  BY <1>9, <1>10, <1>11 DEF MapCallOK
<1>13. \A i \in DOMAIN dispatched : dispatched[i].at \in Nat
  BY SentKnown
<1>14. ASSUME NEW i \in DOMAIN dispatched, asked > dispatched[i].at PROVE minute - dispatched[i].at >= Spacing
  <2>1. due - dispatched[i].at >= Spacing /\ minute >= due
    BY <1>1, <1>2, <1>3, <1>9, <1>14 DEF MapCallOK
  <2> QED BY <1>3, <1>4, <1>13, <2>1
<1>15. /\ SentOK' /\ \A k \in Callees : MapCallOK(calling[k], dispatched', minute)
       /\ \A s : s.at # "waiting" /\ MapCallOK(s, dispatched, minute) => MapCallOK(s, dispatched', minute)
  BY <1>2, <1>4, <1>11, <1>14, GoesOut
<1>16. MapCallOK(y, dispatched', minute)
  BY <1>9, <1>12, <1>15
<1>17. DOMAIN calling' = Callees /\ \A k \in Callees : MapCallOK(calling'[k], dispatched', minute)
  BY <1>3, <1>6, <1>15, <1>16
<1>18. SaidOK(told') /\ (told'.kind = "cached" => minute - told'.records[1].at < BoxTtl)
  BY <1>2, MapUnsaid DEF EvidenceInv, ToldOK
<1>19. lastLive' \in 0..minute /\ cached' \in [Boxes -> [at : -1..minute, live : BOOLEAN]]
  BY <1>2, <1>3 DEF EvidenceInv
<1> QED BY <1>2, <1>15, <1>17, <1>18, <1>19, MapKeeps

LEMMA MapAnswersKeeps ==
  ASSUME EvidenceInv, NEW c \in Callees, MapAnswers(c)
  PROVE  EvidenceInv'
<1>1. PICK b, none : b = calling[c].box /\ none = NoCall
  OBVIOUS
<1>2. /\ calling[c].at = "sent" /\ calling' = [calling EXCEPT ![c] = none]
      /\ UNCHANGED <<setting, minute, lastLive, dispatched>>
  BY <1>1 DEF MapAnswers
<1>3. /\ minute \in Nat /\ SentOK /\ DOMAIN calling = Callees
      /\ \A k \in Callees : MapCallOK(calling[k], dispatched, minute)
  BY EvidenceAssumption DEF EvidenceInv
<1>4. b \in Boxes /\ desk.enabled /\ ~desk.seed /\ desk.live
  BY <1>1, <1>2, <1>3 DEF MapCallOK
<1>5. none = [at |-> "idle", box |-> "none", asked |-> 0, due |-> 0]
  BY <1>1 DEF NoCall
<1>6. MapCallOK(none, dispatched, minute)
  BY <1>3, <1>5 DEF MapCallOK, MapCalls
<1>7. SentOK' /\ lastLive' \in 0..minute
  BY <1>2, <1>3 DEF SentOK, EvidenceInv
<1>8. DOMAIN calling' = Callees /\ \A k \in Callees : MapCallOK(calling'[k], dispatched', minute)
  BY <1>2, <1>3, <1>6
<1>9. \/ cached' = [cached EXCEPT ![b] = [at |-> minute, live |-> TRUE]] /\ Say(b, "fresh", <<cached'[b]>>, TRUE)
      \/ Say(b, "failed", <<>>, TRUE) /\ UNCHANGED cached
  BY <1>1 DEF MapAnswers
<1>10. cached' \in [Boxes -> [at : -1..minute, live : BOOLEAN]]
  BY <1>4, <1>9, CachedNext DEF EvidenceInv
<1>11. told'.kind \in {"fresh", "failed"} /\ told'.wire = TRUE
  BY <1>9, SaysKnown
<1>12. SaidOK(told') /\ told'.kind # "cached"
  BY <1>4, <1>11 DEF SaidOK, Tellings
<1> QED BY <1>2, <1>7, <1>8, <1>10, <1>12, MapKeeps

LEMMA MinutePassesKeeps ==
  ASSUME EvidenceInv, MinutePasses
  PROVE  EvidenceInv'
<1>1. /\ minute < LastMinute /\ minute' = minute + 1 /\ told' = Silence
      /\ UNCHANGED <<source, desk, floods, heights>> /\ UNCHANGED <<cached, lastLive, calling, dispatched>>
  BY DEF MinutePasses, setting
<1>2. minute \in Nat /\ minute \in Spacing..LastMinute /\ Spacing \in Nat /\ LastMinute \in Nat /\ lastLive \in 0..minute
  BY EvidenceAssumption DEF EvidenceInv
<1>3. minute' \in Spacing..LastMinute /\ lastLive' \in 0..minute'
  BY <1>1, <1>2
<1>4. cached' \in [Boxes -> [at : -1..minute', live : BOOLEAN]]
  <2>1. -1..minute \subseteq -1..minute'
    BY <1>1, <1>2
  <2>2. [at : -1..minute, live : BOOLEAN] \subseteq [at : -1..minute', live : BOOLEAN]
    BY <2>1
  <2> QED BY <1>1, <2>2 DEF EvidenceInv
<1>5. SentOK'
  BY <1>1 DEF EvidenceInv, SentOK
<1>6. ASSUME NEW k \in Callees PROVE MapCallOK(calling[k], dispatched, minute)'
  <2>1. MapCallOK(calling[k], dispatched, minute)
    BY DEF EvidenceInv
  <2>2. calling[k].asked \in Nat
    BY <2>1 DEF MapCallOK, MapCalls
  <2> QED BY <1>1, <1>2, <2>1, <2>2 DEF MapCallOK, MapCalls
<1>7. told'.kind = "none" /\ told'.wire = FALSE
  BY <1>1 DEF Silence
<1>8. DeskKept' /\ ToldOK'
  BY <1>7 DEF DeskKept, ToldOK
<1> QED BY <1>1, <1>3, <1>4, <1>5, <1>6, <1>7, <1>8 DEF EvidenceInv, Tellings

LEMMA EvidenceInitially == EvidenceInit => EvidenceInv
<1> SUFFICES ASSUME EvidenceInit PROVE EvidenceInv
  OBVIOUS
<1>1. PICK none, blank : none = NoCall /\ blank = [at |-> -1, live |-> FALSE]
  OBVIOUS
<1>2. /\ source \in EvidenceKinds /\ desk \in [enabled : BOOLEAN, seed : BOOLEAN, live : BOOLEAN]
      /\ minute = Spacing /\ lastLive = 0 /\ cached = [b \in Boxes |-> blank]
      /\ calling = [c \in Callees |-> none] /\ dispatched = <<>> /\ told = Silence
  BY <1>1 DEF EvidenceInit
<1>3. Spacing \in Nat /\ LastMinute \in Nat /\ Spacing <= LastMinute
  BY EvidenceAssumption
<1>4. none = [at |-> "idle", box |-> "none", asked |-> 0, due |-> 0]
  BY <1>1 DEF NoCall
<1>5. none \in MapCalls /\ none.at = "idle" /\ none.asked = 0
  BY <1>4 DEF MapCalls
<1>6. \A c \in Callees : MapCallOK(calling[c], dispatched, minute)
  BY <1>2, <1>3, <1>5 DEF MapCallOK
<1>7. blank \in [at : -1..minute, live : BOOLEAN]
  BY <1>1, <1>2, <1>3
<1>8. SentOK
  BY <1>2 DEF SentOK
<1>9. told.kind = "none" /\ told.wire = FALSE
  BY <1>2 DEF Silence
<1>10. DeskKept /\ ToldOK
  BY <1>9 DEF DeskKept, ToldOK
<1>11. minute \in Spacing..LastMinute /\ lastLive \in 0..minute /\ DOMAIN calling = Callees
       /\ cached \in [Boxes -> [at : -1..minute, live : BOOLEAN]]
  BY <1>2, <1>3, <1>7
<1>12. told.kind \in Tellings /\ told.wire \in BOOLEAN
  BY <1>9 DEF Tellings
<1> QED BY <1>2, <1>6, <1>8, <1>10, <1>11, <1>12 DEF EvidenceInv

LEMMA EvidenceInductive == EvidenceSpec => []EvidenceInv
<1>1. ASSUME EvidenceInv, [EvidenceNext]_evidenceVars PROVE EvidenceInv'
  <2>1. CASE EvidenceNext
    BY <1>1, <2>1, QueryKeeps, ByGeographyKeeps, FloodQueryKeeps, HeightsKeep, CallMapKeeps, SendMapKeeps,
       MapAnswersKeeps, MinutePassesKeeps DEF EvidenceNext
  <2>2. CASE UNCHANGED evidenceVars
    <3>1. UNCHANGED setting /\ UNCHANGED <<minute, cached, lastLive, calling, dispatched>> /\ told' = told
      BY <2>2 DEF evidenceVars, mapVars
    <3>2. SaidOK(told') /\ (told'.kind = "cached" => minute - told'.records[1].at < BoxTtl)
      BY <1>1, <3>1, MapUnsaid DEF EvidenceInv, ToldOK
    <3> QED BY <1>1, <3>1, <3>2, MapStays DEF EvidenceInv
  <2> QED BY <1>1, <2>1, <2>2
<1> QED BY <1>1, EvidenceInitially, PTL DEF EvidenceSpec

(* The switches, the clock, the cache, the calls and what is told have     *)
(* their types.                                                            *)
THEOREM EvidenceTypeCorrect == EvidenceSpec => []EvidenceTypeOK
<1>1. EvidenceInv => EvidenceTypeOK
  BY DEF EvidenceInv, EvidenceTypeOK, MapCallOK, MapCalls
<1> QED BY <1>1, EvidenceInductive, PTL

(* For any fixtures, places, callers and areas: a disabled provider        *)
(* answers nothing, no request leaves without permission, a query that     *)
(* fails a check is answered by that refusal alone, and the fixture        *)
(* answers in seed mode only (censusAcs.ts, blsLau.ts, femaNri.ts,         *)
(* osmCommercial.ts).                                                      *)
THEOREM EvidenceDeskKept == EvidenceSpec => []DeskKept
<1>1. EvidenceInv => DeskKept
  BY DEF EvidenceInv
<1> QED BY <1>1, EvidenceInductive, PTL

(* For any number of callers and areas and any interval and time to live:  *)
(* a cached map answer is younger than its time to live, and a live        *)
(* request asked for after another was sent follows it by the interval     *)
(* (osmCommercial.ts).                                                     *)
THEOREM MapAlwaysKept == EvidenceSpec => []MapKept
<1>1. EvidenceInv => MapKept
  BY DEF EvidenceInv, MapKept, SentOK, ToldOK
<1> QED BY <1>1, EvidenceInductive, PTL

-----------------------------------------------------------------------------
(* What the answers hold.  What is selected of the fixture is what is      *)
(* wanted of it, all of it.                                                *)
LEMMA SelectKnown ==
  ASSUME NEW p, NEW q
  PROVE  /\ \A n \in DOMAIN Select(p, q) :
              \E i \in DOMAIN Fixture : Select(p, q)[n] = Fixture[i] /\ Wanted(p, q, Fixture[i])
         /\ \A i \in DOMAIN Fixture : Wanted(p, q, Fixture[i]) => Fixture[i] \in ToSet(Select(p, q))
<1>1. PICK I : I = {i \in DOMAIN Fixture : Wanted(p, q, Fixture[i])}
  OBVIOUS
<1>2. PICK len \in Nat : DOMAIN Fixture = 1..len
  BY EvidenceAssumption
<1>3. I \subseteq Nat /\ IsFiniteSet(I)
  <2>1. IsFiniteSet(1..len) /\ I \subseteq 1..len /\ 1..len \subseteq Nat
    BY <1>1, <1>2, FS_Interval
  <2> QED BY <2>1, FS_Subset
<1>4. PICK some : some = Select(p, q)
  OBVIOUS
<1>5. some = Staying(Fixture, I)
  BY <1>1, <1>4 DEF Select
<1>6. HasKept(some, Fixture, I)
  BY <1>3, <1>5, KeptAll
<1>7. \A i \in I : Fixture[i] \in ToSet(some)
  BY <1>6 DEF ToSet, HasKept
<1> QED BY <1>1, <1>4, <1>6, <1>7 DEF HasKept

(* A record of the fixture has its code and its month as assumed.          *)
LEMMA FixtureKnown ==
  ASSUME NEW i \in DOMAIN Fixture
  PROVE  Fixture[i].month \in Fixture[i].mentions /\ Fixture[i].code \in Seq(Nat)
<1>1. Fixture[i] \in ToSet(Fixture)
  BY DEF ToSet
<1> QED BY <1>1, EvidenceAssumption

(* Of two codes one of which begins with the other the first entries agree.*)
LEMMA PrefixesAgree ==
  ASSUME NEW c \in Seq(Nat), NEW d \in Seq(Nat), c # <<>>, d # <<>>, IsPrefix(c, d)
  PROVE  c[1] = d[1]
<1>1. PICK m : m = Len(c)
  OBVIOUS
<1>2. m \in Nat /\ m >= 1 /\ m <= Len(d) /\ SubSeq(c, 1, m) = SubSeq(d, 1, m)
  BY <1>1 DEF IsPrefix
<1>3. SubSeq(c, 1, m)[1] = c[1] /\ SubSeq(d, 1, m)[1] = d[1]
  BY <1>1, <1>2
<1> QED BY <1>2, <1>3

(* RecordsAsked of what is told.                                           *)
RecordsTold(t) ==
  t.kind = "records" =>
    /\ \A i \in DOMAIN t.records :
         /\ t.records[i].provider = source /\ t.records[i].place = t.q.place
         /\ (source = "cbp" /\ t.q.code # <<>>) =>
              (t.records[i].code # <<>> /\ t.records[i].code[1] = t.q.code[1])
    /\ (desk.seed /\ t.q.code = <<>>) =>
         \A i \in DOMAIN Fixture :
           (/\ Fixture[i].provider = source /\ Fixture[i].place = t.q.place
            /\ t.q.when \subseteq {Fixture[i].month}
            /\ t.q.metrics = {} \/ Fixture[i].metric \in t.q.metrics)
           => Fixture[i] \in ToSet(t.records)

LEMMA SelectAsked ==
  ASSUME NEW q, q.code \in Seq(Nat), NEW t, t.kind = "records", t.q = q, t.records = Select(source, q)
  PROVE  RecordsTold(t)
<1>1. PICK some : some = Select(source, q)
  OBVIOUS
<1>2. /\ \A n \in DOMAIN some :
           \E i \in DOMAIN Fixture : some[n] = Fixture[i] /\ Wanted(source, q, Fixture[i])
      /\ \A i \in DOMAIN Fixture : Wanted(source, q, Fixture[i]) => Fixture[i] \in ToSet(some)
  BY <1>1, SelectKnown
<1>3. ASSUME NEW n \in DOMAIN some
      PROVE  /\ some[n].provider = source /\ some[n].place = q.place
             /\ (source = "cbp" /\ q.code # <<>>) => (some[n].code # <<>> /\ some[n].code[1] = q.code[1])
  <2>1. PICK i \in DOMAIN Fixture : some[n] = Fixture[i] /\ Wanted(source, q, Fixture[i])
    BY <1>2
  <2>2. some[n].code \in Seq(Nat)
    BY <2>1, FixtureKnown
  <2>3. some[n].provider = source /\ some[n].place = q.place /\ OfCode(source, q, some[n])
    BY <2>1 DEF Wanted
  <2>4. ASSUME source = "cbp", q.code # <<>> PROVE some[n].code # <<>> /\ some[n].code[1] = q.code[1]
    <3>1. some[n].code # <<>> /\ (IsPrefix(q.code, some[n].code) \/ IsPrefix(some[n].code, q.code))
      BY <2>3, <2>4 DEF OfCode
    <3> QED BY <2>2, <2>4, <3>1, PrefixesAgree
  <2> QED BY <2>3, <2>4
<1>4. ASSUME q.code = <<>>, NEW i \in DOMAIN Fixture,
             Fixture[i].provider = source, Fixture[i].place = q.place,
             q.when \subseteq {Fixture[i].month}, q.metrics = {} \/ Fixture[i].metric \in q.metrics
      PROVE  Fixture[i] \in ToSet(some)
  <2>1. q.when \subseteq Fixture[i].mentions
    BY <1>4, FixtureKnown
  <2>2. OfCode(source, q, Fixture[i])
    BY <1>4 DEF OfCode
  <2>3. Wanted(source, q, Fixture[i])
    BY <1>4, <2>1, <2>2 DEF Wanted
  <2> QED BY <1>2, <2>3
<1> QED BY <1>1, <1>3, <1>4 DEF RecordsTold

-----------------------------------------------------------------------------
(* The summary of the flood zones goes through them one by one.            *)
LEMMA SummaryUnfolds ==
  ASSUME NEW fs, Len(fs) \in Nat
  PROVE  \E g : /\ g[0] = NoFlood
                /\ \A n \in 1..Len(fs) : g[n] = FoldFlood(g[n - 1], fs[n])
                /\ FloodSummary(fs) = g[Len(fs)]
<1> DEFINE Goes(g, m) == g = [n \in 0..m |-> IF n = 0 THEN NoFlood ELSE FoldFlood(g[n - 1], fs[n])]
           Bad == {m \in Nat : ~ \E g : Goes(g, m)}
<1>1. Bad = {}
  <2>1. SUFFICES ASSUME Bad # {} PROVE FALSE
    OBVIOUS
  <2>2. PICK m \in Bad : \A k \in Bad : m <= k
    <3>1. Bad \subseteq Nat
      OBVIOUS
    <3> HIDE DEF Bad
    <3> QED BY <2>1, <3>1, LeastIn
  <2>3. m \in Nat /\ ~ \E g : Goes(g, m)
    OBVIOUS
  <2>4. CASE m = 0
    <3>1. PICK g : g = [n \in 0..0 |-> NoFlood]
      OBVIOUS
    <3>2. \A n \in 0..0 : (IF n = 0 THEN NoFlood ELSE FoldFlood(g[n - 1], fs[n])) = NoFlood
      OBVIOUS
    <3>3. Goes(g, 0)
      BY <3>1, <3>2
    <3> QED BY <2>3, <2>4, <3>3
  <2>5. CASE m # 0
    <3>1. m - 1 \in Nat /\ m - 1 \notin Bad
      <4> HIDE DEF Bad
      <4> QED BY <2>2, <2>3, <2>5
    <3>2. PICK g : Goes(g, m - 1)
      BY <3>1
    <3>3. PICK h : h = [n \in 0..m |-> IF n = m THEN FoldFlood(g[m - 1], fs[m]) ELSE g[n]]
      OBVIOUS
    <3>4. \A n \in 0..(m - 1) : h[n] = g[n] /\ n \in 0..m
      BY <2>3, <3>3
    <3>5. \A n \in 0..(m - 1) : g[n] = IF n = 0 THEN NoFlood ELSE FoldFlood(g[n - 1], fs[n])
      BY <3>2
    <3>6. ASSUME NEW n \in 0..m PROVE h[n] = IF n = 0 THEN NoFlood ELSE FoldFlood(h[n - 1], fs[n])
      <4>1. CASE n = m
        <5>1. h[n] = FoldFlood(g[m - 1], fs[m]) /\ h[m - 1] = g[m - 1]
          BY <2>3, <2>5, <3>1, <3>3, <3>4, <4>1
        <5> QED BY <2>5, <4>1, <5>1
      <4>2. CASE n # m /\ n # 0
        <5>1. n \in 0..(m - 1) /\ n - 1 \in 0..(m - 1)
          BY <2>3, <4>2
        <5> QED BY <3>4, <3>5, <4>2, <5>1
      <4>3. CASE n # m /\ n = 0
        <5>1. n \in 0..(m - 1)
          BY <2>3, <4>3
        <5> QED BY <3>4, <3>5, <4>3, <5>1
      <4> QED BY <4>1, <4>2, <4>3
    <3>7. h = [n \in 0..m |-> IF n = 0 THEN NoFlood ELSE FoldFlood(h[n - 1], fs[n])]
      <4>1. h = [n \in 0..m |-> h[n]]
        BY <3>3
      <4> QED BY <3>6, <4>1
    <3> QED BY <2>3, <3>7
  <2> QED BY <2>4, <2>5
<1>2. PICK len \in Nat : len = Len(fs)
  OBVIOUS
<1>3. \E g : Goes(g, len)
  BY <1>1
<1>4. PICK g : g = CHOOSE x : Goes(x, len)
  OBVIOUS
<1>5. Goes(g, len)
  BY <1>3, <1>4
<1>6. FloodSummary(fs) = g[len]
  BY <1>2, <1>4 DEF FloodSummary
<1>7. g[0] = NoFlood
  BY <1>2, <1>5
<1>8. \A n \in 1..len : g[n] = FoldFlood(g[n - 1], fs[n])
  <2>1. \A n \in 1..len : n \in 0..len /\ n # 0
    OBVIOUS
  <2> QED BY <1>5, <2>1
<1> QED BY <1>2, <1>6, <1>7, <1>8

FloodClasses == {"high", "moderate", "minimal", "undetermined", "unknown"}

LEMMA ClassKnown ==
  ASSUME NEW f
  PROVE  Classify(f) \in FloodClasses
<1>1. PICK z, sh : z = f.zone /\ sh = f.shaded
  OBVIOUS
<1>2. Classify(f) = CASE z \in {"A", "AE", "AO", "VE"}      -> "high"
                      [] z = "B" \/ (z = "X" /\ sh)         -> "moderate"
                      [] z = "C" \/ (z = "X" /\ ~sh)        -> "minimal"
                      [] z = "D"                            -> "undetermined"
                      [] OTHER                              -> "unknown"
  BY <1>1 DEF Classify
<1> QED BY ONLY <1>2 DEF FloodClasses

(* What the first n zones make of the summary: the worst class of them,    *)
(* with the zone it comes of, and the highest base flood elevation.        *)
SummaryOf(s, fs, n) ==
  /\ s.bfe \in Int /\ \A i \in 1..n : s.bfe >= fs[i].bfe
  /\ s.class \in {"high", "moderate", "minimal", "undetermined"}
  /\ \A i \in 1..n :
       /\ Classify(fs[i]) = "high" => s.class = "high"
       /\ Classify(fs[i]) = "moderate" => s.class \in {"high", "moderate"}
       /\ Classify(fs[i]) = "undetermined" => s.class # "minimal"
  /\ s.class # "minimal" => \E i \in 1..n : fs[i].zone = s.zone /\ Classify(fs[i]) = s.class

LEMMA SummaryStep ==
  ASSUME NEW s, NEW fs, NEW n \in Nat, n # 0, SummaryOf(s, fs, n - 1), fs[n].bfe \in Int,
         \A i \in 1..n : fs[i].bfe \in Int
  PROVE  SummaryOf(FoldFlood(s, fs[n]), fs, n)
<1>1. PICK f, c : f = fs[n] /\ c = Classify(f)
  OBVIOUS
<1>2. PICK t : t = FoldFlood(s, f)
  OBVIOUS
<1>3. /\ t.zone = IF Outranks(c, s.class) THEN f.zone ELSE s.zone
      /\ t.class = IF Outranks(c, s.class) THEN c ELSE s.class
      /\ t.bfe = IF f.bfe > s.bfe THEN f.bfe ELSE s.bfe
  BY <1>1, <1>2 DEF FoldFlood
<1>4. \A i \in 1..n : i \in 1..(n - 1) \/ i = n
  OBVIOUS
<1>5. c \in FloodClasses
  BY <1>1, ClassKnown
<1>6. t.bfe \in Int /\ \A i \in 1..n : t.bfe >= fs[i].bfe
  <2>1. s.bfe \in Int /\ \A i \in 1..(n - 1) : s.bfe >= fs[i].bfe
    BY DEF SummaryOf
  <2>2. t.bfe \in Int /\ t.bfe >= s.bfe /\ t.bfe >= f.bfe
    BY <1>1, <1>3, <2>1
  <2>3. ASSUME NEW i \in 1..n PROVE t.bfe >= fs[i].bfe
    <3>1. CASE i \in 1..(n - 1)
      BY <2>1, <2>2, <3>1
    <3>2. CASE i = n
      BY <1>1, <2>2, <3>2
    <3> QED BY <1>4, <3>1, <3>2
  <2> QED BY <2>2, <2>3
<1>7. /\ s.class \in {"high", "moderate", "minimal", "undetermined"}
      /\ \A i \in 1..(n - 1) :
           /\ Classify(fs[i]) = "high" => s.class = "high"
           /\ Classify(fs[i]) = "moderate" => s.class \in {"high", "moderate"}
           /\ Classify(fs[i]) = "undetermined" => s.class # "minimal"
      /\ s.class # "minimal" => \E i \in 1..(n - 1) : fs[i].zone = s.zone /\ Classify(fs[i]) = s.class
  BY DEF SummaryOf
<1>8. /\ t.class \in {"high", "moderate", "minimal", "undetermined"}
      /\ s.class = "high" => t.class = "high"
      /\ s.class = "moderate" => t.class \in {"high", "moderate"}
      /\ s.class = "undetermined" => t.class # "minimal"
      /\ c = "high" => t.class = "high"
      /\ c = "moderate" => t.class \in {"high", "moderate"}
      /\ c = "undetermined" => t.class # "minimal"
      /\ (t.class = c /\ t.zone = f.zone) \/ (t.class = s.class /\ t.zone = s.zone)
  BY <1>3, <1>5, <1>7 DEF FloodClasses, Outranks
<1>9. ASSUME NEW i \in 1..n
      PROVE  /\ Classify(fs[i]) = "high" => t.class = "high"
             /\ Classify(fs[i]) = "moderate" => t.class \in {"high", "moderate"}
             /\ Classify(fs[i]) = "undetermined" => t.class # "minimal"
  <2>1. CASE i \in 1..(n - 1)
    BY <1>7, <1>8, <2>1
  <2>2. CASE i = n
    BY <1>1, <1>8, <2>2
  <2> QED BY <1>4, <2>1, <2>2
<1>10. ASSUME t.class # "minimal" PROVE \E i \in 1..n : fs[i].zone = t.zone /\ Classify(fs[i]) = t.class
  <2>1. CASE t.class = c /\ t.zone = f.zone
    <3>1. n \in 1..n
      OBVIOUS
    <3> QED BY <1>1, <2>1, <3>1
  <2>2. CASE t.class = s.class /\ t.zone = s.zone
    <3>1. PICK i \in 1..(n - 1) : fs[i].zone = s.zone /\ Classify(fs[i]) = s.class
      BY <1>7, <1>10, <2>2
    <3>2. i \in 1..n
      OBVIOUS
    <3> QED BY <2>2, <3>1, <3>2
  <2> QED BY <1>8, <2>1, <2>2
<1>11. SummaryOf(t, fs, n)
  BY <1>6, <1>8, <1>9, <1>10 DEF SummaryOf
<1> QED BY <1>1, <1>2, <1>11

LEMMA SummaryKnown ==
  ASSUME NEW fs, NEW len \in Nat, Len(fs) = len, \A i \in 1..len : fs[i].bfe \in Int
  PROVE  SummaryOf(FloodSummary(fs), fs, len)
<1>1. PICK g : /\ g[0] = NoFlood /\ \A n \in 1..len : g[n] = FoldFlood(g[n - 1], fs[n])
               /\ FloodSummary(fs) = g[len]
  BY SummaryUnfolds
<1> DEFINE Bad == {n \in 0..len : ~SummaryOf(g[n], fs, n)}
<1>2. Bad = {}
  <2>1. SUFFICES ASSUME Bad # {} PROVE FALSE
    OBVIOUS
  <2>2. PICK n \in Bad : \A k \in Bad : n <= k
    <3>1. Bad \subseteq Nat
      OBVIOUS
    <3> HIDE DEF Bad
    <3> QED BY <2>1, <3>1, LeastIn
  <2>3. n \in 0..len /\ ~SummaryOf(g[n], fs, n)
    OBVIOUS
  <2>4. n # 0
    <3>1. PICK s : s = NoFlood
      OBVIOUS
    <3>2. s.class = "minimal" /\ s.bfe = -1
      BY <3>1 DEF NoFlood, NoBase
    <3>3. SummaryOf(s, fs, 0)
      BY <3>2 DEF SummaryOf
    <3> QED BY <1>1, <2>3, <3>1, <3>3
  <2>5. n - 1 \in 0..len /\ n - 1 \notin Bad
    <3>1. n - 1 \in 0..len /\ n \in Int
      BY <2>3, <2>4
    <3> HIDE DEF Bad
    <3> QED BY <2>2, <3>1
  <2>6. SummaryOf(g[n - 1], fs, n - 1)
    BY <2>5
  <2>7. n \in 1..len /\ n \in Nat
    BY <2>3, <2>4
  <2>8. \A i \in 1..n : fs[i].bfe \in Int
    BY <2>7
  <2>9. fs[n].bfe \in Int /\ g[n] = FoldFlood(g[n - 1], fs[n])
    BY <1>1, <2>7
  <2> HIDE DEF Bad
  <2>10. PICK s : s = g[n - 1]
    OBVIOUS
  <2>11. SummaryOf(FoldFlood(s, fs[n]), fs, n)
    BY <2>4, <2>6, <2>7, <2>8, <2>9, <2>10, SummaryStep
  <2> QED BY <2>3, <2>9, <2>10, <2>11
<1>3. len \in 0..len
  OBVIOUS
<1>4. SummaryOf(g[len], fs, len)
  BY <1>2, <1>3
<1> QED BY <1>1, <1>4

(* FloodsTrue of what is told.                                             *)
FloodsTold(fs) ==
  LET s == FloodSummary(fs)
      classes == {Classify(fs[i]) : i \in DOMAIN fs}
  IN /\ ("high" \in classes) => s.class = "high"
     /\ ("high" \notin classes /\ "moderate" \in classes) => s.class = "moderate"
     /\ (s.class = "minimal") => classes \subseteq {"minimal", "unknown"}
     /\ s.class # "minimal" => \E i \in DOMAIN fs : fs[i].zone = s.zone /\ Classify(fs[i]) = s.class
     /\ \A i \in DOMAIN fs : s.bfe >= fs[i].bfe

LEMMA SummaryTrue ==
  ASSUME NEW fs, NEW len \in Nat, Len(fs) = len, DOMAIN fs = 1..len, \A i \in 1..len : fs[i].bfe \in Int
  PROVE  FloodsTold(fs)
<1>1. PICK s, classes : s = FloodSummary(fs) /\ classes = {Classify(fs[i]) : i \in DOMAIN fs}
  OBVIOUS
<1>2. /\ \A i \in 1..len : s.bfe >= fs[i].bfe
      /\ s.class \in {"high", "moderate", "minimal", "undetermined"}
      /\ \A i \in 1..len :
           /\ Classify(fs[i]) = "high" => s.class = "high"
           /\ Classify(fs[i]) = "moderate" => s.class \in {"high", "moderate"}
           /\ Classify(fs[i]) = "undetermined" => s.class # "minimal"
      /\ s.class # "minimal" => \E i \in 1..len : fs[i].zone = s.zone /\ Classify(fs[i]) = s.class
  BY <1>1, SummaryKnown DEF SummaryOf
<1>3. \A c \in classes : \E i \in 1..len : c = Classify(fs[i])
  BY <1>1
<1>4. \A i \in 1..len : Classify(fs[i]) \in classes
  BY <1>1
<1>5. "high" \in classes => s.class = "high"
  BY <1>2, <1>3
<1>6. ("high" \notin classes /\ "moderate" \in classes) => s.class = "moderate"
  BY <1>2, <1>3, <1>4
<1>7. s.class = "minimal" => classes \subseteq {"minimal", "unknown"}
  <2>1. \A c \in classes : c \in FloodClasses
    BY <1>3, ClassKnown
  <2> QED BY <1>2, <1>3, <2>1 DEF FloodClasses
<1> QED BY <1>1, <1>2, <1>5, <1>6, <1>7 DEF FloodsTold

(* What a flood query is answered with: zones of the fixture.              *)
ZonesKnown(fs) ==
  \E len \in Nat : Len(fs) = len /\ DOMAIN fs = 1..len /\ \A i \in 1..len : fs[i].bfe \in Int

LEMMA FloodsKnown ==
  ASSUME NEW q, floods = <<>> \/ floods \in FloodMaps
  PROVE  ZonesKnown(FloodsOf(q))
<1>1. ZonesKnown(<<>>)
  BY DEF ZonesKnown
<1>2. PICK fs : fs = floods
  OBVIOUS
<1>3. PICK S : fs \in Seq(S) /\ \A f \in S : f.bfe \in Int
  <2>1. CASE floods = <<>>
    <3>1. fs \in Seq({}) /\ \A f \in {} : f.bfe \in Int
      BY <1>2, <2>1
    <3> QED BY <3>1
  <2>2. CASE floods \in FloodMaps
    <3>1. fs \in Seq(ToSet(fs)) /\ \A f \in ToSet(fs) : f.bfe \in Int
      BY <1>2, <2>2, EvidenceAssumption
    <3> QED BY <3>1
  <2> QED BY <2>1, <2>2
<1>4. ASSUME NEW gs \in Seq(S) PROVE ZonesKnown(gs)
  <2>1. PICK len \in Nat : len = Len(gs)
    OBVIOUS
  <2>2. DOMAIN gs = 1..len /\ \A i \in 1..len : gs[i] \in S
    BY <2>1
  <2> QED BY <1>3, <2>1, <2>2 DEF ZonesKnown
<1>5. ZonesKnown(fs)
  BY <1>3, <1>4
<1>6. CASE q.by = "area"
  <2>1. PICK I : I = {i \in DOMAIN fs : fs[i].over \cap q.cells # {}}
    OBVIOUS
  <2>2. FloodsOf(q) = Staying(fs, I)
    BY <1>2, <1>6, <2>1 DEF FloodsOf
  <2>3. I \in SUBSET DOMAIN fs
    BY <2>1
  <2>4. Staying(fs, I) \in Seq(S)
    BY <1>3, <2>3, KeptPart
  <2> QED BY <1>4, <2>2, <2>4
<1>7. CASE q.by = "geography"
  <2>1. FloodsOf(q) = IF q.covered THEN fs ELSE <<>>
    BY <1>2, <1>7 DEF FloodsOf
  <2> QED BY <1>1, <1>5, <2>1
<1>8. CASE q.by # "area" /\ q.by # "geography"
  <2>1. FloodsOf(q) = fs
    BY <1>2, <1>8 DEF FloodsOf
  <2> QED BY <1>5, <2>1
<1> QED BY <1>6, <1>7, <1>8

LEMMA ZonesTrue ==
  ASSUME NEW fs, ZonesKnown(fs)
  PROVE  FloodsTold(fs)
BY SummaryTrue DEF ZonesKnown

-----------------------------------------------------------------------------
(* Elevations.  What the elevation fixture holds.                          *)
HeightsKnown ==
  \E len \in Nat : /\ DOMAIN heights = 1..len
                   /\ \A i \in 1..len : /\ heights[i].x \in Int /\ heights[i].y \in Int
                                        /\ heights[i].meters > OffCoverage

LEMMA HeightsHeld ==
  ASSUME heights = <<>> \/ heights \in Heights
  PROVE  HeightsKnown
<1>1. CASE heights = <<>>
  BY <1>1 DEF HeightsKnown
<1>2. CASE heights \in Heights
  <2>1. PICK hs, P : hs = heights /\ P = [x : Int, y : Int, off : BOOLEAN, meters : Int]
    OBVIOUS
  <2>2. hs \in Seq(P) /\ \A p \in ToSet(hs) : p.meters > OffCoverage
    BY <1>2, <2>1, EvidenceAssumption
  <2>3. PICK len \in Nat : len = Len(hs)
    BY <2>2
  <2>4. DOMAIN hs = 1..len /\ \A i \in 1..len : hs[i] \in P
    BY <2>2, <2>3
  <2>5. \A i \in 1..len : hs[i].meters > OffCoverage
    BY <2>2, <2>4 DEF ToSet
  <2>6. \A p \in P : p.x \in Int /\ p.y \in Int
    BY <2>1
  <2> QED BY <2>1, <2>4, <2>5, <2>6 DEF HeightsKnown
<1> QED BY <1>1, <1>2

LEMMA Squared ==
  ASSUME NEW d \in Int
  PROVE  d * d \in Nat
<1>1. CASE d >= 0
  BY <1>1
<1>2. CASE d < 0
  <2>1. PICK e \in Nat : e = 0 - d
    BY <1>2
  <2>2. d * d = e * e /\ e * e \in Nat
    BY <2>1
  <2> QED BY <2>2
<1> QED BY <1>1, <1>2

LEMMA DistanceKnown ==
  ASSUME NEW p, NEW s, p.x \in Int, p.y \in Int, s.x \in Int, s.y \in Int
  PROVE  Distance(p, s) \in Nat
<1>1. PICK dx \in Int, dy \in Int : dx = p.x - s.x /\ dy = p.y - s.y
  OBVIOUS
<1>2. dx * dx \in Nat /\ dy * dy \in Nat
  BY Squared
<1>3. Distance(p, s) = dx * dx + dy * dy
  BY <1>1 DEF Distance
<1> QED BY <1>2, <1>3

(* The nearest point is within the radius and none is nearer; there is one *)
(* or none.                                                                *)
LEMMA NearestKnown ==
  ASSUME NEW s, s.x \in Int, s.y \in Int, HeightsKnown
  PROVE  /\ \A i \in Nearest(s) :
              /\ i \in DOMAIN heights /\ Distance(heights[i], s) < Radius * Radius
              /\ \A j \in DOMAIN heights : Distance(heights[i], s) <= Distance(heights[j], s)
         /\ \A i, j \in Nearest(s) : i = j
<1>1. PICK len \in Nat : /\ DOMAIN heights = 1..len
                         /\ \A i \in 1..len : heights[i].x \in Int /\ heights[i].y \in Int
  BY DEF HeightsKnown
<1>2. PICK d, r : d = [i \in 1..len |-> Distance(heights[i], s)] /\ r = Radius * Radius
  OBVIOUS
<1>3. \A i \in 1..len : d[i] \in Nat /\ d[i] = Distance(heights[i], s)
  BY <1>1, <1>2, DistanceKnown
<1>4. r \in Int
  BY <1>2, EvidenceAssumption
<1>5. PICK near : near = {i \in 1..len : d[i] < r}
  OBVIOUS
<1>6. PICK D : D = {d[i] : i \in near}
  OBVIOUS
<1>7. PICK least : least = CHOOSE x \in D : \A i \in near : x <= d[i]
  OBVIOUS
<1>8. PICK first : first = {i \in near : d[i] = least}
  OBVIOUS
<1>9. Nearest(s) = IF near = {} THEN {} ELSE {Min(first)}
  <2>1. near = {i \in DOMAIN heights : Distance(heights[i], s) < Radius * Radius}
    BY <1>1, <1>2, <1>3, <1>5
  <2>2. \A i \in near : d[i] = Distance(heights[i], s)
    BY <1>3, <1>5
  <2>3. D = {Distance(heights[i], s) : i \in near}
    BY <1>6, <2>2
  <2>4. \A x : (\A i \in near : x <= d[i]) <=> (\A i \in near : x <= Distance(heights[i], s))
    BY <2>2
  <2>5. least = CHOOSE x \in {Distance(heights[i], s) : i \in near} :
                  \A i \in near : x <= Distance(heights[i], s)
    BY <1>7, <2>3, <2>4
  <2>6. first = {i \in near : Distance(heights[i], s) = least}
    BY <1>8, <2>2
  <2> QED BY <2>1, <2>5, <2>6 DEF Nearest
<1>10. CASE near = {}
  BY <1>9, <1>10
<1>11. CASE near # {}
  <2>1. D \subseteq Nat /\ D # {}
    BY <1>3, <1>5, <1>6, <1>11
  <2>2. PICK x \in D : \A y \in D : x <= y
    BY <2>1, LeastIn
  <2>3. \A i \in near : d[i] \in D
    BY <1>6
  <2>4. least \in D /\ \A i \in near : least <= d[i]
    BY <1>7, <2>2, <2>3
  <2>5. first \subseteq Nat /\ first # {}
    BY <1>5, <1>6, <1>8, <2>4
  <2>6. PICK k \in first : \A j \in first : k <= j
    BY <2>5, LeastIn
  <2>7. PICK m : m = Min(first)
    OBVIOUS
  <2>8. m \in first
    BY <2>6, <2>7 DEF Min
  <2>9. m \in 1..len /\ d[m] < r /\ d[m] = least
    BY <1>5, <1>8, <2>8
  <2>10. ASSUME NEW j \in 1..len PROVE d[m] <= d[j]
    <3>1. CASE j \in near
      BY <2>4, <2>9, <3>1
    <3>2. CASE j \notin near
      <4>1. d[m] \in Nat /\ d[j] \in Nat /\ ~(d[j] < r)
        BY <1>3, <1>5, <2>9, <3>2
      <4> QED BY <1>4, <2>9, <4>1
    <3> QED BY <3>1, <3>2
  <2>11. Nearest(s) = {m}
    BY <1>9, <1>11, <2>7
  <2>12. /\ m \in DOMAIN heights /\ Distance(heights[m], s) < Radius * Radius
         /\ \A j \in DOMAIN heights : Distance(heights[m], s) <= Distance(heights[j], s)
    BY <1>1, <1>2, <1>3, <2>9, <2>10
  <2> QED BY <2>11, <2>12
<1> QED BY <1>10, <1>11

(* An estimate of the fixture is of the nearest point, one that is covered.*)
OfPoint(e, s) ==
  e.status = "available" =>
    \E i \in DOMAIN heights :
      /\ ~heights[i].off /\ heights[i].meters = e.value
      /\ Distance(heights[i], s) < Radius * Radius
      /\ \A j \in DOMAIN heights : Distance(heights[i], s) <= Distance(heights[j], s)

LEMMA EstimateKnown ==
  ASSUME NEW s, s.x \in Int, s.y \in Int, HeightsKnown, NEW e \in HeightsOf(s)
  PROVE  /\ e.status = "available" => e.value > OffCoverage
         /\ desk.seed => OfPoint(e, s)
<1>1. PICK none : none = NoHeight
  OBVIOUS
<1>2. none = [status |-> "unavailable", value |-> 0]
  BY <1>1 DEF NoHeight
<1>3. none.status = "unavailable"
  BY ONLY <1>2
<1>4. CASE desk.seed
  <2>1. e = SeedHeight(s)
    BY <1>4 DEF HeightsOf
  <2>2. PICK near, k : near = Nearest(s) /\ k = CHOOSE i \in near : TRUE
    OBVIOUS
  <2>3. e = IF \E i \in near : ~heights[i].off THEN Meters(heights[k].meters) ELSE none
    BY <1>1, <2>1, <2>2 DEF SeedHeight
  <2>4. CASE \E i \in near : ~heights[i].off
    <3>1. k \in near
      BY <2>2, <2>4
    <3>2. ~heights[k].off
      BY <2>2, <2>4, <3>1, NearestKnown
    <3>3. PICK m : m = heights[k].meters
      OBVIOUS
    <3>4. e = [status |-> "available", value |-> m]
      BY <2>3, <2>4, <3>3 DEF Meters
    <3>5. e.value = m
      BY ONLY <3>4
    <3>6. k \in DOMAIN heights /\ Distance(heights[k], s) < Radius * Radius
          /\ \A j \in DOMAIN heights : Distance(heights[k], s) <= Distance(heights[j], s)
      BY <2>2, <3>1, NearestKnown
    <3>7. m > OffCoverage
      BY <3>3, <3>6 DEF HeightsKnown
    <3> QED BY <3>2, <3>3, <3>5, <3>6, <3>7 DEF OfPoint
  <2>5. CASE ~ \E i \in near : ~heights[i].off
    <3>1. e.status = "unavailable"
      BY <1>3, <2>3, <2>5
    <3> QED BY <3>1 DEF OfPoint
  <2> QED BY <2>4, <2>5
<1>5. CASE ~desk.seed
  <2>1. PICK raw \in Raws : e = RawHeight(raw)
    BY <1>5 DEF HeightsOf
  <2>2. PICK v : v = raw.value
    OBVIOUS
  <2>3. CASE raw.kind = "number" /\ v > OffCoverage
    <3>1. e = [status |-> "available", value |-> v]
      BY <2>1, <2>2, <2>3 DEF RawHeight, Meters
    <3>2. e.value = v
      BY ONLY <3>1
    <3> QED BY <1>5, <2>3, <3>2
  <2>4. CASE ~(raw.kind = "number" /\ v > OffCoverage)
    <3>1. e = none
      BY <1>1, <2>1, <2>2, <2>4 DEF RawHeight
    <3> QED BY <1>3, <1>5, <3>1
  <2> QED BY <2>3, <2>4
<1> QED BY <1>4, <1>5

(* An estimate keeps its status in another unit.                           *)
LEMMA UnitKeeps ==
  ASSUME NEW e, NEW unit, NEW st, NEW v, e = [status |-> st, value |-> v]
  PROVE  ToUnit(e, unit).status = st
<1>1. CASE st = "available" /\ unit = "Feet"
  <2>1. ToUnit(e, unit) = [status |-> st, value |-> v * FeetPerMeter]
    BY <1>1 DEF ToUnit
  <2> QED BY ONLY <2>1
<1>2. CASE ~(st = "available" /\ unit = "Feet")
  <2>1. ToUnit(e, unit) = e
    BY <1>2 DEF ToUnit
  <2> QED BY <2>1
<1> QED BY <1>1, <1>2

LEMMA EstimateShape ==
  ASSUME NEW s, NEW e \in HeightsOf(s)
  PROVE  \E st, v : e = [status |-> st, value |-> v]
<1>1. \A v : \E st, w : Meters(v) = [status |-> st, value |-> w]
  BY DEF Meters
<1>2. \E st, w : NoHeight = [status |-> st, value |-> w]
  BY DEF NoHeight
<1>3. CASE desk.seed
  <2>1. e = SeedHeight(s)
    BY <1>3 DEF HeightsOf
  <2>2. (\E v : e = Meters(v)) \/ e = NoHeight
    BY <2>1 DEF SeedHeight
  <2> QED BY <1>1, <1>2, <2>2
<1>4. CASE ~desk.seed
  <2>1. PICK raw \in Raws : e = RawHeight(raw)
    BY <1>4 DEF HeightsOf
  <2>2. (\E v : e = Meters(v)) \/ e = NoHeight
    BY <2>1 DEF RawHeight
  <2> QED BY <1>1, <1>2, <2>2
<1> QED BY <1>3, <1>4

(* A slope comes of two elevations.                                        *)
LEMMA SlopeKnown ==
  ASSUME NEW e1, NEW e2, NEW distance, Slope(e1, e2, distance).status = "available"
  PROVE  e1.status = "available" /\ e2.status = "available"
<1>1. SUFFICES ASSUME e1.status # "available" \/ e2.status # "available" PROVE FALSE
  OBVIOUS
<1>2. PICK none : none = NoHeight
  OBVIOUS
<1>3. none = [status |-> "unavailable", value |-> 0]
  BY <1>2 DEF NoHeight
<1>4. none.status = "unavailable"
  BY ONLY <1>3
<1>5. Slope(e1, e2, distance) = none
  BY <1>1, <1>2 DEF Slope
<1> QED BY <1>4, <1>5

-----------------------------------------------------------------------------
(* HeightsTrue of what is told.                                            *)
HeightsTold(t) ==
  /\ t.kind = "height" =>
       /\ t.records[1].status = t.records[2].status
       /\ (t.records[1].status = "available" /\ desk.seed) =>
            \E i \in DOMAIN heights :
              /\ ~heights[i].off /\ heights[i].meters = t.records[2].value
              /\ Distance(heights[i], t.q.spot) < Radius * Radius
              /\ \A j \in DOMAIN heights :
                   Distance(heights[i], t.q.spot) <= Distance(heights[j], t.q.spot)
       /\ t.records[2].status = "available" => t.records[2].value > OffCoverage
  /\ (t.kind = "slope" /\ t.records[1].status = "available") =>
       \A i \in {2, 3} : t.records[i].status = "available"

(* The fixtures are of the deployment and every answer is true of them.    *)
AnswersInv ==
  /\ floods = <<>> \/ floods \in FloodMaps
  /\ heights = <<>> \/ heights \in Heights
  /\ RecordsTold(told) /\ (told.kind = "floods" => FloodsTold(told.records)) /\ HeightsTold(told)

LEMMA AnswersHold ==
  ASSUME AnswersInv
  PROVE  RecordsAsked /\ FloodsTrue /\ HeightsTrue
<1>1. RecordsAsked
  BY DEF AnswersInv, RecordsTold, RecordsAsked
<1>2. FloodsTrue
  BY DEF AnswersInv, FloodsTold, FloodsTrue
<1>3. HeightsTrue
  BY DEF AnswersInv, HeightsTold, HeightsTrue
<1> QED BY <1>1, <1>2, <1>3

(* What is told is true, when the setting stays.                           *)
LEMMA AnswersKeep ==
  ASSUME AnswersInv, UNCHANGED setting, RecordsTold(told'),
         told'.kind = "floods" => FloodsTold(told'.records), HeightsTold(told')
  PROVE  AnswersInv'
<1>1. UNCHANGED <<source, desk, floods, heights>>
  BY DEF setting
<1>2. RecordsTold(told)'
  BY <1>1 DEF RecordsTold
<1>3. (told.kind = "floods" => FloodsTold(told.records))'
  BY DEF FloodsTold
<1>4. HeightsTold(told)'
  BY <1>1 DEF HeightsTold
<1> QED BY <1>1, <1>2, <1>3, <1>4 DEF AnswersInv

OtherKinds ==
  QueryChecks \cup {"none", "disabled", "seed_mode", "unauthorized", "failed", "of_place", "cached", "fresh"}

LEMMA OtherAnswersKeep ==
  ASSUME AnswersInv, UNCHANGED setting, told'.kind \in OtherKinds
  PROVE  AnswersInv'
<1>1. told'.kind \notin {"records", "floods", "height", "slope"}
  BY DEF OtherKinds, QueryChecks
<1> QED BY <1>1, AnswersKeep DEF RecordsTold, HeightsTold

LEMMA OtherSays ==
  ASSUME AnswersInv, UNCHANGED setting, NEW q, NEW k \in OtherKinds, NEW some, NEW wire, Say(q, k, some, wire)
  PROVE  AnswersInv'
<1>1. told'.kind = k
  BY SaysKnown
<1> QED BY <1>1, OtherAnswersKeep

LEMMA LiveAnswers ==
  ASSUME AnswersInv, UNCHANGED setting, ~desk.seed, NEW q, NEW reply \in {"records", "floods"}, Live(q, reply)
  PROVE  AnswersInv'
<1>1. CASE ~desk.live /\ Say(q, "seed_mode", <<>>, FALSE)
  BY <1>1, OtherSays DEF OtherKinds
<1>2. CASE desk.live /\ source \in Statistics \ {"nri"} /\ Say(q, "unauthorized", <<>>, FALSE)
  BY <1>2, OtherSays DEF OtherKinds
<1>3. CASE \E k \in {reply, "failed"} : Say(q, k, <<>>, TRUE)
  <2>1. PICK k \in {reply, "failed"} : Say(q, k, <<>>, TRUE)
    BY <1>3
  <2>2. told'.kind = k /\ told'.records = <<>> /\ k \notin {"height", "slope"}
    BY <2>1, SaysKnown
  <2>3. FloodsTold(<<>>)
    <3>1. ZonesKnown(<<>>)
      BY DEF ZonesKnown
    <3> QED BY <3>1, ZonesTrue
  <2>4. RecordsTold(told')
    <3>1. DOMAIN told'.records = {}
      BY <2>2
    <3> QED BY <3>1 DEF RecordsTold
  <2>5. HeightsTold(told')
    BY <2>2 DEF HeightsTold
  <2> QED BY <2>2, <2>3, <2>4, <2>5, AnswersKeep
<1> QED BY <1>1, <1>2, <1>3 DEF Live

LEMMA QueryAnswers ==
  ASSUME AnswersInv, NEW q \in Queries, Query(q)
  PROVE  AnswersInv'
<1>1. UNCHANGED setting
  BY DEF Query
<1>2. PICK why, some : why = Refusal(source, q) /\ some = Select(source, q)
  OBVIOUS
<1>3. \/ Say(q, "disabled", <<>>, FALSE)
      \/ why # "none" /\ Say(q, why, <<>>, FALSE)
      \/ desk.seed /\ Say(q, "records", some, FALSE)
      \/ ~desk.seed /\ Live(q, "records")
  BY <1>2 DEF Query
<1>4. CASE Say(q, "disabled", <<>>, FALSE)
  BY <1>1, <1>4, OtherSays DEF OtherKinds
<1>5. CASE why # "none" /\ Say(q, why, <<>>, FALSE)
  <2>1. why \in QueryChecks
    BY <1>2, <1>5, RefusalKnown
  <2>2. told'.kind = why
    BY <1>5, SaysKnown
  <2>3. told'.kind \in OtherKinds
    BY <2>1, <2>2 DEF OtherKinds
  <2> QED BY <1>1, <2>3, OtherAnswersKeep
<1>6. CASE desk.seed /\ Say(q, "records", some, FALSE)
  <2>1. told'.q = q /\ told'.kind = "records" /\ told'.records = some
    BY <1>6, SaysKnown
  <2>2. q.code \in Seq(Nat)
    <3>1. q.code \in {<<>>, <<5>>, <<5, 4>>}
      BY DEF Queries
    <3>2. <<>> \in Seq(Nat) /\ <<5>> \in Seq(Nat) /\ <<5, 4>> \in Seq(Nat)
      <4>1. PICK one, two : one = <<5>> /\ two = <<5, 4>>
        OBVIOUS
      <4>2. one \in Seq(Nat)
        BY ONLY <4>1
      <4>3. two \in Seq(Nat)
        BY ONLY <4>1
      <4> QED BY ONLY <4>1, <4>2, <4>3
    <3> QED BY ONLY <3>1, <3>2
  <2>3. RecordsTold(told')
    BY <1>2, <2>1, <2>2, SelectAsked
  <2>4. HeightsTold(told')
    BY <2>1 DEF HeightsTold
  <2> QED BY <1>1, <2>1, <2>3, <2>4, AnswersKeep
<1>7. CASE ~desk.seed /\ Live(q, "records")
  BY <1>1, <1>7, LiveAnswers
<1> QED BY <1>3, <1>4, <1>5, <1>6, <1>7

LEMMA PlaceAnswers ==
  ASSUME AnswersInv, NEW place, ByGeography(place)
  PROVE  AnswersInv'
<1>1. UNCHANGED setting
  BY DEF ByGeography
<1>2. PICK q, some : some = Select(source, q)
                     /\ q = [place |-> place, code |-> <<>>, metrics |-> {}, when |-> {}, faults |-> {}]
  OBVIOUS
<1>3. \/ Say(q, "disabled", <<>>, FALSE) \/ Say(q, "geography", <<>>, FALSE) \/ Say(q, "of_place", some, FALSE)
  BY <1>2 DEF ByGeography
<1> QED BY <1>1, <1>3, OtherSays DEF OtherKinds, QueryChecks

LEMMA FloodAnswers ==
  ASSUME AnswersInv, NEW q, FloodQuery(q)
  PROVE  AnswersInv'
<1>1. UNCHANGED setting
  BY DEF FloodQuery
<1>2. PICK some : some = FloodsOf(q)
  OBVIOUS
<1>3. \/ Say(q, "disabled", <<>>, FALSE)
      \/ Say(q, "floods", some, FALSE)
      \/ ~desk.seed /\ Live(q, "floods")
  BY <1>2 DEF FloodQuery
<1>4. CASE Say(q, "disabled", <<>>, FALSE)
  BY <1>1, <1>4, OtherSays DEF OtherKinds
<1>5. CASE Say(q, "floods", some, FALSE)
  <2>1. told'.kind = "floods" /\ told'.records = some
    BY <1>5, SaysKnown
  <2>2. FloodsTold(some)
    BY <1>2, FloodsKnown, ZonesTrue DEF AnswersInv
  <2>3. RecordsTold(told') /\ HeightsTold(told')
    BY <2>1 DEF RecordsTold, HeightsTold
  <2> QED BY <1>1, <2>1, <2>2, <2>3, AnswersKeep
<1>6. CASE ~desk.seed /\ Live(q, "floods")
  BY <1>1, <1>6, LiveAnswers
<1> QED BY <1>3, <1>4, <1>5, <1>6

LEMMA RefusedAnswers ==
  ASSUME AnswersInv, UNCHANGED setting, NEW q, Refused3dep(q)
  PROVE  AnswersInv'
<1>1. Say(q, "disabled", <<>>, FALSE) \/ Say(q, "seed_mode", <<>>, FALSE)
  BY DEF Refused3dep
<1> QED BY <1>1, OtherSays DEF OtherKinds

LEMMA HeightAnswers ==
  ASSUME AnswersInv, NEW s \in Spots, NEW unit, HeightQuery(s, unit)
  PROVE  AnswersInv'
<1>1. UNCHANGED setting
  BY DEF HeightQuery
<1>2. PICK q : q = [spot |-> s, unit |-> unit]
  OBVIOUS
<1>3. Refused3dep(q) \/ \E e \in HeightsOf(s) : Say(q, "height", <<ToUnit(e, unit), e>>, ~desk.seed)
  BY <1>2 DEF HeightQuery
<1>4. CASE Refused3dep(q)
  BY <1>1, <1>4, RefusedAnswers
<1>5. ASSUME NEW e \in HeightsOf(s), Say(q, "height", <<ToUnit(e, unit), e>>, ~desk.seed) PROVE AnswersInv'
  <2>1. PICK u, r, wire : u = ToUnit(e, unit) /\ r = <<u, e>> /\ wire = ~desk.seed
    OBVIOUS
  <2>2. Say(q, "height", r, wire)
    BY <1>5, <2>1
  <2>3. told'.q = q /\ told'.kind = "height" /\ told'.records = r
    BY <2>2, SaysKnown
  <2>4. r[1] = u /\ r[2] = e /\ q.spot = s
    BY <1>2, <2>1
  <2>5. PICK st, v : e = [status |-> st, value |-> v]
    BY EstimateShape
  <2>6. u.status = st /\ e.status = st
    BY <2>1, <2>5, UnitKeeps
  <2>7. s.x \in Int /\ s.y \in Int
    BY EvidenceAssumption
  <2>8. HeightsKnown
    BY HeightsHeld DEF AnswersInv
  <2>9. (e.status = "available" => e.value > OffCoverage) /\ (desk.seed => OfPoint(e, s))
    BY <2>7, <2>8, EstimateKnown
  <2>10. RecordsTold(told')
    BY <2>3 DEF RecordsTold
  <2>11. HeightsTold(told')
    BY <2>3, <2>4, <2>6, <2>9 DEF HeightsTold, OfPoint
  <2> QED BY <1>1, <2>3, <2>10, <2>11, AnswersKeep
<1> QED BY <1>3, <1>4, <1>5

LEMMA SlopeAnswers ==
  ASSUME AnswersInv, NEW s1, NEW s2, SlopeQuery(s1, s2)
  PROVE  AnswersInv'
<1>1. UNCHANGED setting
  BY DEF SlopeQuery
<1>2. PICK q, d : q = [spot |-> s1, unit |-> "slope"] /\ d = Distance(s1, s2)
  OBVIOUS
<1>3. \/ Refused3dep(q)
      \/ \E e1 \in HeightsOf(s1), e2 \in HeightsOf(s2) :
           Say(q, "slope", <<Slope(e1, e2, d), e1, e2>>, ~desk.seed)
  BY <1>2 DEF SlopeQuery
<1>4. CASE Refused3dep(q)
  BY <1>1, <1>4, RefusedAnswers
<1>5. ASSUME NEW e1, NEW e2, Say(q, "slope", <<Slope(e1, e2, d), e1, e2>>, ~desk.seed) PROVE AnswersInv'
  <2>1. PICK u, r, wire : u = Slope(e1, e2, d) /\ r = <<u, e1, e2>> /\ wire = ~desk.seed
    OBVIOUS
  <2>2. Say(q, "slope", r, wire)
    BY <1>5, <2>1
  <2>3. told'.kind = "slope" /\ told'.records = r
    BY <2>2, SaysKnown
  <2>4. r[1] = u /\ r[2] = e1 /\ r[3] = e2
    BY <2>1
  <2>5. u.status = "available" => e1.status = "available" /\ e2.status = "available"
    BY <2>1, SlopeKnown
  <2>6. RecordsTold(told')
    BY <2>3 DEF RecordsTold
  <2>7. HeightsTold(told')
    BY <2>3, <2>4, <2>5 DEF HeightsTold
  <2> QED BY <1>1, <2>3, <2>6, <2>7, AnswersKeep
<1> QED BY <1>3, <1>4, <1>5

(* The commercial map says of itself alone.                                *)
LEMMA MapAnswersAlone ==
  ASSUME AnswersInv, UNCHANGED setting, told' = told \/ told'.kind \in OtherKinds
  PROVE  AnswersInv'
<1>1. CASE told' = told
  BY <1>1, AnswersKeep DEF AnswersInv
<1>2. CASE told'.kind \in OtherKinds
  BY <1>2, OtherAnswersKeep
<1> QED BY <1>1, <1>2

LEMMA MapSteps ==
  ASSUME AnswersInv, NEW c, NEW b, CallMap(c, b) \/ SendMap(c) \/ MapAnswers(c) \/ MinutePasses
  PROVE  AnswersInv'
<1>1. UNCHANGED setting
  BY DEF CallMap, SendMap, MapAnswers, MinutePasses
<1>2. CASE CallMap(c, b)
  <2>1. CASE Say(b, "disabled", <<>>, FALSE) \/ Say(b, "seed_mode", <<>>, FALSE)
    BY <1>1, <2>1, OtherSays DEF OtherKinds
  <2>2. CASE FromMapCache(b)
    <3>1. PICK some : some = <<cached[b]>>
      OBVIOUS
    <3>2. Say(b, "cached", some, FALSE)
      BY <2>2, <3>1 DEF FromMapCache
    <3> QED BY <1>1, <3>2, OtherSays DEF OtherKinds
  <2>3. CASE FromMapSeed(b)
    <3>1. PICK some : some = <<cached'[b]>>
      OBVIOUS
    <3>2. Say(b, "fresh", some, FALSE)
      BY <2>3, <3>1 DEF FromMapSeed
    <3> QED BY <1>1, <3>2, OtherSays DEF OtherKinds
  <2>4. CASE AskMap(c, b)
    BY <1>1, <2>4, MapAnswersAlone DEF AskMap
  <2> QED BY <1>2, <2>1, <2>2, <2>3, <2>4 DEF CallMap
<1>3. CASE SendMap(c)
  BY <1>1, <1>3, MapAnswersAlone DEF SendMap
<1>4. CASE MapAnswers(c)
  <2>1. PICK area, some : area = calling[c].box /\ some = <<cached'[area]>>
    OBVIOUS
  <2>2. Say(area, "fresh", some, TRUE) \/ Say(area, "failed", <<>>, TRUE)
    BY <1>4, <2>1 DEF MapAnswers
  <2> QED BY <1>1, <2>2, OtherSays DEF OtherKinds
<1>5. CASE MinutePasses
  <2>1. told'.kind = "none"
    BY <1>5 DEF MinutePasses, Silence
  <2> QED BY <1>1, <2>1, OtherAnswersKeep DEF OtherKinds
<1> QED BY <1>2, <1>3, <1>4, <1>5

LEMMA AnswersInductive == EvidenceSpec => []AnswersInv
<1>1. EvidenceInit => AnswersInv
  <2> SUFFICES ASSUME EvidenceInit PROVE AnswersInv
    OBVIOUS
  <2>1. told.kind = "none"
    BY DEF EvidenceInit, Silence
  <2>2. (floods = <<>> \/ floods \in FloodMaps) /\ (heights = <<>> \/ heights \in Heights)
    BY DEF EvidenceInit
  <2> QED BY <2>1, <2>2 DEF AnswersInv, RecordsTold, HeightsTold
<1>2. ASSUME AnswersInv, [EvidenceNext]_evidenceVars PROVE AnswersInv'
  <2>1. CASE EvidenceNext
    BY <1>2, <2>1, QueryAnswers, PlaceAnswers, FloodAnswers, HeightAnswers, SlopeAnswers, MapSteps DEF EvidenceNext
  <2>2. CASE UNCHANGED evidenceVars
    BY <1>2, <2>2, MapAnswersAlone DEF evidenceVars
  <2> QED BY <1>2, <2>1, <2>2
<1> QED BY <1>1, <1>2, PTL DEF EvidenceSpec

(* For any fixtures, places and switches: a record is told only of its own *)
(* place and provider and of a related industry, and no record of the      *)
(* month asked for is left out (blsLau.ts, blsOews.ts, censusAcs.ts,       *)
(* censusCbpZbp.ts, femaNri.ts).                                           *)
THEOREM RecordsAlwaysAsked == EvidenceSpec => []RecordsAsked
BY AnswersInductive, AnswersHold, PTL

(* For any flood fixture: a summary is of the worst class present, with    *)
(* the zone it comes of and the highest base elevation (femaNfhl.ts).      *)
THEOREM FloodsAlwaysTrue == EvidenceSpec => []FloodsTrue
BY AnswersInductive, AnswersHold, PTL

(* For any elevation fixture, coordinates and radius: a seed elevation is  *)
(* that of a covered point with none nearer, a point off coverage is never *)
(* a number and a slope never comes of one (usgs3dep.ts).                  *)
THEOREM HeightsAlwaysTrue == EvidenceSpec => []HeightsTrue
BY AnswersInductive, AnswersHold, PTL

(* What the evidence providers promise together.                           *)
THEOREM EvidenceAlwaysHonest == EvidenceSpec => []EvidenceHonest
BY EvidenceDeskKept, RecordsAlwaysAsked, FloodsAlwaysTrue, HeightsAlwaysTrue, MapAlwaysKept, PTL DEF EvidenceHonest

-----------------------------------------------------------------------------
(* ECONOMIC ANALYSES.  What a step asks, and what it answers.              *)
LEMMA OneQuestion ==
  ASSUME AnalysisNext
  PROVE  \/ /\ question'.of = "cell"
            /\ \E b \in Bureaus, c \in Cells, f \in BOOLEAN :
                 /\ question'.q = [bureau |-> b, cell |-> c, flagged |-> f]
                 /\ answer' = <<Parse(b, c, f), Margin(c)>>
         \/ /\ question'.of = "margin"
            /\ \E ms \in BoundedSeq(Numbers, MaxParts), n, d \in Numbers :
                 /\ d > 0 /\ Len(ms) = 2
                 /\ question'.q = [parts |-> ms, n |-> n, d |-> d]
                 /\ answer' = <<SumMargin(ms), ProportionMargin(n, ms[1], d, ms[2]), RatioMargin(n, ms[1], d, ms[2])>>
         \/ question'.of = "market" /\ question'.q \in Markets /\ answer' = Market(question'.q)
         \/ question'.of = "competition" /\ question'.q \in Contests /\ answer' = Competition(question'.q)
         \/ question'.of = "locations" /\ question'.q \in Comparisons /\ answer' = Compare(question'.q)
         \/ /\ question'.of = "relevance"
            /\ question'.q.record \in Records /\ question'.q.asked \in Records
            /\ answer' = Relevant(question'.q.record, question'.q.asked)
         \/ question'.of = "workforce" /\ question'.q \in Workforces /\ answer' = Workforce(question'.q)
         \/ question'.of = "preview" /\ question'.q \in Previews /\ answer' = Preview(question'.q)
         \/ question'.of = "footprint" /\ question'.q \in BoundedSeq(Elements, 3) /\ answer' = Summary(question'.q)
         \/ question'.of = "shift" /\ answer' = ShiftShare(question'.q)
            /\ \E l, i, a \in (Numbers \ {0}) \X Numbers : question'.q = [local |-> l, industry |-> i, all |-> a]
<1>1. ASSUME NEW of, NEW q, NEW result, Asks(of, q, result)
      PROVE  question'.of = of /\ question'.q = q /\ answer' = result
  BY <1>1 DEF Asks
<1>2. CASE \E b \in Bureaus, c \in Cells, f \in BOOLEAN : ReadCell(b, c, f)
  BY <1>1, <1>2 DEF ReadCell
<1>3. CASE \E ms \in BoundedSeq(Numbers, MaxParts), n, d \in Numbers : Combine(ms, n, d)
  BY <1>1, <1>3 DEF Combine
<1>4. CASE \E q \in Markets : Asks("market", q, Market(q))
  BY <1>1, <1>4
<1>5. CASE \E q \in Contests : Asks("competition", q, Competition(q))
  BY <1>1, <1>5
<1>6. CASE \E q \in Comparisons : Asks("locations", q, Compare(q))
  BY <1>1, <1>6
<1>7. CASE \E r \in Records, g \in Records : Asks("relevance", [record |-> r, asked |-> g], Relevant(r, g))
  BY <1>1, <1>7
<1>8. CASE \E q \in Workforces : Asks("workforce", q, Workforce(q))
  BY <1>1, <1>8
<1>9. CASE \E q \in Previews : Asks("preview", q, Preview(q))
  BY <1>1, <1>9
<1>10. CASE \E es \in BoundedSeq(Elements, 3) : Asks("footprint", es, Summary(es))
  BY <1>1, <1>10
<1>11. CASE \E l, i, a \in (Numbers \ {0}) \X Numbers :
              Asks("shift", [local |-> l, industry |-> i, all |-> a],
                   ShiftShare([local |-> l, industry |-> i, all |-> a]))
  <2>1. PICK l, i, a \in (Numbers \ {0}) \X Numbers :
               Asks("shift", [local |-> l, industry |-> i, all |-> a],
                    ShiftShare([local |-> l, industry |-> i, all |-> a]))
    BY <1>11
  <2>2. PICK q : q = [local |-> l, industry |-> i, all |-> a]
    OBVIOUS
  <2>3. question'.of = "shift" /\ question'.q = q /\ answer' = ShiftShare(q)
    BY <1>1, <2>1, <2>2
  <2> QED BY <2>2, <2>3
<1> QED BY <1>2, <1>3, <1>4, <1>5, <1>6, <1>7, <1>8, <1>9, <1>10, <1>11 DEF AnalysisNext

(* The questions are of the kinds the analyses answer.                     *)
THEOREM AnalysisTypeCorrect == AnalysisSpec => []AnalysisTypeOK
<1>1. AnalysisInit => AnalysisTypeOK
  BY DEF AnalysisInit, NoQuestion, AnalysisTypeOK
<1>2. AnalysisTypeOK /\ [AnalysisNext]_analysisVars => AnalysisTypeOK'
  BY OneQuestion DEF analysisVars, AnalysisTypeOK
<1> QED BY <1>1, <1>2, PTL DEF AnalysisSpec

(* What is found is a number, or nothing with a reason.                    *)
LEMMA FindingsKnown ==
  ASSUME NEW e \in Findings
  PROVE  /\ e.status \in {"available", "suppressed", "unavailable", "no_record"}
         /\ e.value \in Nat
         /\ Numeric(e) <=> e.status = "available"
         /\ Numeric(EstimateOf(e)) <=> ~NoValue(e)
         /\ Numeric(e) => e = Available(e.value) /\ EstimateOf(e) = e
         /\ e.status = "suppressed" => EstimateOf(e) = e
         /\ EstimateOf(e) \in Findings /\ EstimateOf(e).status # "no_record"
         /\ e = NoRecord <=> e.status = "no_record"
  BY DEF Findings, Suppressed, Missing, NoRecord, Estimate, Numeric, EstimateOf, NoValue, Available

(* Which code a bureau publishes is never a number.                        *)
LEMMA CodesSay ==
  ASSUME NEW b \in Bureaus, NEW c \in DOMAIN Says(b)
  PROVE  /\ Says(b)[c].status # "available"
         /\ c \in Codes
         /\ b = "oews" /\ c = "star" => Says(b)[c].status = "suppressed"
<1> DEFINE In(m, d, q, s, i) == m \cup d \cup q \cup s \cup i
<1>1. ASSUME NEW m, NEW d, NEW q, NEW s, NEW i, NEW x \in DOMAIN Codebook(m, d, q, s, i)
      PROVE  /\ x \in In(m, d, q, s, i)
             /\ Codebook(m, d, q, s, i)[x].status # "available"
             /\ x \in d /\ x \notin m \cup q \cup s => Codebook(m, d, q, s, i)[x].status = "suppressed"
  <2>1. PICK f : f = Codebook(m, d, q, s, i)
    OBVIOUS
  <2>2. /\ DOMAIN f = In(m, d, q, s, i)
        /\ f[x] = CASE x \in m -> Missing
                    [] x \in d -> Suppressed("disclosure")
                    [] x \in q -> Suppressed("quality")
                    [] x \in s -> Suppressed("small_sample")
                    [] OTHER   -> NotApplicable
    BY <2>1 DEF Codebook
  <2>3. /\ Missing.status # "available" /\ NotApplicable.status # "available"
        /\ \A r : Suppressed(r).status = "suppressed"
    BY DEF Missing, NotApplicable, Suppressed, Estimate
  <2>4. f[x].status # "available"
    <3>1. PICK u, v, w, y, z : u = Missing /\ v = Suppressed("disclosure") /\ w = Suppressed("quality")
                               /\ y = Suppressed("small_sample") /\ z = NotApplicable
      OBVIOUS
    <3>2. f[x] = u \/ f[x] = v \/ f[x] = w \/ f[x] = y \/ f[x] = z
      BY <2>2, <3>1
    <3> QED BY <2>3, <3>1, <3>2
  <2>5. x \in d /\ x \notin m \cup q \cup s => f[x] = Suppressed("disclosure")
    BY <2>2
  <2> QED BY <2>1, <2>2, <2>3, <2>4, <2>5
<1> HIDE DEF In
<1>2. CASE b = "lau"
  BY <1>1, <1>2 DEF Says, In, Codes
<1>3. CASE b = "oews"
  BY <1>1, <1>3 DEF Says, In, Codes
<1>4. CASE b = "acs"
  BY <1>1, <1>4 DEF Says, In, Codes, Sentinels
<1>5. CASE b = "cbp"
  BY <1>1, <1>5 DEF Says, In, Codes
<1>6. CASE b = "nri"
  BY <1>1, <1>6 DEF Says, In, Codes, Sentinels
<1>7. CASE b = "bfe"
  BY <1>1, <1>7 DEF Says, In, Codes, Sentinels
<1> QED BY <1>2, <1>3, <1>4, <1>5, <1>6, <1>7 DEF Bureaus

(* What a cell becomes.                                                    *)
LEMMA CellRead ==
  ASSUME NEW b \in Bureaus, NEW c \in Cells, NEW flagged \in BOOLEAN, NEW e, e = Parse(b, c, flagged)
  PROVE  /\ c.kind \in {"nothing", "words"} \/ c.code \in DOMAIN Says(b) => ~Numeric(e)
         /\ Numeric(e) => e.value = c.value
         /\ Numeric(e) /\ e.value = 0 /\ b = "cbp" => ~flagged
         /\ Bounded(b, c, flagged) => e.status = "suppressed"
         /\ Margin(c) = NoMargin \/ Margin(c) \in Nat
<1>1. PICK dom, says, sup, mis, app :
        /\ dom = DOMAIN Says(b) /\ says = Says(b)
        /\ sup = Suppressed("disclosure") /\ mis = Missing /\ app = NotApplicable
  OBVIOUS
<1>2. sup.status = "suppressed" /\ mis.status = "unavailable" /\ app.status = "not_applicable"
  BY <1>1 DEF Suppressed, Missing, NotApplicable, Estimate
<1>3. /\ \A x \in dom : says[x].status # "available" /\ x \in Codes
      /\ b = "oews" /\ "star" \in dom => says["star"].status = "suppressed"
  BY <1>1, CodesSay
<1>4. /\ c.kind \in {"nothing", "blank", "words", "code", "number"}
      /\ c.kind = "code" <=> c.code \in Codes
      /\ c.kind # "code" => c.code = "none" /\ c.value \in Nat
      /\ c.kind \in {"nothing", "blank", "words"} => c.value = 0
      /\ Sentinels \subseteq Codes /\ "none" \notin Codes
  <2>1. PICK codes : codes = Codes
    OBVIOUS
  <2>2. \/ c \in [kind : {"nothing", "blank", "words"}, code : {"none"}, value : {0}]
        \/ c \in [kind : {"code"}, code : codes, value : {-9}]
        \/ c \in [kind : {"number"}, code : {"none"}, value : Numbers]
    BY <2>1 DEF Cells
  <2>3. Numbers \subseteq Nat
    BY AnalysisAssumption
  <2>4. Sentinels \subseteq Codes /\ "none" \notin Codes
    BY DEF Codes, Sentinels
  <2>5. /\ c.kind \in {"nothing", "blank", "words", "code", "number"}
        /\ c.kind = "code" => c.code \in codes
        /\ c.kind # "code" => c.code = "none" /\ c.value \in Nat
        /\ c.kind \in {"nothing", "blank", "words"} => c.value = 0
    BY <2>2, <2>3
  <2> QED BY <2>1, <2>4, <2>5
<1>5. Available(c.value).status = "available" /\ Available(c.value).value = c.value
  BY DEF Available, Estimate
<1> DEFINE noisy == b = "cbp" /\ flagged
<1>6. CASE c.kind = "nothing"
  <2>0. c.code \notin dom
    BY <1>3, <1>4, <1>6
  <2>1. e = sup \/ e = mis \/ e = app
    BY <1>1, <1>6, <2>0 DEF Parse
  <2>2. Bounded(b, c, flagged) => e.status = "suppressed"
    <3>1. c.code # "star"
      BY <1>4, <1>6
    <3> QED BY <1>1, <3>1 DEF Bounded
  <2>3. e.status # "available"
    BY <1>2, <2>1
  <2> QED BY <1>4, <1>6, <2>2, <2>3 DEF Numeric, Margin, IsNumber
<1>7. CASE c.kind # "nothing" /\ c.code \in dom
  <2>1. e = says[c.code]
    BY <1>1, <1>7 DEF Parse
  <2>2. e.status # "available"
    BY <1>3, <1>7, <2>1
  <2>3. Bounded(b, c, flagged) => e.status = "suppressed"
    BY <1>1, <1>3, <1>7, <2>1 DEF Bounded
  <2> QED BY <1>1, <1>4, <1>7, <2>2, <2>3 DEF Numeric, Margin, NoMargin, IsNumber
<1>8. CASE c.kind # "nothing" /\ c.code \notin dom /\ ~IsNumber(c)
  <2>1. e = mis
    BY <1>1, <1>8 DEF Parse
  <2>2. Bounded(b, c, flagged) => FALSE
    <3>1. b = "oews" => c.code # "star"
      <4>1. b = "oews" => "star" \in dom
        BY <1>1 DEF Says, Codebook
      <4> QED BY <1>8, <4>1
    <3>2. e.status # "suppressed"
      BY <1>2, <2>1
    <3> QED BY <1>1, <3>1, <3>2 DEF Bounded
  <2> QED BY <1>1, <1>2, <1>4, <1>8, <2>1, <2>2 DEF Numeric, Margin, NoMargin, IsNumber
<1>9. CASE c.kind # "nothing" /\ c.code \notin dom /\ IsNumber(c)
  <2>1. e = IF noisy /\ c.value = 0 THEN sup ELSE Available(c.value)
    BY <1>1, <1>9 DEF Parse
  <2>2. b = "oews" => c.code # "star"
    <3>1. b = "oews" => "star" \in dom
      BY <1>1 DEF Says, Codebook
    <3> QED BY <1>9, <3>1
  <2>3. c.kind # "words"
    BY <1>4, <1>9 DEF IsNumber
  <2> QED BY <1>1, <1>2, <1>4, <1>5, <1>9, <2>1, <2>2, <2>3 DEF Numeric, Margin, NoMargin, Bounded
<1> QED BY <1>6, <1>7, <1>8, <1>9

LEMMA CellsStep ==
  ASSUME AnalysisNext
  PROVE  CellsTrue'
<1> SUFFICES ASSUME question'.of = "cell" PROVE CellsTrue'
  BY DEF CellsTrue
<1>1. PICK b \in Bureaus, c \in Cells, f \in BOOLEAN :
        /\ question'.q = [bureau |-> b, cell |-> c, flagged |-> f]
        /\ answer' = <<Parse(b, c, f), Margin(c)>>
  BY OneQuestion
<1>2. PICK e, m : e = Parse(b, c, f) /\ m = Margin(c)
  OBVIOUS
<1>3. /\ c.kind \in {"nothing", "words"} \/ c.code \in DOMAIN Says(b) => ~Numeric(e)
      /\ Numeric(e) => e.value = c.value
      /\ Numeric(e) /\ e.value = 0 /\ b = "cbp" => ~f
      /\ Bounded(b, c, f) => e.status = "suppressed"
      /\ m = NoMargin \/ m \in Nat
  BY <1>2, CellRead
<1>4. answer'[1] = e /\ answer'[2] = m /\ question'.q.bureau = b /\ question'.q.cell = c /\ question'.q.flagged = f
  BY <1>1, <1>2
<1> QED BY <1>3, <1>4 DEF CellsTrue

(* Squares and products of numbers, for the margins.                       *)
LEMMA ProductsBound ==
  ASSUME NEW a \in Nat, NEW b \in Nat
  PROVE  a * b \in Nat /\ (a * b = 0 <=> a = 0 \/ b = 0)
  OBVIOUS

(* The margin of a sum of two parts.                                       *)
LEMMA TwoParts ==
  ASSUME NEW ms, ms \in [1..2 -> Nat]
  PROVE  SumMargin(ms) = ms[1] * ms[1] + ms[2] * ms[2]
<1>1. PICK f : f = [i \in DOMAIN ms |-> ms[i] * ms[i]]
  OBVIOUS
<1>2. DOMAIN f = {1, 2} /\ f[1] = ms[1] * ms[1] /\ f[2] = ms[2] * ms[2]
  BY <1>1
<1>3. \A x \in {1, 2} : f[x] \in Nat
  BY <1>2, ProductsBound
<1>4. IsFiniteSet({1, 2}) /\ {1, 2} \ {1} = {2} /\ {2} \ {2} = {} /\ IsFiniteSet({2})
  <2>1. IsFiniteSet(1..2) /\ IsFiniteSet(2..2)
    <3>1. 1 \in Int /\ 2 \in Int
      OBVIOUS
    <3> QED BY <3>1, FS_Interval
  <2>2. 1..2 = {1, 2} /\ 2..2 = {2}
    OBVIOUS
  <2> QED BY <2>1, <2>2
<1>5. SumFunctionOnSet(f, {1, 2}) = f[1] + SumFunctionOnSet(f, {2})
  BY <1>3, <1>4, SumRemove
<1>6. SumFunctionOnSet(f, {2}) = f[2] + SumFunctionOnSet(f, {})
  BY <1>3, <1>4, SumRemove
<1>7. SumFunctionOnSet(f, {}) = 0
  BY FS_EmptySet, SumUnfolds
<1>8. SumMargin(ms) = SumFunctionOnSet(f, {1, 2})
  BY <1>1, <1>2 DEF SumMargin, SumFunction
<1> QED BY <1>2, <1>3, <1>5, <1>6, <1>7, <1>8

LEMMA MarginsStep ==
  ASSUME AnalysisNext
  PROVE  MarginsTrue'
<1> SUFFICES ASSUME question'.of = "margin" PROVE MarginsTrue'
  BY DEF MarginsTrue
<1>1. PICK ms \in BoundedSeq(Numbers, MaxParts), n \in Numbers, d \in Numbers :
        /\ d > 0 /\ Len(ms) = 2
        /\ question'.q = [parts |-> ms, n |-> n, d |-> d]
        /\ answer' = <<SumMargin(ms), ProportionMargin(n, ms[1], d, ms[2]), RatioMargin(n, ms[1], d, ms[2])>>
  BY OneQuestion
<1>2. ms \in [1..2 -> Nat] /\ n \in Nat /\ d \in Nat \ {0}
  <2>0. MaxParts \in Nat
    BY AnalysisAssumption
  <2>1. PICK m \in Nat : ms \in [1..m -> Numbers]
    <3>1. \E m \in 0..MaxParts : ms \in [1..m -> Numbers]
      BY DEF BoundedSeq, SeqOf
    <3> QED BY <2>0, <3>1
  <2>2. Len(ms) = m
    BY <2>1
  <2> QED BY <1>1, <2>1, <2>2, AnalysisAssumption
<1>3. PICK x, y, p, r, s :
        /\ x = ms[1] /\ y = ms[2]
        /\ p = ProportionMargin(n, ms[1], d, ms[2]) /\ r = RatioMargin(n, ms[1], d, ms[2]) /\ s = SumMargin(ms)
  OBVIOUS
<1>4. x \in Nat /\ y \in Nat /\ s = x * x + y * y
  BY <1>2, <1>3, TwoParts
<1>5. PICK a, b : a = x * x * d * d /\ b = n * n * y * y
  OBVIOUS
<1>6. a \in Nat /\ b \in Nat /\ (a = 0 => x = 0)
  <2>1. x * x \in Nat /\ (x * x = 0 => x = 0) /\ n * n \in Nat
    BY <1>2, <1>4, ProductsBound
  <2>2. x * x * d \in Nat /\ (x * x * d = 0 => x = 0) /\ n * n * y \in Nat
    BY <1>2, <1>4, <2>1, ProductsBound
  <2>3. x * x * d * d \in Nat /\ (x * x * d * d = 0 => x = 0) /\ n * n * y * y \in Nat
    BY <1>2, <1>4, <2>2, ProductsBound
  <2> QED BY <1>5, <2>3
<1>7. r = a + b /\ p = IF a - b > 0 THEN a - b ELSE r
  BY <1>3, <1>5 DEF RatioMargin, ProportionMargin
<1>8. p <= r /\ (p = 0 => x = 0)
  BY <1>6, <1>7
<1>9. s = 0 <=> x = 0 /\ y = 0
  <2>1. x * x \in Nat /\ y * y \in Nat /\ (x * x = 0 <=> x = 0) /\ (y * y = 0 <=> y = 0)
    BY <1>4, ProductsBound
  <2> QED BY <1>4, <2>1
<1>10. /\ answer'[1] = s /\ answer'[2] = p /\ answer'[3] = r
       /\ question'.q.parts = ms /\ DOMAIN ms = {1, 2}
  BY <1>1, <1>2, <1>3
<1> QED BY <1>3, <1>8, <1>9, <1>10 DEF MarginsTrue

(* Effects of a change are products, and what they add up to is linear in  *)
(* them.                                                                   *)
LEMMA SharesStep ==
  ASSUME AnalysisNext
  PROVE  SharesAddUp'
<1> SUFFICES ASSUME question'.of = "shift" PROVE SharesAddUp'
  BY DEF SharesAddUp
<1>1. PICK l \in (Numbers \ {0}) \X Numbers, i \in (Numbers \ {0}) \X Numbers, a \in (Numbers \ {0}) \X Numbers :
        answer' = ShiftShare(question'.q) /\ question'.q = [local |-> l, industry |-> i, all |-> a]
  <2>1. \E l, i, a \in (Numbers \ {0}) \X Numbers : question'.q = [local |-> l, industry |-> i, all |-> a]
    BY OneQuestion
  <2>2. answer' = ShiftShare(question'.q)
    BY OneQuestion
  <2> QED BY <2>1, <2>2
<1>2. PICK p : p = question'.q
  OBVIOUS
<1>3. PICK x, y, z :
        /\ x = Growth(p.local[2], p.local[1], p.industry[1] * p.all[1])
        /\ y = Growth(p.all[2], p.all[1], p.local[1] * p.industry[1])
        /\ z = Growth(p.industry[2], p.industry[1], p.local[1] * p.all[1])
  OBVIOUS
<1>4. p.local = l /\ p.industry = i /\ p.all = a
  BY <1>1, <1>2
<1>5. {l[1], l[2], i[1], i[2], a[1], a[2]} \subseteq Nat
  BY AnalysisAssumption
<1>6. x \in Int /\ y \in Int /\ z \in Int
  <2>1. \A u, v, w, t \in Nat : Growth(u, v, w * t) \in Int
    <3> TAKE u, v, w, t \in Nat
    <3>1. PICK k \in Int, m \in Int : k = u - v /\ m = w * t
      OBVIOUS
    <3>2. k * m \in Int
      OBVIOUS
    <3> QED BY <3>1, <3>2 DEF Growth
  <2> QED BY <1>3, <1>4, <1>5, <2>1
<1>7. PICK s : s = ShiftShare(p)
  OBVIOUS
<1>8. s.total = x /\ s.nation = y /\ s.mix = z - y /\ s.share = x - z
  BY <1>3, <1>7 DEF ShiftShare
<1>9. s.total = s.nation + s.mix + s.share
  BY <1>6, <1>8
<1> QED BY <1>1, <1>2, <1>7, <1>9 DEF SharesAddUp

LEMMA RelevanceStep ==
  ASSUME AnalysisNext
  PROVE  RelevanceTrue'
<1> SUFFICES ASSUME question'.of = "relevance", answer' PROVE RelevanceTrue'
  BY DEF RelevanceTrue
<1>1. PICK r, g : r = question'.q.record /\ g = question'.q.asked
  OBVIOUS
<1>2. r \in Records /\ g \in Records /\ Relevant(r, g)
  BY <1>1, OneQuestion
<1>3. /\ r.level = g.level /\ r.id = g.id => r.state = g.state
      /\ g.level = "county" /\ r.county = g.id => r.state = g.state
  BY <1>2, AnalysisAssumption
<1>4. /\ r.level \notin {"point", "box"} => r.state = g.state
      /\ (g.level = "county" /\ r.level = "county") => r.id = g.id
      /\ g.level \notin {"county", "state"} => r.level = g.level
  BY <1>2, <1>3 DEF Relevant, OfTravis
<1> QED BY <1>1, <1>4 DEF RelevanceTrue

(* What is found is what the questions of each kind are made of.           *)
LEMMA QuestionsKnown ==
  /\ \A q \in Markets : /\ q.pop \in Findings /\ q.estabs \in Findings /\ q.emp \in Findings /\ q.pay \in Findings
                        /\ q.density \in Nat /\ q.pois \in Nat /\ q.expected \in Nat
  /\ \A q \in Contests : /\ q.pois \in Nat /\ q.area \in Nat /\ q.total \in Nat /\ q.sizes \in Seq(Nat)
                         /\ q.estabs \in Findings /\ q.first \in Findings
  /\ \A q \in Workforces :
       /\ q.hourly \in Findings /\ q.annual \in Findings /\ q.top \in Findings /\ q.rate \in Findings
       /\ q.employed \in Findings /\ q.median \in Findings /\ q.bench \in Findings
       /\ q.counts \in Seq(Findings)
  /\ \A n \in Nat : Available(n) \in Findings
  /\ Missing \in Findings /\ Suppressed("disclosure") \in Findings
<1>1. \A q \in Markets : {q.pop, q.estabs, q.emp, q.pay} \subseteq Findings /\ {q.density, q.pois, q.expected} \subseteq Nat
  BY AnalysisAssumption
<1>2. \A q \in Contests : /\ q.sizes \in Seq(Nat) /\ {q.pois, q.area, q.total} \subseteq Nat
                          /\ {q.estabs, q.first} \subseteq Findings
  BY AnalysisAssumption
<1>3. \A q \in Workforces :
       /\ {q.hourly, q.annual, q.top, q.rate, q.employed, q.median, q.bench, q.soc} \subseteq Findings
       /\ q.counts \in Seq(Findings)
  BY AnalysisAssumption
<1>4. /\ \A n \in Nat : Available(n) \in Findings
      /\ Missing \in Findings /\ Suppressed("disclosure") \in Findings
  BY DEF Findings, Available, Estimate
<1> QED BY <1>1, <1>2, <1>3, <1>4

(* A ratio is a number only of two numbers, and passes on what is          *)
(* suppressed.                                                             *)
LEMMA RatioKnown ==
  ASSUME NEW num, NEW den, NEW e, e = RatioOf(num, den)
  PROVE  /\ e.status = "available" => num.status = "available" /\ den.status = "available"
         /\ num.status = "suppressed" => e = num
<1>1. Missing.status = "unavailable"
  BY DEF Missing, Estimate
<1> QED BY <1>1 DEF RatioOf, Numeric

LEMMA BundleKnown ==
  ASSUME NEW records
  PROVE  records # {} => Bundle(records) # {} /\ NoRecord \notin Bundle(records)
<1>1. Missing # NoRecord
  <2>1. Missing.status = "unavailable" /\ NoRecord.status = "no_record"
    BY DEF Missing, NoRecord, Estimate
  <2> QED BY <2>1
<1> QED BY <1>1 DEF Bundle

LEMMA MarketDerived ==
  ASSUME NEW q \in Markets, NEW a, a = Market(q)
  PROVE  /\ NoValue(q.pay) \/ NoValue(q.emp) => a.wage.status # "available"
         /\ q.pay.status = "suppressed" => a.wage = q.pay
         /\ NoValue(q.pop) \/ NoValue(q.estabs) => a.perEstab.status # "available"
         /\ q.estabs.status = "suppressed" => a.perEstab.status = "suppressed"
         /\ a.refused => q.pop = Available(0)
         /\ a.bundle # {} /\ NoRecord \notin a.bundle
<1>1. PICK w, p, r, b : /\ w = AverageWage(q) /\ p = PerEstablishment(q)
                        /\ r = (Counted(q) /\ q.pop.value = 0) /\ b = Bundle({q.pop, q.estabs, q.emp, q.pay})
  OBVIOUS
<1>2. a.wage = w /\ a.perEstab = p /\ a.refused = r /\ a.bundle = b
  BY <1>1 DEF Market
<1>3. q.pop \in Findings /\ q.estabs \in Findings /\ q.emp \in Findings /\ q.pay \in Findings
  BY QuestionsKnown
<1>4. \A e \in Findings :
        /\ Numeric(EstimateOf(e)) <=> ~NoValue(e)
        /\ Numeric(e) <=> e.status = "available"
        /\ Numeric(e) => e = Available(e.value)
        /\ Numeric(EstimateOf(e)) => Numeric(e)
        /\ e.status = "suppressed" => EstimateOf(e) = e
  BY FindingsKnown DEF EstimateOf, Missing, Estimate, Numeric, NoValue
<1>5. /\ w.status = "available" => Numeric(EstimateOf(q.pay)) /\ Numeric(EstimateOf(q.emp))
      /\ q.pay.status = "suppressed" => w = q.pay
  BY <1>1, <1>3, <1>4, RatioKnown DEF AverageWage, Numeric
<1>6. /\ p.status = "available" => Counted(q)
      /\ q.estabs.status = "suppressed" => p.status = "suppressed"
  <2>1. Missing.status = "unavailable" /\ Suppressed("disclosure").status = "suppressed"
    BY DEF Missing, Suppressed, Estimate
  <2>2. q.estabs.status = "suppressed" => ~Counted(q)
    BY <1>3, <1>4 DEF Counted
  <2>3. p = IF Counted(q) THEN Available(q.pop.value \div q.estabs.value)
            ELSE IF q.estabs.status = "suppressed" THEN Suppressed("disclosure") ELSE Missing
    BY <1>1 DEF PerEstablishment
  <2> QED BY <2>1, <2>2, <2>3
<1>7. r => q.pop = Available(0)
  BY <1>1, <1>3, <1>4 DEF Counted
<1>8. b # {} /\ NoRecord \notin b
  BY <1>1, BundleKnown
<1>9. Counted(q) => ~NoValue(q.pop) /\ ~NoValue(q.estabs)
  BY <1>3, <1>4 DEF Counted
<1> QED BY <1>2, <1>3, <1>4, <1>5, <1>6, <1>7, <1>8, <1>9

LEMMA WorkforceDerived ==
  ASSUME NEW q \in Workforces, NEW a, a = Workforce(q)
  PROVE  /\ NoValue(a.wages[1]) => a.ratio.status # "available"
         /\ a.wages[2].status = "suppressed" => a.dispersion = "suppressed"
         /\ NoValue(q.rate) => a.unemployment = "unavailable"
<1>1. PICK low, high, r, d, u :
        /\ low = Wage(q.hourly, q.annual) /\ high = Wage(q.top, q.annual)
        /\ r = RatioOf(high, low) /\ d = Dispersion(low, high) /\ u = Unemployment(q.rate)
  OBVIOUS
<1>2. a.wages = <<low, high>> /\ a.ratio = r /\ a.dispersion = d /\ a.unemployment = u
  BY <1>1 DEF Workforce
<1>3. q.rate \in Findings
  BY QuestionsKnown
<1>4. NoValue(low) => r.status # "available"
  BY <1>1, RatioKnown DEF NoValue
<1>5. high.status = "suppressed" => d = "suppressed"
  BY <1>1, RatioKnown DEF Dispersion, Numeric
<1>6. NoValue(q.rate) => u = "unavailable"
  <2>1. NoValue(q.rate) => ~Numeric(EstimateOf(q.rate)) /\ q.rate.status # "available"
    BY <1>3, FindingsKnown DEF NoValue
  <2> QED BY <1>1, <2>1 DEF Unemployment
<1>7. a.wages[1] = low /\ a.wages[2] = high
  BY <1>2
<1> QED BY <1>2, <1>4, <1>5, <1>6, <1>7

LEMMA DerivedStep ==
  ASSUME AnalysisNext
  PROVE  DerivedHonest'
<1>1. CASE question'.of = "market"
  <2>1. question'.q \in Markets /\ answer' = Market(question'.q)
    BY <1>1, OneQuestion
  <2> QED BY <1>1, <2>1, MarketDerived DEF DerivedHonest
<1>2. CASE question'.of = "competition"
  <2>1. question'.q \in Contests /\ answer' = Competition(question'.q)
    BY <1>2, OneQuestion
  <2>2. PICK b, q : q = question'.q /\ b = Bundle({q.estabs, q.first})
    OBVIOUS
  <2>3. answer'.bundle = b
    BY <2>1, <2>2 DEF Competition
  <2>4. b # {} /\ NoRecord \notin b
    BY <2>2, BundleKnown
  <2> QED BY <1>2, <2>3, <2>4 DEF DerivedHonest
<1>3. CASE question'.of = "workforce"
  <2>1. question'.q \in Workforces /\ answer' = Workforce(question'.q)
    BY <1>3, OneQuestion
  <2> QED BY <1>3, <2>1, WorkforceDerived DEF DerivedHonest
<1>4. CASE question'.of \notin {"market", "competition", "workforce"}
  BY <1>4 DEF DerivedHonest
<1> QED BY <1>1, <1>2, <1>3, <1>4

LEMMA PreviewsStep ==
  ASSUME AnalysisNext
  PROVE  PreviewsHonest'
<1> SUFFICES ASSUME question'.of = "preview" PROVE PreviewsHonest'
  BY DEF PreviewsHonest
<1>1. PICK q : q = question'.q
  OBVIOUS
<1>2. q \in Previews /\ answer' = Preview(q)
  BY <1>1, OneQuestion
<1>3. "employment" \in DOMAIN q.found /\ \A k \in DOMAIN q.found : q.found[k] \in Findings
  BY <1>2, AnalysisAssumption
<1>4. PICK ks, quotient, share :
        /\ ks = DOMAIN q.found \cup {"quotient", "concentration"}
        /\ quotient = BenchmarkQuotient(EstimateOf(q.found["employment"]))
        /\ share = IF q.mapped THEN Available(3) ELSE Missing
  OBVIOUS
<1>5. PICK es : es = [k \in ks |-> CASE k = "quotient"      -> quotient
                                     [] k = "concentration" -> share
                                     [] OTHER               -> EstimateOf(q.found[k])]
  OBVIOUS
<1>6. PICK p : p = Preview(q)
  OBVIOUS
<1>7. p.estimates = es /\ p.warned = {k \in ks : es[k].status \in {"suppressed", "unavailable"}} /\ DOMAIN es = ks
  BY <1>4, <1>5, <1>6 DEF Preview
<1>8. quotient \in Findings /\ quotient.status # "no_record"
      /\ (q.found["employment"].status = "suppressed" => quotient = q.found["employment"])
  <2>1. PICK f, e : f = q.found["employment"] /\ e = EstimateOf(f)
    OBVIOUS
  <2>2. /\ e \in Findings /\ e.status # "no_record" /\ e.value \in Nat
        /\ Numeric(e) <=> e.status = "available"
        /\ f.status = "suppressed" => e = f
    BY <1>3, <2>1, FindingsKnown
  <2>3. /\ \A n \in Nat : Available(n) \in Findings /\ Available(n).status = "available"
        /\ Missing \in Findings /\ Missing.status = "unavailable"
    BY QuestionsKnown DEF Available, Missing, Estimate
  <2>4. quotient = IF Numeric(e) /\ e.value > 0 THEN Available(e.value)
                   ELSE IF e.status = "suppressed" THEN e ELSE Missing
    BY <1>4, <2>1 DEF BenchmarkQuotient
  <2> QED BY <2>1, <2>2, <2>3, <2>4
<1>9. share \in Findings /\ share.status # "no_record"
  BY <1>4, QuestionsKnown DEF Available, Missing, Estimate
<1>10. \A k \in ks : es[k] \in Findings /\ es[k].status # "no_record"
  <2> TAKE k \in ks
  <2>1. k = "quotient" => es[k] = quotient
    BY <1>5
  <2>2. k = "concentration" => es[k] = share
    BY <1>5
  <2>3. k \notin {"quotient", "concentration"} => k \in DOMAIN q.found /\ es[k] = EstimateOf(q.found[k])
    BY <1>4, <1>5
  <2> QED BY <1>3, <1>8, <1>9, <2>1, <2>2, <2>3, FindingsKnown
<1>11. \A k \in ks : k \notin p.warned <=> Numeric(es[k])
  BY <1>7, <1>10, FindingsKnown
<1>12. es["quotient"] = quotient
  BY <1>4, <1>5
<1>13. answer' = p
  BY <1>2, <1>6
<1>14. answer'.estimates = es /\ answer'.warned = p.warned
  BY <1>7, <1>13
<1> QED BY <1>1, <1>7, <1>8, <1>11, <1>12, <1>14 DEF PreviewsHonest

(* What disagrees differs, as information when only one of the two has a   *)
(* number; what is not told agrees to within the warning.                  *)
LEMMA DisagreementKnown ==
  ASSUME NEW key, NEW e \in Findings, NEW o \in Findings, NEW warning \in Nat \ {0}, NEW critical \in Nat,
         critical >= warning
  PROVE  /\ \A d \in Disagreement(key, e, o, warning, critical) :
              /\ d.expected = e /\ d.observed = o /\ e # o
              /\ d.severity = "info" <=> e.status # o.status
         /\ Disagreement(key, e, o, warning, critical) = {} =>
              \/ ~Numeric(o)
              \/ /\ Numeric(e)
                 /\ 100 * Apart(e.value, o.value) < warning * (IF e.value = 0 THEN 1 ELSE e.value)
<1>1. PICK base, apart :
        /\ base = (IF e.value = 0 THEN 1 ELSE e.value)
        /\ apart = 100 * Apart(e.value, o.value)
  OBVIOUS
<1>2. e.value \in Nat /\ o.value \in Nat /\ (Numeric(e) <=> e.status = "available") /\ (Numeric(o) <=> o.status = "available")
  BY FindingsKnown
<1>3. base \in Nat \ {0} /\ apart \in Nat /\ (e.value = o.value => apart = 0)
  BY <1>1, <1>2 DEF Apart
<1>4. PICK w, c : w = warning * base /\ c = critical * base
  OBVIOUS
<1>5. w \in Nat \ {0} /\ c \in Int /\ c >= w
  <2>1. PICK k \in Nat : k = critical - warning
    OBVIOUS
  <2>2. k * base \in Nat /\ warning * base \in Nat /\ warning * base # 0
    BY <1>3, ProductsBound
  <2>3. critical * base = warning * base + k * base
    BY <1>3, <2>1
  <2> QED BY <1>4, <2>2, <2>3
<1>6. PICK D, sev :
        /\ D = Disagreement(key, e, o, warning, critical)
        /\ sev = [s \in {"critical", "warning", "info"} |-> [key |-> key, severity |-> s, expected |-> e, observed |-> o]]
  OBVIOUS
<1>7. \A s \in {"critical", "warning", "info"} : sev[s].severity = s /\ sev[s].expected = e /\ sev[s].observed = o
  BY <1>6
<1>8. CASE Numeric(e) /\ Numeric(o) /\ apart >= c
  <2>0. ~(apart < c)
    BY <1>3, <1>5, <1>8
  <2>1. D = {sev["critical"]}
    BY <1>1, <1>4, <1>6, <1>8, <2>0 DEF Disagreement
  <2>2. e # o
    BY <1>3, <1>5, <1>8
  <2> QED BY <1>2, <1>6, <1>7, <1>8, <2>1, <2>2
<1>9. CASE Numeric(e) /\ Numeric(o) /\ apart < c /\ apart >= w
  <2>0. ~(apart >= c)
    BY <1>3, <1>5, <1>9
  <2>1. D = {sev["warning"]}
    BY <1>1, <1>4, <1>6, <1>9, <2>0 DEF Disagreement
  <2>2. e # o
    BY <1>3, <1>5, <1>9
  <2> QED BY <1>2, <1>6, <1>7, <1>9, <2>1, <2>2
<1>10. CASE ~(Numeric(e) /\ Numeric(o)) /\ e.status # o.status
  <2>1. D = {sev["info"]}
    BY <1>1, <1>4, <1>6, <1>10 DEF Disagreement
  <2> QED BY <1>2, <1>6, <1>7, <1>10, <2>1
<1>11. CASE Numeric(e) /\ Numeric(o) /\ apart < w
  <2>0. ~(apart >= c) /\ ~(apart >= w)
    BY <1>3, <1>5, <1>11
  <2>1. D = {}
    BY <1>1, <1>4, <1>6, <1>11, <2>0 DEF Disagreement
  <2> QED BY <1>1, <1>4, <1>6, <1>11, <2>1
<1>12. CASE ~(Numeric(e) /\ Numeric(o)) /\ e.status = o.status
  <2>1. D = {}
    BY <1>1, <1>4, <1>6, <1>12 DEF Disagreement
  <2> QED BY <1>2, <1>6, <1>12, <2>1
<1> QED BY <1>3, <1>5, <1>8, <1>9, <1>10, <1>11, <1>12

LEMMA DisagreementsStep ==
  ASSUME AnalysisNext
  PROVE  DisagreementsKept'
<1> DEFINE Differ(D) == \A d \in D : d.expected # d.observed /\ (d.severity = "info" <=> d.expected.status # d.observed.status)
<1>1. ASSUME NEW key, NEW e \in Findings, NEW o \in Findings, NEW w \in Nat \ {0}, NEW c \in Nat, c >= w
      PROVE  Differ(Disagreement(key, e, o, w, c))
  BY <1>1, DisagreementKnown
<1>2. ASSUME NEW D, NEW E, Differ(D), Differ(E) PROVE Differ(D \cup E)
  BY <1>2
<1>3. Differ({})
  OBVIOUS
<1>4. CASE question'.of = "market"
  <2>1. PICK q : q = question'.q
    OBVIOUS
  <2>2. q \in Markets /\ answer' = Market(q)
    BY <1>4, <2>1, OneQuestion
  <2>3. q.estabs \in Findings /\ q.density \in Nat /\ q.pois \in Nat /\ q.expected \in Nat
    BY <2>2, QuestionsKnown
  <2>4. \A n \in Nat : Footprint(q, n) \in Findings /\ Available(n) \in Findings
    BY QuestionsKnown DEF Footprint
  <2>5. /\ Differ(Disagreement("density", Available(q.expected), Footprint(q, q.density), 15, 35))
        /\ Differ(Disagreement("establishments", q.estabs, Footprint(q, q.pois), 25, 50))
    <3> HIDE DEF Differ
    <3> QED BY <1>1, <2>3, <2>4
  <2>6. Differ(MarketDisagreements(q))
    <3> HIDE DEF Differ
    <3> QED BY <1>2, <1>3, <2>5 DEF MarketDisagreements
  <2>7. answer'.disagreements = MarketDisagreements(q)
    BY <2>2 DEF Market
  <2> QED BY <1>4, <2>6, <2>7 DEF DisagreementsKept
<1>5. CASE question'.of = "workforce"
  <2>1. PICK q : q = question'.q
    OBVIOUS
  <2>2. q \in Workforces /\ answer' = Workforce(q)
    BY <1>5, <2>1, OneQuestion
  <2>3. q.employed \in Findings /\ q.median \in Findings /\ q.bench \in Findings /\ q.counts \in Seq(Findings)
    BY <2>2, QuestionsKnown
  <2>4. TotalOf(q) \in Findings
    <3>1. NoRecord \in Findings
      BY DEF Findings
    <3>2. q.counts # <<>> => Head(q.counts) \in Findings
      BY <2>3
    <3> QED BY <3>1, <3>2 DEF TotalOf
  <2>5. /\ Differ(Disagreement("employment", q.employed, TotalOf(q), 20, 40))
        /\ Differ(Disagreement("wage", q.bench, q.median, 30, 50))
    <3> HIDE DEF Differ
    <3> QED BY <1>1, <2>3, <2>4
  <2>6. Differ(WorkforceDisagreements(q))
    <3> HIDE DEF Differ
    <3> QED BY <1>2, <1>3, <2>5 DEF WorkforceDisagreements
  <2>7. answer'.disagreements = WorkforceDisagreements(q)
    BY <2>2 DEF Workforce
  <2> QED BY <1>5, <2>6, <2>7 DEF DisagreementsKept
<1>6. CASE question'.of = "competition"
  <2>1. PICK q, a : q = question'.q /\ a = Available(q.pois)
    OBVIOUS
  <2>2. q \in Contests /\ answer' = Competition(q)
    BY <1>6, <2>1, OneQuestion
  <2>3. q.estabs \in Findings /\ q.first \in Findings /\ q.pois \in Nat
    BY <2>2, QuestionsKnown
  <2>4. a \in Findings /\ Numeric(a) /\ a.value = q.pois
    BY <2>1, <2>3, QuestionsKnown DEF Available, Estimate, Numeric
  <2>5. Reported(q) \in Findings /\ (q.estabs # NoRecord => Reported(q) = q.estabs)
    BY <2>3 DEF Reported
  <2>6. PICK D : D = IF Reported(q) = NoRecord THEN {} ELSE Disagreement("competitors", Reported(q), a, 20, 40)
    OBVIOUS
  <2>7. answer'.disagreements = D
    BY <2>1, <2>2, <2>6 DEF Competition
  <2>8. Differ(D)
    <3> HIDE DEF Differ
    <3> QED BY <1>1, <1>3, <2>4, <2>5, <2>6
  <2>9. ASSUME q.estabs # NoRecord
        PROVE  \/ \E d \in D : d.expected = q.estabs /\ d.observed.value = q.pois
               \/ /\ q.estabs.status = "available"
                  /\ \/ 100 * Apart(q.estabs.value, q.pois) < 20 * q.estabs.value
                     \/ q.estabs.value = q.pois
    <3>1. D = Disagreement("competitors", q.estabs, a, 20, 40)
      BY <2>5, <2>6, <2>9
    <3>2. \A d \in D : d.expected = q.estabs /\ d.observed = a
      BY <2>3, <2>4, <3>1, DisagreementKnown
    <3>3. CASE D # {}
      BY <2>4, <3>2, <3>3
    <3>4. CASE D = {}
      <4>1. /\ Numeric(q.estabs)
            /\ 100 * Apart(q.estabs.value, q.pois) < 20 * (IF q.estabs.value = 0 THEN 1 ELSE q.estabs.value)
        BY <2>3, <2>4, <3>1, <3>4, DisagreementKnown
      <4>2. q.estabs.value \in Nat
        BY <2>3, FindingsKnown
      <4> QED BY <2>3, <4>1, <4>2 DEF Numeric, Apart
    <3> QED BY <3>3, <3>4
  <2> QED BY <1>6, <2>1, <2>7, <2>8, <2>9 DEF DisagreementsKept
<1>7. CASE question'.of \notin {"market", "competition", "workforce"}
  BY <1>7 DEF DisagreementsKept
<1> QED BY <1>4, <1>5, <1>6, <1>7

(* The available values are ranked from the largest, equal ones in their   *)
(* order, and no rank is left out.                                         *)
LEMMA RanksStep ==
  ASSUME AnalysisNext
  PROVE  RanksTrue'
<1> SUFFICES ASSUME question'.of = "locations" PROVE RanksTrue'
  BY DEF RanksTrue
<1>1. PICK q, vs : q = question'.q /\ vs = q.values
  OBVIOUS
<1>2. q \in Comparisons /\ answer' = Compare(q)
  BY <1>1, OneQuestion
<1>3. vs \in Seq(Findings) /\ q.bench \in DOMAIN vs
  BY <1>1, <1>2, AnalysisAssumption
<1>4. PICK dom, I : dom = DOMAIN vs /\ I = {i \in dom : ~NoValue(vs[i])}
  OBVIOUS
<1>5. PICK len \in Nat : len = Len(vs) /\ dom = 1..len
  BY <1>3, <1>4
<1>6. \A i \in dom : /\ vs[i] \in Findings /\ vs[i].value \in Nat /\ i \in Nat
                     /\ Numeric(EstimateOf(vs[i])) <=> i \in I
                     /\ Numeric(vs[i]) => i \in I
  <2> TAKE i \in dom
  <2>1. vs[i] \in Findings /\ i \in Nat
    BY <1>3, <1>4, <1>5
  <2>2. Numeric(vs[i]) => ~NoValue(vs[i])
    BY <2>1, FindingsKnown DEF NoValue
  <2> QED BY <1>4, <2>1, <2>2, FindingsKnown
<1>20. PICK v : v = [i \in dom |-> vs[i].value]
  OBVIOUS
<1>21. v \in [dom -> Nat] /\ \A i \in dom : v[i] = vs[i].value
  BY <1>6, <1>20
<1> DEFINE Ahead(j, i) == v[j] > v[i] \/ (v[j] = v[i] /\ j < i)
<1>7. PICK before : before = [i \in I |-> {j \in I : Ahead(j, i)}]
  OBVIOUS
<1>8. IsFiniteSet(I)
  <2>1. IsFiniteSet(1..len)
    BY <1>5, FS_Interval
  <2> QED BY <1>4, <1>5, <2>1, FS_Subset
<1>9. /\ before \in [I -> SUBSET I]
      /\ \A i \in I : i \notin before[i]
      /\ \A i, k \in I : i = k \/ i \in before[k] \/ k \in before[i]
      /\ \A i, k \in I : k \in before[i] => before[k] \subseteq before[i]
  <2>1. \A i \in I : i \in Nat /\ v[i] \in Nat
    BY <1>4, <1>5, <1>21
  <2>2. \A i, j \in I : j \in before[i] <=> Ahead(j, i)
    BY <1>7
  <2>3. \A i, j \in I : ~Ahead(i, i) /\ (i = j \/ Ahead(i, j) \/ Ahead(j, i))
    BY <2>1
  <2>4. \A i, j, k \in I : Ahead(j, k) /\ Ahead(k, i) => Ahead(j, i)
    BY <2>1
  <2>5. before \in [I -> SUBSET I]
    BY <1>7
  <2> HIDE DEF Ahead
  <2>6. \A i, k \in I : k \in before[i] => before[k] \subseteq before[i]
    <3> SUFFICES ASSUME NEW i \in I, NEW k \in I, k \in before[i], NEW j \in before[k] PROVE j \in before[i]
      OBVIOUS
    <3>1. j \in I
      BY <2>5
    <3> QED BY <2>2, <2>4, <3>1
  <2> QED BY <2>2, <2>3, <2>5, <2>6
<1>10. PICK rank : rank = [i \in I |-> Cardinality(before[i])]
  OBVIOUS
<1>11. PICK card : card = Cardinality(I)
  OBVIOUS
<1>12. /\ card \in Nat
       /\ \A i \in I : rank[i] \in 0..(card - 1)
       /\ \A i, k \in I : k \in before[i] => rank[k] < rank[i]
       /\ \A n \in 0..(card - 1) : \E i \in I : rank[i] = n
  <2>1. /\ card \in Nat
        /\ \A i \in I : Cardinality(before[i]) \in 0..(card - 1)
        /\ \A i, k \in I : k \in before[i] => Cardinality(before[k]) < Cardinality(before[i])
        /\ \A n \in 0..(card - 1) : \E i \in I : Cardinality(before[i]) = n
    BY <1>8, <1>9, <1>11, RankedAll
  <2> QED BY <1>10, <2>1
<1>13. \A i \in dom : Rank(vs, i) = IF i \in I THEN 1 + rank[i] ELSE 0
  <2> TAKE i \in dom
  <2>1. CASE i \notin I
    BY <1>6, <2>1 DEF Rank
  <2>2. CASE i \in I
    <3>1. {j \in DOMAIN vs : /\ Numeric(EstimateOf(vs[j]))
                             /\ \/ vs[j].value > vs[i].value
                                \/ vs[j].value = vs[i].value /\ j < i} = before[i]
      <4>1. before[i] = {j \in I : Ahead(j, i)}
        BY <1>7, <2>2
      <4>2. \A j \in dom : Numeric(EstimateOf(vs[j])) <=> j \in I
        BY <1>6
      <4>3. \A j \in dom : Ahead(j, i) <=> \/ vs[j].value > vs[i].value
                                           \/ (vs[j].value = vs[i].value /\ j < i)
        BY <1>21
      <4> HIDE DEF Ahead
      <4> QED BY <1>4, <4>1, <4>2, <4>3
    <3>2. Rank(vs, i) = 1 + Cardinality(before[i])
      BY <1>6, <2>2, <3>1 DEF Rank
    <3> QED BY <1>10, <2>2, <3>2
  <2> QED BY <2>1, <2>2
<1> DEFINE rs == answer'.ranks
<1>14. \A i \in dom : rs[i] = IF i \in I THEN 1 + rank[i] ELSE 0
  <2>1. rs = [i \in dom |-> Rank(vs, i)]
    BY <1>1, <1>2, <1>4 DEF Compare
  <2> QED BY <1>13, <2>1
<1>15. \A i \in dom : rs[i] = 0 <=> NoValue(vs[i])
  BY <1>4, <1>12, <1>14
<1> HIDE DEF Ahead, rs
<1>16. \A i, j \in dom : rs[i] # 0 /\ rs[i] < rs[j] => vs[i].value >= vs[j].value
  <2> SUFFICES ASSUME NEW i \in dom, NEW j \in dom, rs[i] # 0, rs[i] < rs[j]
               PROVE  vs[i].value >= vs[j].value
    OBVIOUS
  <2>1. i \in I
    BY <1>14
  <2>2. j \in I
    BY <1>12, <1>14, <2>1
  <2>3. j \notin before[i]
    BY <1>12, <1>14, <2>1, <2>2
  <2>4. ~Ahead(j, i)
    BY <1>7, <2>1, <2>2, <2>3
  <2>5. v[i] \in Nat /\ v[j] \in Nat /\ v[i] = vs[i].value /\ v[j] = vs[j].value
    BY <1>21
  <2> QED BY <2>4, <2>5 DEF Ahead
<1>17. {rs[i] : i \in dom} \ {0} = 1..card
  <2>1. \A n \in 1..card : \E i \in dom : rs[i] = n
    <3> TAKE n \in 1..card
    <3>1. n - 1 \in 0..(card - 1)
      BY <1>12
    <3>2. PICK i \in I : rank[i] = n - 1
      BY <1>12, <3>1
    <3>3. i \in dom /\ rs[i] = n
      BY <1>4, <1>12, <1>14, <3>2
    <3> QED BY <3>3
  <2>2. \A i \in dom : rs[i] # 0 => rs[i] \in 1..card
    BY <1>12, <1>14
  <2>3. 0 \notin 1..card
    BY <1>12
  <2> QED BY <2>1, <2>2, <2>3
<1>18. \A i \in dom : answer'.tiers[i] = "high" => ~NoValue(vs[i])
  <2> TAKE i \in dom
  <2>1. answer'.tiers[i] = Specialized(vs[i], vs[q.bench])
    BY <1>1, <1>2, <1>4 DEF Compare
  <2>2. Specialized(vs[i], vs[q.bench]) = "high" => Numeric(vs[i])
    BY DEF Specialized
  <2> QED BY <1>4, <1>6, <2>1, <2>2
<1>19. card = Cardinality({i \in dom : ~NoValue(vs[i])})
  BY <1>4, <1>11
<1> QED BY <1>1, <1>4, <1>15, <1>16, <1>17, <1>18, <1>19 DEF RanksTrue, rs

(* A part of a sum, squared, is at most the sum of the squares.            *)
LEMMA SquaresKnown ==
  ASSUME NEW s \in Seq(Nat)
  PROVE  /\ SumMargin(s) \in Nat /\ Total(s) \in Nat
         /\ \A i \in DOMAIN s : s[i] * s[i] <= SumMargin(s)
         /\ (\A i \in DOMAIN s : s[i] = 1) => SumMargin(s) = Len(s) /\ Total(s) = Len(s)
<1>1. PICK len, dom : len \in Nat /\ len = Len(s) /\ dom = 1..len /\ dom = DOMAIN s
  OBVIOUS
<1>2. IsFiniteSet(dom) /\ Cardinality(dom) = len
  <2>1. PICK n \in Nat : n = len
    BY <1>1
  <2>2. IsFiniteSet(1..n) /\ Cardinality(1..n) = n
    BY FS_Interval
  <2> QED BY <1>1, <2>1, <2>2
<1>3. PICK f : f = [i \in dom |-> s[i] * s[i]]
  OBVIOUS
<1>4. \A i \in dom : f[i] = s[i] * s[i] /\ f[i] \in Nat /\ s[i] \in Nat
  BY <1>1, <1>3, ProductsBound
<1>5. SumMargin(s) = SumFunctionOnSet(f, dom) /\ Total(s) = SumFunctionOnSet(s, dom)
  BY <1>1, <1>3 DEF SumMargin, Total, SumFunction
<1>6. SumFunctionOnSet(f, dom) \in Nat /\ SumFunctionOnSet(s, dom) \in Nat
  BY <1>2, <1>4, SumType
<1>7. ASSUME NEW i \in dom PROVE f[i] <= SumFunctionOnSet(f, dom)
  <2>0. \A x \in dom : f[x] \in Nat
    BY <1>4
  <2>1. SumFunctionOnSet(f, dom) = f[i] + SumFunctionOnSet(f, dom \ {i})
    BY <1>2, <2>0, SumRemove
  <2>2. IsFiniteSet(dom \ {i})
    BY <1>2, FS_Subset
  <2>3. SumFunctionOnSet(f, dom \ {i}) \in Nat
    BY <1>4, <2>2, SumType
  <2> QED BY <1>4, <2>1, <2>3
<1>8. ASSUME \A i \in dom : s[i] = 1
      PROVE  SumFunctionOnSet(f, dom) = len /\ SumFunctionOnSet(s, dom) = len
  <2>1. \A i \in dom : f[i] = 1
    BY <1>4, <1>8
  <2> QED BY <1>2, <1>8, <2>1, SumOfOnes
<1> QED BY <1>1, <1>4, <1>5, <1>6, <1>7, <1>8

LEMMA ConcentrationStep ==
  ASSUME AnalysisNext
  PROVE  ConcentrationTrue'
<1> SUFFICES ASSUME question'.of = "competition" PROVE ConcentrationTrue'
  BY DEF ConcentrationTrue
<1>1. PICK q : q = question'.q
  OBVIOUS
<1>2. q \in Contests /\ answer' = Competition(q)
  BY <1>1, OneQuestion
<1>3. q.sizes \in Seq(Nat) /\ q.pois \in Nat
  BY <1>2, QuestionsKnown
<1>4. PICK s : s = IF q.sizes # <<>> THEN q.sizes ELSE [i \in 1..q.pois |-> 1]
  OBVIOUS
<1>5. s \in Seq(Nat)
  BY <1>3, <1>4
<1>6. PICK t, m, sq : t = Total(s) /\ m = SumMargin(s) /\ sq = t * t
  OBVIOUS
<1>7. /\ t \in Nat /\ m \in Nat /\ sq \in Nat
      /\ \A i \in DOMAIN s : s[i] * s[i] <= m
      /\ (\A i \in DOMAIN s : s[i] = 1) => m = Len(s) /\ t = Len(s)
  BY <1>5, <1>6, SquaresKnown, ProductsBound
<1>8. /\ 10000 * m > 2500 * sq => Tier(s) = "highly"
      /\ 10000 * m <= 2500 * sq /\ (10000 * m < 1500 * sq \/ sq = 0) => Tier(s) = "unconcentrated"
  <2>1. PICK h, k : h = 10000 * m /\ k = 2500 * sq
    OBVIOUS
  <2>2. Tier(s) = CASE h > k                                     -> "highly"
                    [] h <= k /\ h >= 1500 * sq /\ sq > 0        -> "moderately"
                    [] OTHER                                     -> "unconcentrated"
    BY <1>6, <2>1 DEF Tier
  <2>3. h \in Nat /\ k \in Nat /\ 1500 * sq \in Nat
    BY <1>7, <2>1
  <2> QED BY <1>7, <2>1, <2>2, <2>3
<1>9. answer'.tier = Tier(s)
  BY <1>2, <1>4 DEF Competition
<1>10. q.sizes = <<>> => m = q.pois /\ t = q.pois
  <2>1. q.sizes = <<>> => Len(s) = q.pois /\ \A i \in DOMAIN s : s[i] = 1
    BY <1>3, <1>4
  <2> QED BY <1>7, <2>1
<1>11. q.sizes = <<>> /\ q.pois \in 1..3 => answer'.tier = "highly"
  <2> SUFFICES ASSUME q.sizes = <<>>, q.pois \in 1..3 PROVE answer'.tier = "highly"
    OBVIOUS
  <2>1. q.pois = 1 \/ q.pois = 2 \/ q.pois = 3
    OBVIOUS
  <2>2. 10000 * m > 2500 * sq
    BY <1>6, <1>10, <2>1
  <2> QED BY <1>8, <1>9, <2>2
<1>12. q.sizes = <<>> /\ (q.pois = 0 \/ q.pois > 6) => answer'.tier = "unconcentrated"
  <2> SUFFICES ASSUME q.sizes = <<>>, q.pois = 0 \/ q.pois > 6 PROVE answer'.tier = "unconcentrated"
    OBVIOUS
  <2>1. CASE q.pois = 0
    BY <1>6, <1>8, <1>9, <1>10, <2>1
  <2>2. CASE q.pois > 6
    <3>1. PICK k \in Nat : q.pois = k + 7
      <4>1. q.pois - 7 \in Nat /\ q.pois = (q.pois - 7) + 7
        BY <1>3, <2>2
      <4> QED BY <4>1
    <3>2. PICK kk \in Nat : kk = k * k
      BY ProductsBound
    <3>3. sq = kk + 14 * k + 49 /\ m = k + 7
      BY <1>6, <1>10, <3>1, <3>2
    <3>4. 10000 * m < 1500 * sq /\ 10000 * m <= 2500 * sq
      BY <3>2, <3>3
    <3> QED BY <1>8, <1>9, <3>4
  <2> QED BY <2>1, <2>2
<1>13. (\E i \in DOMAIN q.sizes : 2 * q.sizes[i] > Total(q.sizes)) => answer'.tier = "highly"
  <2> SUFFICES ASSUME NEW i \in DOMAIN q.sizes, 2 * q.sizes[i] > Total(q.sizes) PROVE answer'.tier = "highly"
    OBVIOUS
  <2>1. s = q.sizes /\ i \in DOMAIN s
    BY <1>3, <1>4
  <2>2. PICK x \in Nat : x = s[i]
    BY <1>5, <2>1
  <2>3. 2 * x > t /\ x * x <= m
    BY <1>6, <1>7, <2>1, <2>2
  <2>4. sq < 4 * (x * x)
    <3>1. PICK d \in Nat : 2 * x = t + 1 + d
      <4>1. 2 * x - t - 1 \in Nat /\ 2 * x = t + 1 + (2 * x - t - 1)
        BY <1>7, <2>3
      <4> QED BY <4>1
    <3>2. 4 * (x * x) = (2 * x) * (2 * x)
      OBVIOUS
    <3>3. PICK u : u = d + 1
      OBVIOUS
    <3>4. u \in Nat \ {0} /\ 2 * x = t + u
      BY <1>7, <3>1, <3>3
    <3>5. (t + u) * (t + u) = sq + 2 * (t * u) + u * u
      <4>1. \A a, b \in Nat : (a + b) * (a + b) = a * a + 2 * (a * b) + b * b
        OBVIOUS
      <4> QED BY <1>6, <1>7, <3>4, <4>1
    <3>6. t * u \in Nat /\ u * u \in Nat /\ u * u # 0
      BY <1>7, <3>4, ProductsBound
    <3>7. 4 * (x * x) = sq + 2 * (t * u) + u * u
      BY <3>2, <3>4, <3>5
    <3> QED BY <1>7, <3>6, <3>7
  <2>5. x * x \in Nat
    BY ProductsBound
  <2>6. 10000 * m > 2500 * sq
    BY <1>7, <2>3, <2>4, <2>5
  <2> QED BY <1>8, <1>9, <2>6
<1> QED BY <1>1, <1>11, <1>12, <1>13 DEF ConcentrationTrue

(* Every feature has a rule that holds, of one of the categories.          *)
LEMMA TagKnown ==
  ASSUME NEW t
  PROVE  Tag(t) \in 1..14 /\ Category(t) \in Categories
<1>1. PICK rs : rs = Rules(t)
  OBVIOUS
<1>2. Len(rs) = 14 /\ rs[14][1] = TRUE
  BY <1>1 DEF Rules
<1>3. \A n \in 1..14 : rs[n][2] \in Categories
  <2>1. /\ rs[1][2] = "food" /\ rs[2][2] = "food" /\ rs[3][2] = "retail" /\ rs[4][2] = "services"
        /\ rs[5][2] = "healthcare" /\ rs[6][2] = "healthcare" /\ rs[7][2] = "office" /\ rs[8][2] = "office"
        /\ rs[9][2] = "craft" /\ rs[10][2] = "craft" /\ rs[11][2] = "hospitality"
        /\ rs[12][2] = "other" /\ rs[13][2] = "other" /\ rs[14][2] = "other"
    BY <1>1 DEF Rules
  <2> QED BY <2>1 DEF Categories
<1>4. PICK I : I = {n \in 1..Len(rs) : rs[n][1]}
  OBVIOUS
<1>5. Tag(t) = IF I # {} THEN Min(I) ELSE 0
  BY <1>1, <1>4 DEF Tag, SelectInSeq
<1>6. 14 \in I /\ I \subseteq 1..14
  BY <1>2, <1>4
<1>7. Min(I) \in I
  <2>1. I \subseteq Nat /\ I # {}
    BY <1>6
  <2>2. \E i \in I : \A k \in I : i <= k
    BY <2>1, LeastIn
  <2> QED BY <2>2 DEF Min
<1> QED BY <1>1, <1>3, <1>5, <1>6, <1>7 DEF Category

(* What is listed of the tags: the n-th has n - 1 before it.               *)
LEMMA TopKnown ==
  ASSUME NEW features, IsFiniteSet(DOMAIN features),
         NEW i \in DOMAIN Top(features), NEW n \in DOMAIN features,
         Common(features, Tag(features[n])) > Top(features)[i][2]
  PROVE  \E j \in 1..(i - 1) : Top(features)[j][1] = Tag(features[n])
<1>1. PICK dom, tags, top : dom = DOMAIN features /\ tags = {Tag(features[m]) : m \in dom} /\ top = Top(features)
  OBVIOUS
<1>2. PICK count : count = [t \in tags |-> Common(features, t)]
  OBVIOUS
<1>3. PICK before : before = [t \in tags |-> {u \in tags : count[u] > count[t] \/ (count[u] = count[t] /\ u < t)}]
  OBVIOUS
<1>4. tags \subseteq 1..14 /\ IsFiniteSet(tags)
  <2>1. tags \subseteq 1..14
    BY <1>1, TagKnown
  <2>2. IsFiniteSet(1..14)
    <3>1. 1 \in Int /\ 14 \in Int
      OBVIOUS
    <3> QED BY <3>1, FS_Interval
  <2> QED BY <2>1, <2>2, FS_Subset
<1>5. \A t \in tags : count[t] = Common(features, t) /\ count[t] \in Nat
  <2> TAKE t \in tags
  <2>1. PICK s : s = {m \in dom : Tag(features[m]) = t}
    OBVIOUS
  <2>2. s \subseteq dom /\ IsFiniteSet(dom)
    BY <1>1, <2>1
  <2>3. Cardinality(s) \in Nat
    BY <2>2, FS_Subset, FS_CardinalityType
  <2> QED BY <1>1, <1>2, <2>1, <2>3 DEF Common
<1> DEFINE Ahead(u, t) == count[u] > count[t] \/ (count[u] = count[t] /\ u < t)
<1>6. /\ before \in [tags -> SUBSET tags]
      /\ \A u, t \in tags : u \in before[t] <=> Ahead(u, t)
  BY <1>3
<1>7. \A t \in tags : t \in Nat /\ count[t] \in Nat
  BY <1>4, <1>5
<1>8. \A s, t \in tags : ~Ahead(s, s) /\ (s = t \/ Ahead(s, t) \/ Ahead(t, s))
  BY <1>7
<1>9. \A s, t, u \in tags : Ahead(s, t) /\ Ahead(t, u) => Ahead(s, u)
  BY <1>7
<1> HIDE DEF Ahead
<1>10. \A s, t \in tags : t \in before[s] => before[t] \subseteq before[s]
  <2> SUFFICES ASSUME NEW s \in tags, NEW t \in tags, t \in before[s], NEW u \in before[t] PROVE u \in before[s]
    OBVIOUS
  <2>1. u \in tags
    BY <1>6
  <2> QED BY <1>6, <1>9, <2>1
<1>24. /\ \A t \in tags : t \notin before[t]
       /\ \A s, t \in tags : s = t \/ s \in before[t] \/ t \in before[s]
  BY <1>6, <1>8
<1>11. PICK rank, card : rank = [t \in tags |-> Cardinality(before[t])] /\ card = Cardinality(tags)
  OBVIOUS
<1>12. /\ card \in Nat
       /\ \A t \in tags : rank[t] \in 0..(card - 1)
       /\ \A s, t \in tags : t \in before[s] => rank[t] < rank[s]
       /\ \A k \in 0..(card - 1) : \E t \in tags : rank[t] = k
  <2>1. /\ card \in Nat
        /\ \A t \in tags : Cardinality(before[t]) \in 0..(card - 1)
        /\ \A s, t \in tags : t \in before[s] => Cardinality(before[t]) < Cardinality(before[s])
        /\ \A k \in 0..(card - 1) : \E t \in tags : Cardinality(before[t]) = k
    <3>1. before \in [tags -> SUBSET tags] /\ IsFiniteSet(tags)
      BY <1>4, <1>6
    <3>2. /\ \A t \in tags : t \notin before[t]
          /\ \A s, t \in tags : s = t \/ s \in before[t] \/ t \in before[s]
          /\ \A s, t \in tags : t \in before[s] => before[t] \subseteq before[s]
      BY <1>10, <1>24
    <3>3. /\ Cardinality(tags) \in Nat
          /\ \A t \in tags : Cardinality(before[t]) \in 0..(Cardinality(tags) - 1)
          /\ \A s, t \in tags : t \in before[s] => Cardinality(before[t]) < Cardinality(before[s])
          /\ \A k \in 0..(Cardinality(tags) - 1) : \E t \in tags : Cardinality(before[t]) = k
      BY <3>1, <3>2, RankedAll
    <3> QED BY <1>11, <3>3
  <2> QED BY <1>11, <2>1
<1>13. PICK listed, nth :
         /\ listed = IF card < MaxTop THEN card ELSE MaxTop
         /\ nth = [k \in 1..listed |-> CHOOSE t \in tags : rank[t] = k - 1]
  OBVIOUS
<1>14. listed \in Nat /\ listed <= card
  BY <1>12, <1>13, AnalysisAssumption
<1>15. \A k \in 1..listed : nth[k] \in tags /\ rank[nth[k]] = k - 1
  <2> TAKE k \in 1..listed
  <2>1. \E t \in tags : rank[t] = k - 1
    <3>1. k - 1 \in 0..(card - 1)
      BY <1>12, <1>14
    <3> QED BY <1>12, <3>1
  <2>2. nth[k] = CHOOSE t \in tags : rank[t] = k - 1
    BY <1>13
  <2> QED BY <2>1, <2>2
<1>16. top = [k \in 1..listed |-> <<nth[k], count[nth[k]]>>]
  <2> DEFINE Commoner(t) ==
               {u \in tags : \/ Common(features, u) > Common(features, t)
                             \/ Common(features, u) = Common(features, t) /\ u < t}
             Nth(k) == CHOOSE t \in tags : Cardinality(Commoner(t)) = k - 1
  <2>1. top = [k \in 1..listed |-> <<Nth(k), Common(features, Nth(k))>>]
    BY <1>1, <1>11, <1>13 DEF Top
  <2>2. \A t \in tags : Commoner(t) = before[t]
    BY <1>3, <1>5
  <2>3. \A t \in tags : Cardinality(Commoner(t)) = rank[t]
    BY <1>11, <2>2
  <2> HIDE DEF Commoner
  <2>4. \A k \in 1..listed : Nth(k) = nth[k]
    <3> TAKE k \in 1..listed
    <3>1. nth[k] = CHOOSE t \in tags : rank[t] = k - 1
      BY <1>13
    <3>2. \A t \in tags : Cardinality(Commoner(t)) = k - 1 <=> rank[t] = k - 1
      BY <2>3
    <3>3. (CHOOSE t \in tags : Cardinality(Commoner(t)) = k - 1) = (CHOOSE t \in tags : rank[t] = k - 1)
      BY <3>2
    <3> QED BY <3>1, <3>3
  <2> HIDE DEF Nth
  <2>5. \A k \in 1..listed : Common(features, Nth(k)) = count[nth[k]]
    BY <1>5, <1>15, <2>4
  <2> QED BY <2>1, <2>4, <2>5
<1>17. PICK t \in tags : t = Tag(features[n])
  BY <1>1
<1>18. i \in 1..listed /\ top[i][2] = count[nth[i]] /\ \A k \in 1..listed : top[k][1] = nth[k]
  BY <1>1, <1>16
<1>19. count[t] > count[nth[i]]
  BY <1>1, <1>5, <1>17, <1>18
<1>20. t \in before[nth[i]]
  BY <1>6, <1>15, <1>18, <1>19 DEF Ahead
<1>21. rank[t] < i - 1 /\ rank[t] \in Nat
  BY <1>12, <1>15, <1>17, <1>18, <1>20
<1>22. PICK j \in 1..(i - 1) : rank[t] = j - 1 /\ j \in 1..listed
  <2>1. rank[t] + 1 \in 1..(i - 1) /\ rank[t] = (rank[t] + 1) - 1 /\ rank[t] + 1 \in 1..listed
    BY <1>14, <1>18, <1>21
  <2> QED BY <2>1
<1>23. nth[j] = t
  <2>1. nth[j] \in tags /\ rank[nth[j]] = rank[t]
    BY <1>15, <1>22
  <2>2. nth[j] \notin before[t] /\ t \notin before[nth[j]]
    BY <1>12, <2>1
  <2> QED BY <1>6, <1>8, <2>1, <2>2
<1> QED BY <1>1, <1>17, <1>18, <1>22, <1>23

LEMMA CategoriesFinite == IsFiniteSet(Categories) /\ "density" \notin Categories
<1>1. IsFiniteSet({"food"} \cup {"retail"} \cup {"services"} \cup {"healthcare"})
  <2>1. PICK t : t = {"food"}
    OBVIOUS
  <2>2. IsFiniteSet(t)
    BY <2>1, FS_Singleton
  <2>3. IsFiniteSet(t \cup {"retail"} \cup {"services"} \cup {"healthcare"})
    BY <2>2, FS_AddElement
  <2> QED BY <2>1, <2>3
<1>2. PICK s : s = {"food"} \cup {"retail"} \cup {"services"} \cup {"healthcare"}
  OBVIOUS
<1>3. IsFiniteSet(s \cup {"office"} \cup {"craft"} \cup {"hospitality"} \cup {"other"})
  BY <1>1, <1>2, FS_AddElement
<1>4. Categories = s \cup {"office"} \cup {"craft"} \cup {"hospitality"} \cup {"other"}
  BY <1>2 DEF Categories
<1> QED BY <1>3, <1>4 DEF Categories

(* The evidence of a map counts what its summary counts.                   *)
LEMMA EvidenceCounted ==
  ASSUME NEW counts, DOMAIN counts = Categories, \A c \in Categories : counts[c] \in Nat,
         NEW total, NEW evidence,
         evidence = [r \in {x \in MapRecords(total, counts) : x[1] # "density"} |-> r[2]]
  PROVE  SumFunction(evidence) = SumFunction(counts)
<1>1. IsFiniteSet(Categories) /\ "density" \notin Categories
  BY CategoriesFinite
<1>2. PICK some, h : some = {c \in Categories : counts[c] > 0} /\ h = [c \in some |-> <<c, counts[c]>>]
  OBVIOUS
<1>3. some \subseteq Categories /\ IsFiniteSet(some)
  BY <1>1, <1>2, FS_Subset
<1>4. {x \in MapRecords(total, counts) : x[1] # "density"} = {h[c] : c \in some}
  <2>1. MapRecords(total, counts) = {<<"density", total>>} \cup {<<c, counts[c]>> : c \in some}
    BY <1>2 DEF MapRecords
  <2>2. {<<c, counts[c]>> : c \in some} = {h[c] : c \in some}
    BY <1>2
  <2>3. \A c \in some : h[c][1] # "density"
    BY <1>1, <1>2, <1>3
  <2> QED BY <2>1, <2>2, <2>3
<1>5. DOMAIN evidence = {h[c] : c \in some} /\ \A c \in some : evidence[h[c]] = counts[c]
  BY <1>2, <1>4
<1>6. SumFunction(evidence) = SumFunctionOnSet(evidence, {h[c] : c \in some})
  BY <1>5 DEF SumFunction
<1>7. SumFunctionOnSet(evidence, {h[c] : c \in some}) = SumFunctionOnSet(counts, some)
  <2>1. \A c \in some : counts[c] \in Nat /\ evidence[h[c]] = counts[c]
    BY <1>3, <1>5
  <2>2. \A c, d \in some : h[c] = h[d] => c = d
    BY <1>2
  <2> QED BY <1>3, <2>1, <2>2, SumRenamed
<1>8. SumFunctionOnSet(counts, Categories) = SumFunctionOnSet(counts, some)
  <2>1. \A c \in Categories \ some : counts[c] = 0
    BY <1>2
  <2> QED BY <1>1, <1>3, <2>1, SumSupport
<1> QED BY <1>6, <1>7, <1>8 DEF SumFunction

LEMMA FootprintsStep ==
  ASSUME AnalysisNext
  PROVE  FootprintsTrue'
<1> SUFFICES ASSUME question'.of = "footprint" PROVE FootprintsTrue'
  BY DEF FootprintsTrue
<1>1. PICK q : q = question'.q
  OBVIOUS
<1>2. q \in BoundedSeq(Elements, 3) /\ answer' = Summary(q)
  BY <1>1, OneQuestion
<1>3. PICK len \in Nat : DOMAIN q = 1..len
  <2>1. \E m \in 0..3 : q \in [1..m -> Elements]
    BY <1>2 DEF BoundedSeq, SeqOf
  <2>2. \A m \in 0..3 : m \in Nat
    OBVIOUS
  <2> QED BY <2>1, <2>2
<1>4. PICK I : I = {i \in DOMAIN q : q[i].tagged /\ q[i].placed}
  OBVIOUS
<1>5. PICK fs, card : fs = Features(q) /\ card = Cardinality(I)
  OBVIOUS
<1>6. I \subseteq Nat /\ IsFiniteSet(I)
  <2>1. IsFiniteSet(1..len)
    BY FS_Interval
  <2> QED BY <1>3, <1>4, <2>1, FS_Subset
<1>7. DOMAIN fs = 1..card /\ card \in Nat /\ Len(fs) = card
  <2>1. fs = Staying(q, I)
    BY <1>4, <1>5 DEF Features
  <2>2. DOMAIN fs = 1..card /\ card \in Nat
    BY <1>5, <1>6, <2>1, KeptAll DEF HasKept
  <2> QED BY <2>2
<1>8. IsFiniteSet(DOMAIN fs) /\ Cardinality(DOMAIN fs) = card
  <2>1. IsFiniteSet(1..card) /\ Cardinality(1..card) = card
    BY <1>7, FS_Interval
  <2> QED BY <1>7, <2>1
<1>9. PICK counts, tops, records : counts = Counts(fs) /\ tops = Top(fs) /\ records = MapRecords(card, counts)
  OBVIOUS
<1>10. answer'.total = card /\ answer'.counts = counts /\ answer'.top = tops /\ answer'.records = records
  BY <1>2, <1>5, <1>7, <1>9 DEF Summary
<1>11. DOMAIN counts = Categories /\ \A c \in Categories : counts[c] = Cardinality({i \in DOMAIN fs : Category(fs[i]) = c})
  BY <1>9 DEF Counts
<1>12. SumFunction(counts) = card
  <2>1. PICK k : k = [n \in DOMAIN fs |-> Category(fs[n])]
    OBVIOUS
  <2>2. k \in [DOMAIN fs -> Categories]
    BY <2>1, TagKnown
  <2>3. IsFiniteSet(Categories)
    BY CategoriesFinite
  <2>4. SumFunctionOnSet([c \in Categories |-> Cardinality({x \in DOMAIN fs : k[x] = c})], Categories) = Cardinality(DOMAIN fs)
    BY <1>8, <2>2, <2>3, CountedOnce
  <2>5. counts = [c \in Categories |-> Cardinality({x \in DOMAIN fs : k[x] = c})]
    <3>1. \A c \in Categories : {i \in DOMAIN fs : Category(fs[i]) = c} = {x \in DOMAIN fs : k[x] = c}
      BY <2>1
    <3> QED BY <1>9, <3>1 DEF Counts
  <2> QED BY <1>8, <1>11, <2>4, <2>5 DEF SumFunction
<1>13. \A c \in Categories : counts[c] \in Nat
  <2> TAKE c \in Categories
  <2>1. IsFiniteSet({i \in DOMAIN fs : Category(fs[i]) = c})
    <3>1. {i \in DOMAIN fs : Category(fs[i]) = c} \subseteq DOMAIN fs
      OBVIOUS
    <3> QED BY <1>8, <3>1, FS_Subset
  <2> QED BY <1>11, <2>1, FS_CardinalityType
<1>14. PICK evidence : evidence = [r \in {x \in records : x[1] # "density"} |-> r[2]]
  OBVIOUS
<1>15. SumFunction(evidence) = card
  BY <1>9, <1>11, <1>12, <1>13, <1>14, EvidenceCounted
<1>16. ASSUME NEW i \in DOMAIN tops, NEW f \in ToSet(fs), Common(fs, Tag(f)) > tops[i][2]
       PROVE  \E j \in 1..(i - 1) : tops[j][1] = Tag(f)
  <2>1. PICK n \in DOMAIN fs : f = fs[n]
    BY DEF ToSet
  <2> QED BY <1>8, <1>9, <1>16, <2>1, TopKnown
<1> QED BY <1>1, <1>4, <1>5, <1>10, <1>12, <1>14, <1>15, <1>16 DEF FootprintsTrue
-----------------------------------------------------------------------------
(* For any cells, numbers, markets, contests, comparisons, workforces,     *)
(* previews, records and mapped elements: a publication code is never a    *)
(* number, nothing derived of a missing or suppressed estimate is one, a   *)
(* disagreement is kept as both sides of it were, ranks number the values  *)
(* without a gap, a footprint counts each feature once, and a preview      *)
(* warns of what it has no number for (marginOfError.ts,                   *)
(* marketAnalysis.ts, competitionAnalysis.ts, locationComparison.ts,       *)
(* workforceAnalysis.ts, osmCommercialCategorizer.ts).                     *)
THEOREM AnalysesAlwaysSound == AnalysisSpec => []AnalysesSound
<1>1. AnalysisInit => AnalysesSound
  <2> SUFFICES ASSUME AnalysisInit PROVE AnalysesSound
    OBVIOUS
  <2>1. question.of = "nothing"
    BY DEF AnalysisInit, NoQuestion
  <2> QED BY <2>1 DEF AnalysesSound, CellsTrue, MarginsTrue, DisagreementsKept, DerivedHonest,
                      RelevanceTrue, RanksTrue, ConcentrationTrue, FootprintsTrue, PreviewsHonest,
                      SharesAddUp
<1>2. AnalysesSound /\ [AnalysisNext]_analysisVars => AnalysesSound'
  <2> SUFFICES ASSUME AnalysesSound, [AnalysisNext]_analysisVars PROVE AnalysesSound'
    OBVIOUS
  <2>1. CASE AnalysisNext
    BY <2>1, CellsStep, MarginsStep, DisagreementsStep, DerivedStep, RelevanceStep, RanksStep,
       ConcentrationStep, FootprintsStep, PreviewsStep, SharesStep DEF AnalysesSound
  <2>2. CASE UNCHANGED analysisVars
    <3>1. question' = question /\ answer' = answer
      BY <2>2 DEF analysisVars
    <3>2. CellsTrue'
      BY <3>1 DEF AnalysesSound, CellsTrue
    <3>3. MarginsTrue'
      BY <3>1 DEF AnalysesSound, MarginsTrue
    <3>4. DisagreementsKept'
      BY <3>1 DEF AnalysesSound, DisagreementsKept
    <3>5. DerivedHonest'
      BY <3>1 DEF AnalysesSound, DerivedHonest
    <3>6. RelevanceTrue'
      BY <3>1 DEF AnalysesSound, RelevanceTrue
    <3>7. RanksTrue'
      BY <3>1 DEF AnalysesSound, RanksTrue
    <3>8. ConcentrationTrue'
      BY <3>1 DEF AnalysesSound, ConcentrationTrue
    <3>9. FootprintsTrue'
      BY <3>1 DEF AnalysesSound, FootprintsTrue
    <3>10. PreviewsHonest'
      BY <3>1 DEF AnalysesSound, PreviewsHonest
    <3>11. SharesAddUp'
      BY <3>1 DEF AnalysesSound, SharesAddUp
    <3> QED BY <3>2, <3>3, <3>4, <3>5, <3>6, <3>7, <3>8, <3>9, <3>10, <3>11 DEF AnalysesSound
  <2> QED BY <2>1, <2>2
<1> QED BY <1>1, <1>2, PTL DEF AnalysisSpec
=============================================================================
