--------------------------- MODULE EvidenceAnalysis ---------------------------
(***************************************************************************)
(* The pure analyses of packages/economic: what a raw cell of a statistics *)
(* bureau becomes, and what the market, competition, location and          *)
(* workforce analyses answer from such estimates.  The state is the        *)
(* question and its answer; a question is answered in one step.            *)
(*                                                                         *)
(* Numbers are small integers, a ratio is compared by multiplying out, and *)
(* an annual wage is counted in hours worked a year, so that an hourly and *)
(* an annual wage are the same number.                                     *)
(***************************************************************************)
EXTENDS Integers, Sequences, FiniteSets, SequencesExt, FiniteSetsExt, Functions, Selections

CONSTANTS
  Records,     \* the geographies of the fixtures' records and of queries
  Numbers,     \* the numbers a cell or an estimate may be
  Markets, Contests, Comparisons, Workforces, Previews, \* the questions asked
  Elements,    \* the map elements a footprint is made of
  MaxTop,      \* how many tags a footprint lists
  MaxParts     \* bound on the parts a margin of error is combined from

VARIABLES
  question,    \* what was asked
  answer       \* what was answered

analysisVars == <<question, answer>>

Estimate(status, reason, value) == [status |-> status, reason |-> reason, value |-> value]
Available(v) == Estimate("available", "none", v)
Suppressed(reason) == Estimate("suppressed", reason, 0)
Missing == Estimate("unavailable", "none", 0)
NotApplicable == Estimate("not_applicable", "none", 0)
NoRecord == Estimate("no_record", "none", 0)
Estimates == {Available(n) : n \in Numbers} \cup {Suppressed("disclosure"), Missing}

(* What may be found for a question: an estimate, or no record of one.     *)
Findings ==
  [status : {"available"}, reason : {"none"}, value : Nat]
  \cup {Suppressed("disclosure"), Suppressed("quality"), Suppressed("small_sample"), Missing, NoRecord}

(* The questions are what the schemas of the records let them be: a        *)
(* record's identifier and its county determine its state.                 *)
ASSUME AnalysisAssumption ==
  /\ Numbers \subseteq Nat /\ MaxParts \in Nat /\ MaxTop \in Nat
  /\ \A q \in Markets : {q.pop, q.estabs, q.emp, q.pay} \subseteq Findings /\ q.mapped \in BOOLEAN
                       /\ {q.density, q.pois, q.expected} \subseteq Nat /\ q.expects \in BOOLEAN
  /\ \A q \in Contests : q.sizes \in Seq(Nat) /\ {q.pois, q.area, q.total} \subseteq Nat
                        /\ {q.estabs, q.first} \subseteq Findings
  /\ \A q \in Comparisons : q.values \in Seq(Findings) /\ q.bench \in DOMAIN q.values
  /\ \A q \in Workforces :
       /\ {q.hourly, q.annual, q.top, q.rate, q.employed, q.median, q.bench, q.soc} \subseteq Findings
       /\ q.counts \in Seq(Findings) /\ q.nation \in Findings \X Findings
  /\ \A q \in Previews : /\ \A k \in DOMAIN q.found : q.found[k] \in Findings
                        /\ "employment" \in DOMAIN q.found /\ q.mapped \in BOOLEAN
  /\ \A e \in Elements : e.tagged \in BOOLEAN /\ e.placed \in BOOLEAN
  /\ \A r, g \in Records :
       /\ r.level = g.level /\ r.id = g.id => r.state = g.state
       /\ g.level = "county" /\ r.county = g.id => r.state = g.state

(* getNumericEstimateValue: there is a number only where it is available.  *)
(* NumericCoerced is the mutant that takes a suppressed one for zero.      *)
NumericCoerced(e) == e.status \in {"available", "suppressed"}
Numeric(e) == e.status = "available"

(* The estimate of the first record found, missing when there is none.     *)
EstimateOf(record) == IF record = NoRecord THEN Missing ELSE record
-----------------------------------------------------------------------------
(* Cells: what stands in a response is nothing, blanks, a publication      *)
(* code, other words or a number.  A blank passes the test for nothing and *)
(* is the number zero.  The sentinels are the bureau's negative numbers.   *)
Bureaus == {"lau", "oews", "acs", "cbp", "nri", "bfe"}
Sentinels == {"all_sixes", "all_eights", "all_nines", "four_nines"}
Codes == {"dash", "star", "two_stars", "three_stars", "N", "D", "S", "eight", "withheld"}
         \cup Sentinels
Cells ==
  [kind : {"nothing", "blank", "words"}, code : {"none"}, value : {0}]
  \cup [kind : {"code"}, code : Codes, value : {-9}]
  \cup [kind : {"number"}, code : {"none"}, value : Numbers]

IsNumber(c) == c.kind \in {"blank", "number"} \/ c.code \in Sentinels

(* What the codes of each bureau say: that there is no number, that it is  *)
(* withheld for one of three reasons, or that there cannot be one.         *)
Codebook(missing, disclosure, quality, small, inapplicable) ==
  [c \in missing \cup disclosure \cup quality \cup small \cup inapplicable |->
    CASE c \in missing    -> Missing
      [] c \in disclosure -> Suppressed("disclosure")
      [] c \in quality    -> Suppressed("quality")
      [] c \in small      -> Suppressed("small_sample")
      [] OTHER            -> NotApplicable]

Says(b) ==
  CASE b = "lau"  -> Codebook({"dash", "three_stars", "N"}, {"D", "eight"}, {}, {}, {})
    [] b = "oews" -> Codebook({"dash", "three_stars", "N"}, {"star", "eight", "D"}, {"two_stars"}, {}, {})
    [] b = "acs"  -> Codebook({"all_eights"}, {}, {"all_nines"}, {"all_sixes"}, {})
    [] b = "cbp"  -> Codebook({"N"}, {"D"}, {"S"}, {}, {})
    [] b = "nri"  -> Codebook({}, {}, {"withheld"}, {}, {"dash", "four_nines"})
    [] OTHER      -> Codebook({}, {}, {}, {}, {"four_nines"})

(* With a noise flag nothing and zero are placeholders of a suppressed     *)
(* employment count (parseCbpRawEstimate).                                 *)
Parse(b, c, flagged) ==
  LET noisy == b = "cbp" /\ flagged IN
  CASE c.kind = "nothing" ->
         IF noisy THEN Suppressed("disclosure") ELSE IF b = "bfe" THEN NotApplicable ELSE Missing
    [] c.code \in DOMAIN Says(b)               -> Says(b)[c.code]
    [] c.code \notin DOMAIN Says(b) /\ c.kind # "nothing" /\ ~IsNumber(c) -> Missing
    [] OTHER -> IF noisy /\ c.value = 0 THEN Suppressed("disclosure") ELSE Available(c.value)

(* A bound is given with a top-coded wage and with a noise flag.           *)
Bounded(b, c, flagged) ==
  \/ b = "oews" /\ c.code = "star"
  \/ /\ b = "cbp" /\ flagged /\ c.code # "S"
     /\ Parse(b, c, flagged).status = "suppressed"

(* The margin of error beside an estimate: a negative one is a controlled  *)
(* estimate's and there is none.                                           *)
NoMargin == -1
Margin(c) == IF IsNumber(c) /\ c.kind # "code" THEN c.value ELSE NoMargin

(* Squared margins of a sum, and of a ratio and a proportion n/d, the last *)
(* two times d to the fourth.                                              *)
SumMargin(ms) == SumFunction([i \in DOMAIN ms |-> ms[i] * ms[i]])
RatioMargin(n, nm, d, dm) == nm * nm * d * d + n * n * dm * dm
ProportionMargin(n, nm, d, dm) ==
  LET radicand == nm * nm * d * d - n * n * dm * dm
  IN IF radicand > 0 THEN radicand ELSE RatioMargin(n, nm, d, dm)
-----------------------------------------------------------------------------
(* Two signals disagree when their values are apart by the threshold, in   *)
(* percent of the expected one, or when one is of another status.          *)
Apart(e, o) == IF e > o THEN e - o ELSE o - e
Disagreement(key, e, o, warning, critical) ==
  LET base == IF e.value = 0 THEN 1 ELSE e.value
      apart == 100 * Apart(e.value, o.value)
      found(severity) == {[key |-> key, severity |-> severity, expected |-> e, observed |-> o]}
  IN CASE Numeric(e) /\ Numeric(o) /\ apart >= critical * base -> found("critical")
       [] Numeric(e) /\ Numeric(o) /\ apart < critical * base /\ apart >= warning * base ->
            found("warning")
       [] ~(Numeric(e) /\ Numeric(o)) /\ e.status # o.status -> found("info")
       [] OTHER -> {}

(* A ratio of two estimates, here rounded down; a suppressed one passes    *)
(* its reason on, the numerator first.                                     *)
RatioOf(num, den) ==
  IF Numeric(num) /\ Numeric(den) /\ den.value > 0
  THEN Available(num.value \div den.value)
  ELSE IF num.status = "suppressed" THEN num
  ELSE IF den.status = "suppressed" THEN den ELSE Missing

(* The evidence bundle holds all records, or one that says there are none. *)
Bundle(records) ==
  IF \A r \in records : r = NoRecord THEN {Missing} ELSE records \ {NoRecord}

(* analyzeMarketContext.  A population of zero makes the establishments    *)
(* per resident infinite, which the result's schema refuses.               *)
Counted(q) ==
  Numeric(EstimateOf(q.pop)) /\ Numeric(EstimateOf(q.estabs)) /\ q.estabs.value > 0
PerEstablishment(q) ==
  IF Counted(q) THEN Available(q.pop.value \div q.estabs.value)
  ELSE IF q.estabs.status = "suppressed" THEN Suppressed("disclosure") ELSE Missing
AverageWage(q) == RatioOf(EstimateOf(q.pay), EstimateOf(q.emp))
Footprint(q, n) == IF q.mapped THEN Available(n) ELSE Missing

(* The mapped density against the one expected, and the mapped places      *)
(* against the counted establishments.                                     *)
MarketDisagreements(q) ==
  (IF q.expects /\ q.mapped /\ q.pop # NoRecord
   THEN Disagreement("density", Available(q.expected), Footprint(q, q.density), 15, 35) ELSE {})
  \cup (IF q.estabs # NoRecord /\ q.mapped
        THEN Disagreement("establishments", q.estabs, Footprint(q, q.pois), 25, 50) ELSE {})

Market(q) ==
  [refused |-> Counted(q) /\ q.pop.value = 0,
   wage |-> AverageWage(q), perEstab |-> PerEstablishment(q),
   disagreements |-> MarketDisagreements(q), bundle |-> Bundle({q.pop, q.estabs, q.emp, q.pay})]

(* calculateHhiFromValues, calculateHhiFromShares: the sum of the squared  *)
(* shares in ten thousandths, times the square of the total.               *)
Total(values) == SumFunction(values)
Tier(values) ==
  LET hhi == 10000 * SumMargin(values)
      square == Total(values) * Total(values)
  IN CASE hhi > 2500 * square                          -> "highly"
       [] hhi <= 2500 * square /\ hhi >= 1500 * square /\ square > 0 -> "moderately"
       [] OTHER                                        -> "unconcentrated"

(* analyzeCompetition: without sizes the mapped competitors share equally; *)
(* without a count of establishments the first record stands for it.       *)
Reported(q) == IF q.estabs # NoRecord THEN q.estabs ELSE q.first
Competition(q) ==
  [tier |-> Tier(IF q.sizes # <<>> THEN q.sizes ELSE [i \in 1..q.pois |-> 1]),
   reported |-> EstimateOf(Reported(q)),
   density |-> IF q.area > 0 THEN Available(q.pois \div q.area) ELSE Missing,
   share |-> IF q.total > 0 THEN Available((100 * q.pois) \div q.total) ELSE Missing,
   disagreements |->
     IF Reported(q) = NoRecord THEN {}
     ELSE Disagreement("competitors", Reported(q), Available(q.pois), 20, 40),
   bundle |-> Bundle({q.estabs, q.first})]

(* calculateLocationQuotient, compared with 1.2 and 0.8.                   *)
Quotient(local, localTotal, bench, benchTotal) ==
  CASE localTotal = 0 \/ benchTotal = 0 \/ bench = 0       -> "underrepresented"
    [] localTotal > 0 /\ 10 * local * benchTotal > 12 * bench * localTotal -> "high"
    [] localTotal > 0 /\ 10 * local * benchTotal < 8 * bench * localTotal  -> "underrepresented"
    [] OTHER                                               -> "average"

(* compareLocations: available values are ranked from the largest, equal   *)
(* ones in their order; employment is compared as a share of at least      *)
(* Floor.                                                                  *)
Floor == 2
AtLeastFloor(n) == IF n > Floor THEN n ELSE Floor
Rank(values, i) ==
  IF ~Numeric(EstimateOf(values[i])) THEN 0
  ELSE 1 + Cardinality({j \in DOMAIN values :
             /\ Numeric(EstimateOf(values[j]))
             /\ \/ values[j].value > values[i].value
                \/ values[j].value = values[i].value /\ j < i})
Specialized(local, bench) ==
  IF Numeric(local) /\ Numeric(bench) /\ bench.value > 0
  THEN Quotient(local.value, AtLeastFloor(local.value), bench.value, AtLeastFloor(bench.value))
  ELSE IF "suppressed" \in {local.status, bench.status} THEN "suppressed" ELSE "underrepresented"
Compare(q) ==
  [ranks |-> [i \in DOMAIN q.values |-> Rank(q.values, i)],
   relative |-> [i \in DOMAIN q.values |->
     /\ Numeric(EstimateOf(q.values[i])) /\ Numeric(EstimateOf(q.values[q.bench]))
     /\ q.values[q.bench].value > 0],
   tiers |-> [i \in DOMAIN q.values |-> Specialized(q.values[i], q.values[q.bench])]]

(* analyzeWorkforceContext: an hourly percentile, or the annual one.       *)
Wage(direct, other) ==
  IF direct # NoRecord THEN direct ELSE EstimateOf(other)

Dispersion(low, high) ==
  LET ratio == RatioOf(high, low) IN
  IF ~Numeric(ratio) THEN IF ratio.status = "suppressed" THEN "suppressed" ELSE "moderate"
  ELSE CASE 10 * high.value < 25 * low.value          -> "compressed"
         [] high.value > 6 * low.value                -> "highly_dispersed"
         [] high.value \in (4 * low.value + 1)..(6 * low.value) -> "dispersed"
         [] OTHER                                     -> "moderate"

Unemployment(rate) ==
  CASE ~Numeric(EstimateOf(rate))           -> "unavailable"
    [] rate.status = "available" /\ rate.value < 4 -> "low"
    [] rate.status = "available" /\ rate.value > 8 -> "high"
    [] rate.status = "available" /\ rate.value \in 7..8 -> "elevated"
    [] OTHER                                -> "moderate"

(* The share of an occupation in the local and the national employment; a  *)
(* part larger than its total is caught and answered as average.           *)
Occupation(soc, total, nation) ==
  IF \A e \in {soc, total, nation[1], nation[2]} : Numeric(e) /\ (e = soc \/ e.value > 0)
  THEN IF soc.value > total.value \/ nation[1].value > nation[2].value THEN "average"
       ELSE Quotient(soc.value, total.value, nation[1].value, nation[2].value)
  ELSE IF "suppressed" \in {soc.status, total.status} THEN "suppressed" ELSE "average"

(* The first count of employment, whatever its occupation, is the total.   *)
TotalOf(q) == IF q.counts = <<>> THEN NoRecord ELSE Head(q.counts)

(* Fewer than two occupations are answered as unconcentrated.              *)
LaborTier(q) ==
  LET counts == Staying(q.counts, {i \in DOMAIN q.counts :
                                     Numeric(q.counts[i]) /\ q.counts[i].value > 0})
  IN IF Len(counts) > 1 THEN Tier([i \in DOMAIN counts |-> counts[i].value]) ELSE "unconcentrated"

WorkforceDisagreements(q) ==
  (IF q.employed # NoRecord /\ TotalOf(q) # NoRecord
   THEN Disagreement("employment", q.employed, TotalOf(q), 20, 40) ELSE {})
  \cup (IF Numeric(EstimateOf(q.median)) /\ q.bench # NoRecord
        THEN Disagreement("wage", q.bench, q.median, 30, 50) ELSE {})

Workforce(q) ==
  LET low == Wage(q.hourly, q.annual)
      high == Wage(q.top, q.annual)
  IN [wages |-> <<low, high>>, ratio |-> RatioOf(high, low), dispersion |-> Dispersion(low, high),
      unemployment |-> Unemployment(q.rate), tier |-> LaborTier(q),
      occupation |-> Occupation(q.soc, TotalOf(q), q.nation),
      disagreements |-> WorkforceDisagreements(q),
      bundle |-> ({q.hourly, q.annual, q.rate} \cup ToSet(q.counts)) \ {NoRecord}]
-----------------------------------------------------------------------------
(* categorizeOsmTags: the first rule that holds names the category; the    *)
(* rule stands for the primary tag.                                        *)
Rules(t) == <<
  <<t.amenity = "food", "food">>, <<t.shop = "food", "food">>, <<t.shop # "none", "retail">>,
  <<t.amenity = "service", "services">>, <<t.amenity = "health", "healthcare">>,
  <<t.healthcare, "healthcare">>, <<t.office, "office">>, <<t.commercial = "office", "office">>,
  <<t.craft, "craft">>, <<t.commercial = "light_industry", "craft">>,
  <<t.tourism = "hotel", "hospitality">>, <<t.commercial # "none", "other">>,
  <<t.amenity # "none", "other">>, <<TRUE, "other">> >>
Tag(t) == SelectInSeq(Rules(t), LAMBDA r : r[1])
Category(t) == Rules(t)[Tag(t)][2]
Categories ==
  {"food", "retail", "services", "healthcare", "office", "craft", "hospitality", "other"}

(* Elements without tags or without a position are left out.               *)
Features(elements) ==
  Staying(elements, {i \in DOMAIN elements : elements[i].tagged /\ elements[i].placed})

(* The summary counts features by category and lists the commonest tags;   *)
(* the evidence is a density and a count for each category that occurs.    *)
Counts(features) ==
  [c \in Categories |-> Cardinality({i \in DOMAIN features : Category(features[i]) = c})]
Common(features, t) == Cardinality({i \in DOMAIN features : Tag(features[i]) = t})
Top(features) ==
  LET tags == {Tag(features[i]) : i \in DOMAIN features}
      Commoner(t) == {u \in tags : \/ Common(features, u) > Common(features, t)
                                   \/ Common(features, u) = Common(features, t) /\ u < t}
      nth(n) == CHOOSE t \in tags : Cardinality(Commoner(t)) = n - 1
      listed == IF Cardinality(tags) < MaxTop THEN Cardinality(tags) ELSE MaxTop
  IN [n \in 1..listed |-> <<nth(n), Common(features, nth(n))>>]
MapRecords(total, counts) ==
  {<<"density", total>>} \cup {<<c, counts[c]>> : c \in {d \in Categories : counts[d] > 0}}
Summary(elements) ==
  LET features == Features(elements)
  IN [total |-> Len(features), counts |-> Counts(features), top |-> Top(features),
      records |-> MapRecords(Len(features), Counts(features))]

(* generateBusinessContextPreview: what the fixtures say of a business, a  *)
(* quotient derived from its employment, a concentration whenever places   *)
(* are mapped, and a warning for everything that is withheld.              *)
BenchmarkQuotient(e) ==
  IF Numeric(e) /\ e.value > 0 THEN Available(e.value)
  ELSE IF e.status = "suppressed" THEN e ELSE Missing
Preview(q) ==
  LET estimates == [k \in DOMAIN q.found \cup {"quotient", "concentration"} |->
        CASE k = "quotient"      -> BenchmarkQuotient(EstimateOf(q.found["employment"]))
          [] k = "concentration" -> IF q.mapped THEN Available(3) ELSE Missing
          [] OTHER               -> EstimateOf(q.found[k])]
  IN [estimates |-> estimates,
      warned |-> {k \in DOMAIN estimates : estimates[k].status \in {"suppressed", "unavailable"}}]

(* calculateShiftShare, times the base employments of the industry and of  *)
(* the total: growth of the nation, of the industry beside it, and of the  *)
(* place beside its industry.                                              *)
Growth(now, base, times) == (now - base) * times
ShiftShare(p) ==
  [total |-> Growth(p.local[2], p.local[1], p.industry[1] * p.all[1]),
   nation |-> Growth(p.all[2], p.all[1], p.local[1] * p.industry[1]),
   mix |-> Growth(p.industry[2], p.industry[1], p.local[1] * p.all[1])
           - Growth(p.all[2], p.all[1], p.local[1] * p.industry[1]),
   share |-> Growth(p.local[2], p.local[1], p.industry[1] * p.all[1])
             - Growth(p.industry[2], p.industry[1], p.local[1] * p.all[1])]
-----------------------------------------------------------------------------
(* EconomicFixtureAdapter: the records that bear on a place are its own, a *)
(* county's state, and what is known to lie in the one county the fixtures *)
(* are of; a state's are all that carry its code.                          *)
OfTravis(r, county) ==
  /\ county = "48453"
  /\ r.level \in {"point", "box"} \/ (r.level \in {"tract", "zcta", "cbsa"} /\ r.county = county)

Relevant(r, g) ==
  \/ r.level = g.level /\ r.id = g.id
  \/ g.level = "county" /\ r.level = "state" /\ r.state = g.state
  \/ g.level = "county" /\ OfTravis(r, g.id)
  \/ g.level = "state" /\ r.coded /\ r.state = g.state
-----------------------------------------------------------------------------
NoQuestion == [of |-> "nothing"]

AnalysisInit == question = NoQuestion /\ answer = <<>>

Asks(of, q, result) ==
  /\ question = NoQuestion
  /\ question' = [of |-> of, q |-> q]
  /\ answer' = result

ReadCell(b, c, flagged) ==
  Asks("cell", [bureau |-> b, cell |-> c, flagged |-> flagged],
       <<Parse(b, c, flagged), Margin(c)>>)

Combine(ms, n, d) ==
  /\ d > 0 /\ Len(ms) = 2
  /\ Asks("margin", [parts |-> ms, n |-> n, d |-> d],
          <<SumMargin(ms), ProportionMargin(n, ms[1], d, ms[2]), RatioMargin(n, ms[1], d, ms[2])>>)

AnalysisNext ==
  \/ \E b \in Bureaus, c \in Cells, f \in BOOLEAN : ReadCell(b, c, f)
  \/ \E ms \in BoundedSeq(Numbers, MaxParts), n, d \in Numbers : Combine(ms, n, d)
  \/ \E q \in Markets : Asks("market", q, Market(q))
  \/ \E q \in Contests : Asks("competition", q, Competition(q))
  \/ \E q \in Comparisons : Asks("locations", q, Compare(q))
  \/ \E r \in Records, g \in Records :
       Asks("relevance", [record |-> r, asked |-> g], Relevant(r, g))
  \/ \E q \in Workforces : Asks("workforce", q, Workforce(q))
  \/ \E q \in Previews : Asks("preview", q, Preview(q))
  \/ \E es \in BoundedSeq(Elements, 3) : Asks("footprint", es, Summary(es))
  \/ \E l, i, a \in (Numbers \ {0}) \X Numbers :
       Asks("shift", [local |-> l, industry |-> i, all |-> a],
            ShiftShare([local |-> l, industry |-> i, all |-> a]))

AnalysisSpec == AnalysisInit /\ [][AnalysisNext]_analysisVars

AnalysisTypeOK ==
  question.of \in {"nothing", "cell", "margin", "market", "competition", "locations", "workforce",
                  "relevance", "preview", "footprint", "shift"}
-----------------------------------------------------------------------------
(* A bureau's own publication code or an empty cell is never a number, a   *)
(* number is the one that stands in the cell, a flagged zero is not one,   *)
(* and a negative margin is none (the parsers' promise; a blank is read as *)
(* zero, see README).                                                      *)
CellsTrue ==
  question.of = "cell" =>
    LET q == question.q  e == answer[1] IN
    /\ (q.cell.kind \in {"nothing", "words"} \/ q.cell.code \in DOMAIN Says(q.bureau)) => ~Numeric(e)
    /\ Numeric(e) => e.value = q.cell.value
    /\ (Numeric(e) /\ e.value = 0 /\ q.bureau = "cbp") => ~q.flagged
    /\ Bounded(q.bureau, q.cell, q.flagged) => e.status = "suppressed"
    /\ answer[2] # NoMargin => answer[2] >= 0

(* The margin of a proportion never exceeds that of the ratio it falls     *)
(* back on, and is never zero while a part has one.                        *)
MarginsTrue ==
  question.of = "margin" =>
    /\ answer[2] <= answer[3]
    /\ answer[2] = 0 => (question.q.parts[1] = 0)
    /\ answer[1] = 0 <=> (\A i \in DOMAIN question.q.parts : question.q.parts[i] = 0)

(* Signals that differ by more than the critical share, or of which only   *)
(* one has a value, are reported, both as they were, and equal ones never. *)
DisagreementsKept ==
  question.of \in {"market", "competition", "workforce"} =>
    /\ \A d \in answer.disagreements :
         /\ d.expected # d.observed
         /\ d.severity = "info" <=> d.expected.status # d.observed.status
    /\ (question.of = "competition" /\ question.q.estabs # NoRecord) =>
         \/ \E d \in answer.disagreements :
              d.expected = question.q.estabs /\ d.observed.value = question.q.pois
         \/ /\ question.q.estabs.status = "available"
            /\ \/ 100 * Apart(question.q.estabs.value, question.q.pois) < 20 * question.q.estabs.value
               \/ question.q.estabs.value = question.q.pois

(* Nothing derived from a suppressed or missing estimate is a number, and  *)
(* what is suppressed stays so; a market that is answered has a number for *)
(* every available pair; evidence is kept whole and never empty.           *)
NoValue(e) == e.status \in {"suppressed", "unavailable", "no_record"}
DerivedHonest ==
  /\ question.of = "market" => LET q == question.q IN
       /\ (NoValue(q.pay) \/ NoValue(q.emp)) => answer.wage.status # "available"
       /\ q.pay.status = "suppressed" => answer.wage = q.pay
       /\ (NoValue(q.pop) \/ NoValue(q.estabs)) => answer.perEstab.status # "available"
       /\ q.estabs.status = "suppressed" => answer.perEstab.status = "suppressed"
       /\ answer.refused => q.pop = Available(0)
  /\ question.of \in {"market", "competition"} => answer.bundle # {} /\ NoRecord \notin answer.bundle
  /\ question.of = "workforce" => LET q == question.q IN
       /\ NoValue(answer.wages[1]) => answer.ratio.status # "available"
       /\ (answer.wages[2].status = "suppressed") => answer.dispersion = "suppressed"
       /\ NoValue(q.rate) => answer.unemployment = "unavailable"

(* A record of another state never bears on a place, unless it carries no  *)
(* state; a county is never answered with another county's record.         *)
RelevanceTrue ==
  (question.of = "relevance" /\ answer) => LET r == question.q.record  g == question.q.asked IN
    /\ r.level \notin {"point", "box"} => r.state = g.state
    /\ (g.level = "county" /\ r.level = "county") => r.id = g.id
    /\ (g.level \notin {"county", "state"}) => r.level = g.level

(* Ranks number the available values from the largest without a gap, and a *)
(* value is related only to a benchmark that has one.                      *)
RanksTrue ==
  question.of = "locations" => LET values == question.q.values IN
    /\ \A i \in DOMAIN values : answer.ranks[i] = 0 <=> NoValue(values[i])
    /\ \A i, j \in DOMAIN values : (answer.ranks[i] # 0 /\ answer.ranks[i] < answer.ranks[j]) =>
         values[i].value >= values[j].value
    /\ {answer.ranks[i] : i \in DOMAIN values} \ {0}
         = 1..Cardinality({i \in DOMAIN values : ~NoValue(values[i])})
    /\ \A i \in DOMAIN values : (answer.tiers[i] = "high") => ~NoValue(values[i])

(* Up to three equal competitors are a highly concentrated market, seven   *)
(* and more are not concentrated, and one that holds more than the half is *)
(* always highly concentrated.                                             *)
ConcentrationTrue ==
  question.of = "competition" => LET q == question.q IN
    /\ (q.sizes = <<>> /\ q.pois \in 1..3) => answer.tier = "highly"
    /\ (q.sizes = <<>> /\ (q.pois = 0 \/ q.pois > 6)) => answer.tier = "unconcentrated"
    /\ (\E i \in DOMAIN q.sizes : 2 * q.sizes[i] > Total(q.sizes)) => answer.tier = "highly"

(* Every mapped feature is counted in one category, the evidence counts    *)
(* them all again, and no tag left out is commoner than one listed.        *)
FootprintsTrue ==
  question.of = "footprint" =>
    LET evidence == [r \in {x \in answer.records : x[1] # "density"} |-> r[2]]
        features == Features(question.q)
    IN /\ SumFunction(answer.counts) = answer.total /\ SumFunction(evidence) = answer.total
       /\ answer.total = Cardinality({i \in DOMAIN question.q : question.q[i].tagged /\ question.q[i].placed})
       /\ \A i \in DOMAIN answer.top : \A f \in ToSet(features) :
            Common(features, Tag(f)) > answer.top[i][2] => \E j \in 1..(i - 1) : answer.top[j][1] = Tag(f)

(* A preview warns of exactly what it has no number for, and what is       *)
(* derived from a suppressed employment is suppressed.                     *)
PreviewsHonest ==
  question.of = "preview" =>
    /\ \A k \in DOMAIN answer.estimates : k \notin answer.warned <=> Numeric(answer.estimates[k])
    /\ question.q.found["employment"].status = "suppressed" =>
         answer.estimates["quotient"] = question.q.found["employment"]

(* The three effects add up to the change of the place (the identity in    *)
(* the comment of calculateShiftShare).                                    *)
SharesAddUp ==
  question.of = "shift" => answer.total = answer.nation + answer.mix + answer.share

(* What the analyses promise together.                                     *)
AnalysesSound ==
  CellsTrue /\ MarginsTrue /\ DisagreementsKept /\ DerivedHonest /\ RelevanceTrue
  /\ RanksTrue /\ ConcentrationTrue /\ FootprintsTrue /\ PreviewsHonest /\ SharesAddUp
=============================================================================
