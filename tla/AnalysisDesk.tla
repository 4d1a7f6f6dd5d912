----------------------------- MODULE AnalysisDesk -----------------------------
(***************************************************************************)
(* The five economic analyses that may be asked of the server, up to the   *)
(* evidence they rest on: routes/economic.ts, marketAnalysisRoutes.ts and  *)
(* workforceAnalysisRoutes.ts.  (Their audit rows are AuditedRoutes', what *)
(* they compute is EvidenceAnalysis'.)                                     *)
(*                                                                         *)
(* A caller is admitted in one turn, then the body is awaited.  Four of    *)
(* the handlers then go on to the end; the workforce handler awaits its    *)
(* adapters one after the other, each of which may fail.                   *)
(***************************************************************************)
EXTENDS Naturals, Sequences, FiniteSets

CONSTANTS
  Analysts,     \* requests, each made once
  Geographies,  \* what is asked about: [level, within, namesake]
  Givens,       \* evidence that callers bring
  Quota         \* requests of a minute, for each handler and tenant

ASSUME QuotaAssumption == Quota \in Nat

VARIABLES
  used,      \* the limiter's counts of this minute
  analyses   \* request -> where it stands and what it rests on

deskVars == <<used, analyses>>

Handlers == {"preview", "market", "competition", "location", "workforce"}
Tenants == {"tenant-local", "other"}
Sources == {"acs", "cbp", "osm", "footprint", "oews", "lau"}

NotBegun == [pc |-> "none", handler |-> "none", tenant |-> "none", geo |-> "none",
             given |-> {}, basis |-> [s \in Sources |-> {}], queries |-> 0, code |-> 0]

DeskInit ==
  /\ used = [bucket \in Handlers \X Tenants |-> 0]
  /\ analyses = [r \in Analysts |-> NotBegun]

-----------------------------------------------------------------------------
(* validateGovernance, once the caller is known.  Who is known acts for    *)
(* the tenant of the token; who is not is refused or, where nobody has to  *)
(* be, acts for the local one.  The kill switch and the scopes in STASIS   *)
(* (the platform's or a tenant's) are what they are at that moment.        *)
(* Mutant of CountedFor: the tenants share a count.                           *)
CountedTogether(h, t) == {h} \X Tenants
CountedFor(h, t) == {<<h, t>>}

RefusalOf(h, t, known, disabled, halted) ==
  IF ~known THEN 401 ELSE IF disabled THEN 503
  ELSE IF halted \cap {"platform", t} # {} THEN 423
  ELSE IF used[<<h, t>>] >= Quota THEN 429 ELSE 0

AdmitAnalyst(r, h, t, code) ==
  /\ analyses[r].pc = "none"
  /\ analyses' = [analyses EXCEPT ![r] =
       [NotBegun EXCEPT !.handler = h, !.tenant = t, !.code = code,
                        !.pc = IF code = 0 THEN "reading" ELSE "refused"]]
  /\ used' = IF code = 0
             THEN [b \in DOMAIN used |-> used[b] + IF b \in CountedFor(h, t) THEN 1 ELSE 0] ELSE used

-----------------------------------------------------------------------------
(* What a handler fills in for the evidence it was not given: records of   *)
(* the fixture, and for a market without a map summary the one of Austin.  *)
Part(k, from) == [part |-> k, from |-> from]
Own == {Part(0, "caller")}
Filled(s, given, by) == IF s \in given THEN Own ELSE {Part(0, by)}

MarketEvidence(given) ==
  [s \in Sources |->
     CASE s \in {"acs", "cbp", "osm"} -> Filled(s, given, "fixture")
       [] s = "footprint" -> Filled(s, given, "Austin")
       [] OTHER -> {}]

(* A competition's map records are used if given.                          *)
CompetitionEvidence(given) ==
  [s \in Sources |-> CASE s = "cbp" -> Filled(s, given, "fixture")
                       [] s \in {"osm", "footprint"} /\ s \in given -> Own
                       [] OTHER -> {}]

(* Each location's.                                                        *)
LocationEvidence(given) ==
  [s \in Sources |-> IF s \in {"acs", "cbp"} THEN Filled(s, given, "fixture") ELSE {}]

(* A preview takes no evidence.                                            *)
PreviewEvidence == [s \in Sources |-> IF s \in {"acs", "cbp", "osm"} THEN {Part(0, "fixture")} ELSE {}]

GivenEvidence(given) == [s \in Sources |-> IF s \in given THEN Own ELSE {}]

(* Whose occupations and whose unemployment stand for a place.             *)
(* Mutant of OewsPlace: anything in or out of Texas is Austin.             *)
OewsPlaceAnywhere(g) == IF g.level \in {"cbsa", "state", "nation"} THEN "itself" ELSE "Austin"
OewsPlace(g) ==
  IF \/ g.level = "county" /\ g.within \in {"Travis", "Texas"}
     \/ g.level = "place" /\ (g.within = "Travis" \/ g.namesake)
     \/ g.level = "zcta" /\ g.within = "Travis"
  THEN "Austin" ELSE "itself"
LauPlace(g) == IF g.level \in {"place", "zcta"} THEN "Travis" ELSE "itself"

(* What each handler takes.                                                *)
EvidenceOf(h) == CASE h = "market" -> {"acs", "cbp", "osm", "footprint"}
              [] h = "competition" -> {"cbp", "osm", "footprint"}
              [] h = "location" -> {"acs", "cbp"}
              [] h = "workforce" -> {"oews", "lau"}
              [] OTHER -> {}

Concluded(a) == [a EXCEPT !.pc = "answered", !.code = 200]

Unread(r) ==
  /\ analyses[r].pc = "reading"
  /\ analyses' = [analyses EXCEPT ![r].pc = "refused", ![r].code = 400]
  /\ UNCHANGED used

(* What an analysis goes on to, with the evidence it is given.             *)
Rested(a, given) ==
  LET on(basis) == Concluded([a EXCEPT !.basis = basis])
  IN CASE a.handler = "preview" -> on(PreviewEvidence)
       [] a.handler = "market" -> on(MarketEvidence(given))
       [] a.handler = "competition" -> on(CompetitionEvidence(given))
       [] a.handler = "location" -> on(LocationEvidence(given))
       [] a.handler = "workforce" ->
            [a EXCEPT !.basis = GivenEvidence(given),
                      !.pc = IF "oews" \notin given THEN "occupations"
                             ELSE IF "lau" \notin given THEN "unemployment" ELSE "analysing"]

(* The body is there; what does not await its evidence is answered.        *)
BodyIsRead(r, g, brought) ==
  LET given == brought \cap EvidenceOf(analyses[r].handler)
      a == [analyses[r] EXCEPT !.geo = IF analyses[r].handler = "workforce" THEN g ELSE @,
                                  !.given = given]
  IN /\ analyses[r].pc = "reading"
     /\ analyses' = [analyses EXCEPT ![r] = Rested(a, given)]
     /\ UNCHANGED used

(* The five queries of the occupations, the local and the national, are    *)
(* put together only when all of them were answered.                       *)
(* Mutant of OccupationsKept: what was answered before a failure is kept.  *)
PartsOf(a, n) ==
  {Part(k, IF k \in {2, 4} THEN "nation" ELSE OewsPlace(a.geo)) : k \in 1..n}
OccupationsAnyway(a, answered) == IF answered THEN PartsOf(a, 5) ELSE PartsOf(a, a.queries)
OccupationsKept(a, answered) == IF answered THEN PartsOf(a, 5) ELSE {}

OccupationsAnswered(r, answered) ==
  LET a == analyses[r]
      next == IF "lau" \in a.given THEN "analysing" ELSE "unemployment"
  IN /\ a.pc = "occupations"
     /\ analyses' = [analyses EXCEPT ![r] =
          IF answered /\ a.queries < 4 THEN [a EXCEPT !.queries = @ + 1]
          ELSE [a EXCEPT !.queries = 0, !.basis["oews"] = OccupationsKept(a, answered), !.pc = next]]
     /\ UNCHANGED used

UnemploymentAnswered(r, answered) ==
  /\ analyses[r].pc = "unemployment"
  /\ analyses' = [analyses EXCEPT ![r].pc = "analysing",
       ![r].basis["lau"] = IF answered THEN {Part(1, LauPlace(analyses[r].geo))} ELSE {}]
  /\ UNCHANGED used

WorkforceAnswered(r) ==
  /\ analyses[r].pc = "analysing"
  /\ analyses' = [analyses EXCEPT ![r] = Concluded(@)]
  /\ UNCHANGED used

DeskNext ==
  \E r \in Analysts :
    \/ \E h \in Handlers, t \in Tenants, known, disabled \in BOOLEAN,
          halted \in SUBSET (Tenants \cup {"platform"}) :
         AdmitAnalyst(r, h, t, RefusalOf(h, t, known, disabled, halted))
    \/ Unread(r)
    \/ \E g \in Geographies, given \in Givens : BodyIsRead(r, g, given)
    \/ \E ok \in BOOLEAN : OccupationsAnswered(r, ok) \/ UnemploymentAnswered(r, ok)
    \/ WorkforceAnswered(r)

DeskSpec == DeskInit /\ [][DeskNext]_deskVars

DeskTypeOK ==
  /\ \A b \in Handlers \X Tenants : used[b] \in 0..Quota
  /\ \A r \in Analysts :
       /\ analyses[r].pc \in {"none", "refused", "reading", "occupations", "unemployment",
                              "analysing", "answered"}
       /\ analyses[r].code \in {0, 200, 400, 401, 423, 429, 503}
-----------------------------------------------------------------------------
(* A tenant is refused for its own requests only, and for as many of the   *)
(* same handler as the quota has; every request that passed is counted.    *)
QuotaTrue ==
  \A h \in Handlers, t \in Tenants :
    LET own == {r \in Analysts : analyses[r].handler = h /\ analyses[r].tenant = t}
        passed == {r \in own : analyses[r].code \notin {401, 423, 429, 503}}
    IN /\ used[<<h, t>>] = Cardinality(passed)
       /\ (\E r \in own : analyses[r].code = 429) => Cardinality(passed) = Quota

(* What the caller brought is used as it is, and the server's own never    *)
(* passes for it; a query that fails leaves no part of the occupations.    *)
EvidenceWhole ==
  \A r \in Analysts :
    analyses[r].pc \in {"analysing", "answered"} =>
      /\ \A s \in Sources : (Part(0, "caller") \in analyses[r].basis[s]) <=> (s \in analyses[r].given)
      /\ "oews" \notin analyses[r].given => Cardinality(analyses[r].basis["oews"]) \in {0, 5}

(* Austin's occupations stand in for places of Texas and places called     *)
(* Austin only.  (Travis county's unemployment knows no such bound.)       *)
StandInsNear ==
  \A r \in Analysts :
    analyses[r].handler = "workforce" /\ "oews" \notin analyses[r].given =>
      \A part \in analyses[r].basis["oews"] :
        part.from = "Austin" => analyses[r].geo.within # "elsewhere" \/ analyses[r].geo.namesake

(* What the desk promises together.                                        *)
DeskTrue == QuotaTrue /\ EvidenceWhole /\ StandInsNear
=============================================================================
