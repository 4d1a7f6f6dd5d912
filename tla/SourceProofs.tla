---------------------------- MODULE SourceProofs ----------------------------
(***************************************************************************)
(* Proofs about what the server knows of the world outside and what it     *)
(* tells of it: the satellite catalog, whose callers share one refresh;    *)
(* the desk that gathers what an economic analysis rests on; the           *)
(* operator's stream and its telemetry; the cable packs and the registry   *)
(* of providers; and the official feeds, whose workers share a budget.     *)
(***************************************************************************)
EXTENDS SatelliteCatalog, AnalysisDesk, OperatorStream, CablePacks, OfficialFeeds,
        FiniteSetTheorems, SequenceTheorems, TLAPS

-----------------------------------------------------------------------------
(* THE SATELLITE CATALOG.  What the calls of getCatalog may be.            *)
Views ==
  [state : {"idle", "leads", "joins", "served", "disabled", "locked", "failed"},
   stored : Nat \cup {NoTime}, at : Nat]

(* The inductive invariant: only a live source is refreshed or blocked.    *)
CatalogInv ==
  /\ viewing \in [Viewers -> Views]
  /\ CatalogTypeOK /\ CatalogHonest
  /\ orbitMode # "live" => awaited = {} /\ blockedTill = NoTime

(* A catalog that is young enough is served as it should be.               *)
LEMMA ServedYoung ==
  ASSUME CatalogInv, NEW age \in Nat, age <= UsableFor, Within(age)
  PROVE  Served(storedAt) \in Views /\ Served(storedAt).at - Served(storedAt).stored <= UsableFor
         /\ Served(storedAt).state = "served"
<1>1. storedAt \in Nat /\ orbitNow \in Nat /\ UsableFor \in Nat /\ orbitNow - storedAt <= age
  BY CatalogAssumption DEF CatalogInv, CatalogTypeOK, Within
<1> QED BY <1>1 DEF Served, Views

(* What is answered without a fresh catalog.                               *)
LEMMA StaleOrSound ==
  ASSUME CatalogInv, NEW result, result = StaleOr(Withheld("failed"))
  PROVE  /\ result.health \in {"degraded", "unavailable"}
         /\ result.answer \in Views /\ result.answer.state \in {"served", "failed"}
         /\ result.answer.state = "served" => result.answer.at - result.answer.stored <= UsableFor
<1>1. orbitNow \in Nat /\ UsableFor \in Nat
  BY CatalogAssumption DEF CatalogInv, CatalogTypeOK
<1>2. Withheld("failed") \in Views /\ Withheld("failed").state = "failed"
  BY <1>1 DEF Withheld, Views
<1>3. CASE Within(UsableFor)
  BY <1>1, <1>3, ServedYoung DEF StaleOr
<1>4. CASE ~Within(UsableFor)
  BY <1>2, <1>4 DEF StaleOr
<1> QED BY <1>3, <1>4

(* One call that was idle is answered at once or waits.                    *)
LEMMA OneView ==
  ASSUME CatalogInv, NEW v \in Viewers, viewing[v].state # "leads", NEW x \in Views,
         x.state # "leads", x.state = "served" => x.at - x.stored <= UsableFor,
         viewing' = [viewing EXCEPT ![v] = x],
         UNCHANGED <<orbitMode, orbitNow, storedAt, awaited, blockedTill>>,
         blockedTill # NoTime <=> orbitHealth' \in {"degraded", "unavailable"},
         orbitHealth' \in {"unknown", "healthy", "degraded", "unavailable"}
  PROVE  CatalogInv'
<1>1. viewing' \in [Viewers -> Views] /\ viewing'[v] = x /\ \A w \in Viewers : w # v => viewing'[w] = viewing[w]
  BY DEF CatalogInv
<1>2. \A w \in Viewers : viewing'[w].state = "leads" <=> viewing[w].state = "leads"
  BY <1>1
<1>3. CatalogTypeOK'
  BY <1>1, <1>2 DEF CatalogInv, CatalogTypeOK, Views
<1>4. CatalogHonest'
  BY <1>1 DEF CatalogInv, CatalogHonest, BackingOff
<1> QED BY <1>1, <1>3, <1>4 DEF CatalogInv

(* It holds at the start.                                                  *)
LEMMA CatalogInitially == CatalogInit => CatalogInv
<1> SUFFICES ASSUME CatalogInit PROVE CatalogInv
  OBVIOUS
<1>1. Unviewed \in Views /\ Unviewed.state = "idle"
  BY DEF Unviewed, Views
<1>2. viewing \in [Viewers -> Views] /\ \A v \in Viewers : viewing[v] = Unviewed
  BY <1>1 DEF CatalogInit
<1>3. CatalogTypeOK
  BY <1>1, <1>2, CatalogAssumption DEF CatalogInit, CatalogTypeOK
<1>4. CatalogHonest
  BY <1>1, <1>2 DEF CatalogInit, CatalogHonest
<1> QED BY <1>2, <1>3, <1>4 DEF CatalogInv, CatalogInit

(* Every step keeps it.                                                    *)
LEMMA CatalogStep == CatalogInv /\ [CatalogNext]_catalogVars => CatalogInv'
<1> SUFFICES ASSUME CatalogInv, [CatalogNext]_catalogVars PROVE CatalogInv'
  OBVIOUS
<1>0. /\ viewing \in [Viewers -> Views] /\ orbitNow \in Nat /\ orbitNow \in 0..LastMoment
      /\ {FreshFor, UsableFor, TransientFor, LastMoment} \subseteq Nat /\ NoTime \notin Int
      /\ TransientFor <= FreshFor /\ FreshFor <= UsableFor
      /\ orbitMode \in {"disabled", "locked", "seed", "live"}
      /\ storedAt \in (0..orbitNow) \cup {NoTime} /\ awaited \subseteq Groups
      /\ blockedTill \in (0..LastMoment + FreshFor) \cup {NoTime}
      /\ orbitHealth \in {"unknown", "healthy", "degraded", "unavailable"}
      /\ blockedTill # NoTime <=> orbitHealth \in {"degraded", "unavailable"}
  BY CatalogAssumption DEF CatalogInv, CatalogTypeOK, CatalogHonest
<1>1. Unviewed \in Views /\ Unviewed.state = "idle"
  BY DEF Unviewed, Views
<1>2. ASSUME NEW v \in Viewers, TurnedAway(v) PROVE CatalogInv'
  <2>1. viewing[v] = Unviewed /\ UNCHANGED <<orbitMode, orbitNow, storedAt, awaited, blockedTill, orbitHealth>>
    BY <1>2 DEF TurnedAway
  <2>2. PICK x : x = Withheld(orbitMode)
    OBVIOUS
  <2>3. x \in Views /\ x.state \in {"disabled", "locked"} /\ viewing' = [viewing EXCEPT ![v] = x]
    BY <1>0, <1>2, <2>2 DEF TurnedAway, Withheld, Views
  <2> QED BY <1>0, <1>1, <2>1, <2>3, OneView
<1>3. ASSUME NEW v \in Viewers, FromSeed(v) PROVE CatalogInv'
  <2>1. /\ viewing[v] = Unviewed /\ orbitHealth' = "healthy"
        /\ UNCHANGED <<orbitMode, orbitNow, storedAt, awaited, blockedTill>>
        /\ blockedTill = NoTime
    BY <1>3 DEF FromSeed, CatalogInv
  <2>2. PICK x : x = Served(orbitNow)
    OBVIOUS
  <2>3. x \in Views /\ x.state = "served" /\ x.at - x.stored <= UsableFor /\ viewing' = [viewing EXCEPT ![v] = x]
    BY <1>0, <1>3, <2>2 DEF FromSeed, Served, Views
  <2> QED BY <1>1, <2>1, <2>3, OneView
<1>4. ASSUME NEW v \in Viewers, FromCache(v) PROVE CatalogInv'
  <2>1. viewing[v] = Unviewed /\ UNCHANGED <<orbitMode, orbitNow, storedAt, awaited, blockedTill, orbitHealth>>
    BY <1>4 DEF FromCache
  <2>2. PICK x : x = Served(storedAt)
    OBVIOUS
  <2>3. viewing' = [viewing EXCEPT ![v] = x] /\ Within(FreshFor)
    BY <1>4, <2>2 DEF FromCache
  <2>4. x \in Views /\ x.state = "served" /\ x.at - x.stored <= UsableFor
    BY <1>0, <2>2, <2>3, ServedYoung
  <2> QED BY <1>0, <1>1, <2>1, <2>3, <2>4, OneView
<1>5. ASSUME NEW v \in Viewers, JoinRefresh(v) PROVE CatalogInv'
  <2>1. viewing[v] = Unviewed /\ UNCHANGED <<orbitMode, orbitNow, storedAt, awaited, blockedTill, orbitHealth>>
    BY <1>5 DEF JoinRefresh
  <2>2. PICK x : x = [Unviewed EXCEPT !.state = "joins"]
    OBVIOUS
  <2>3. x \in Views /\ x.state = "joins" /\ viewing' = [viewing EXCEPT ![v] = x]
    BY <1>5, <2>2 DEF JoinRefresh, Unviewed, Views
  <2> QED BY <1>0, <1>1, <2>1, <2>3, OneView
<1>6. ASSUME NEW v \in Viewers, BackOff(v) PROVE CatalogInv'
  <2>1. PICK result : result = StaleOr(Withheld("failed"))
    OBVIOUS
  <2>2. /\ viewing[v] = Unviewed /\ orbitHealth' = result.health /\ blockedTill # NoTime
        /\ viewing' = [viewing EXCEPT ![v] = result.answer]
        /\ UNCHANGED <<orbitMode, orbitNow, storedAt, awaited, blockedTill>>
    BY <1>6, <2>1 DEF BackOff, BackingOff
  <2>3. /\ result.health \in {"degraded", "unavailable"}
        /\ result.answer \in Views /\ result.answer.state \in {"served", "failed"}
        /\ result.answer.state = "served" => result.answer.at - result.answer.stored <= UsableFor
    BY <2>1, StaleOrSound
  <2>4. PICK x, h : x = result.answer /\ h = result.health
    OBVIOUS
  <2>5. /\ x \in Views /\ x.state # "leads" /\ (x.state = "served" => x.at - x.stored <= UsableFor)
        /\ viewing' = [viewing EXCEPT ![v] = x] /\ orbitHealth' \in {"degraded", "unavailable"}
    BY <2>2, <2>3, <2>4
  <2> QED BY <1>1, <2>2, <2>5, OneView
<1>7. ASSUME NEW v \in Viewers, Refresh(v) PROVE CatalogInv'
  <2>1. PICK x : x = [Unviewed EXCEPT !.state = "leads"]
    OBVIOUS
  <2>2. /\ orbitMode = "live" /\ awaited = {} /\ ~BackingOff /\ awaited' = Groups
        /\ viewing' = [viewing EXCEPT ![v] = x]
        /\ UNCHANGED <<orbitMode, orbitNow, storedAt, blockedTill, orbitHealth>>
    BY <1>7, <2>1 DEF Refresh
  <2>3. x \in Views /\ x.state = "leads"
    BY <2>1 DEF Unviewed, Views
  <2>4. viewing' \in [Viewers -> Views] /\ viewing'[v] = x /\ \A w \in Viewers : w # v => viewing'[w] = viewing[w]
    BY <1>0, <2>2, <2>3
  <2>5. \A w \in Viewers : viewing'[w].state = "leads" <=> w = v
    BY <2>2, <2>3, <2>4 DEF CatalogInv, CatalogTypeOK
  <2>6. CatalogTypeOK'
    BY <1>0, <2>2, <2>4, <2>5, CatalogAssumption DEF CatalogTypeOK, Views
  <2>7. CatalogHonest'
    BY <2>2, <2>3, <2>4 DEF CatalogInv, CatalogHonest, BackingOff
  <2> QED BY <2>2, <2>4, <2>6, <2>7 DEF CatalogInv
<1>8. ASSUME NEW v \in Viewers, Viewed(v) PROVE CatalogInv'
  <2>1. /\ viewing[v].state # "leads" /\ viewing' = [viewing EXCEPT ![v] = Unviewed]
        /\ UNCHANGED <<orbitMode, orbitNow, storedAt, awaited, blockedTill, orbitHealth>>
    BY <1>8 DEF Viewed, Waiting
  <2> QED BY <1>0, <1>1, <2>1, OneView
<1>9. ASSUME NEW g \in Groups, GroupArrives(g), awaited' # {} PROVE CatalogInv'
  <2>1. /\ awaited # {} /\ awaited' \subseteq awaited
        /\ UNCHANGED <<orbitMode, orbitNow, storedAt, blockedTill, orbitHealth, viewing>>
    BY <1>9 DEF GroupArrives
  <2>2. CatalogTypeOK'
    BY <1>9, <2>1 DEF CatalogInv, CatalogTypeOK
  <2>3. CatalogHonest'
    BY <2>1 DEF CatalogInv, CatalogHonest, BackingOff
  <2> QED BY <2>1, <2>2, <2>3 DEF CatalogInv
<1>10. ASSUME NEW g \in Groups, GroupArrives(g), awaited' = {} PROVE CatalogInv'
  <2>1. PICK x : x = Served(orbitNow)
    OBVIOUS
  <2>2. /\ storedAt' = orbitNow /\ blockedTill' = NoTime /\ orbitHealth' = "healthy"
        /\ viewing' = [v \in Viewers |-> IF v \in Waiting THEN x ELSE viewing[v]]
        /\ UNCHANGED <<orbitMode, orbitNow>>
    BY <1>10, <2>1 DEF GroupArrives
  <2>3. x \in Views /\ x.state = "served" /\ x.at - x.stored <= UsableFor
    BY <1>0, <2>1 DEF Served, Views
  <2>4. /\ viewing' \in [Viewers -> Views]
        /\ \A v \in Viewers : viewing'[v] = x \/ (viewing'[v] = viewing[v] /\ viewing[v].state # "leads")
    BY <1>0, <2>2, <2>3 DEF Waiting
  <2>5. \A v \in Viewers : viewing'[v].state # "leads"
    BY <2>3, <2>4
  <2>6. CatalogTypeOK'
    <3>1. storedAt' \in (0..orbitNow') \cup {NoTime}
      BY <1>0, <2>2
    <3> QED BY <1>0, <1>10, <2>2, <2>4, <2>5, <3>1 DEF CatalogTypeOK, Views
  <2>7. CatalogHonest'
    BY <1>10, <2>2, <2>3, <2>4 DEF CatalogInv, CatalogHonest
  <2> QED BY <1>10, <2>2, <2>4, <2>6, <2>7 DEF CatalogInv
<1>11. ASSUME NEW delay \in {FreshFor, TransientFor}, RefreshFails(delay) PROVE CatalogInv'
  <2>1. PICK result : result = StaleOr(Withheld("failed"))
    OBVIOUS
  <2>2. PICK x, y, h : x = result.answer /\ y = Withheld("failed") /\ h = result.health
    OBVIOUS
  <2>3. /\ awaited # {} /\ awaited' = {} /\ blockedTill' = orbitNow + delay /\ orbitHealth' = h
        /\ viewing' = [v \in Viewers |->
             CASE viewing[v].state = "leads" -> x
               [] viewing[v].state = "joins" -> y
               [] OTHER -> viewing[v]]
        /\ UNCHANGED <<orbitMode, orbitNow, storedAt>>
    BY <1>11, <2>1, <2>2 DEF RefreshFails
  <2>4. /\ h \in {"degraded", "unavailable"}
        /\ x \in Views /\ x.state \in {"served", "failed"}
        /\ x.state = "served" => x.at - x.stored <= UsableFor
    BY <2>1, <2>2, StaleOrSound
  <2>5. y \in Views /\ y.state = "failed"
    BY <1>0, <2>2 DEF Withheld, Views
  <2>6. /\ viewing' \in [Viewers -> Views]
        /\ \A v \in Viewers : \/ viewing'[v] \in {x, y}
                              \/ viewing'[v] = viewing[v] /\ viewing[v].state # "leads"
    BY <1>0, <2>3, <2>4, <2>5
  <2>7. \A v \in Viewers : viewing'[v].state # "leads"
    BY <2>4, <2>5, <2>6
  <2>8. blockedTill' \in 0..LastMoment + FreshFor /\ blockedTill' # NoTime
    BY <1>0, <2>3
  <2>9. CatalogTypeOK'
    BY <1>0, <2>3, <2>4, <2>6, <2>7, <2>8 DEF CatalogTypeOK, Views
  <2>10. CatalogHonest'
    BY <2>3, <2>4, <2>5, <2>6, <2>8 DEF CatalogInv, CatalogHonest
  <2>11. orbitMode = "live"
    BY <2>3 DEF CatalogInv, CatalogHonest
  <2> QED BY <2>3, <2>6, <2>9, <2>10, <2>11 DEF CatalogInv
<1>12. ASSUME OrbitTick PROVE CatalogInv'
  <2>1. /\ orbitNow' = orbitNow + 1 /\ orbitNow < LastMoment
        /\ UNCHANGED <<orbitMode, storedAt, awaited, blockedTill, orbitHealth, viewing>>
    BY <1>12 DEF OrbitTick
  <2>2. CatalogTypeOK'
    <3>1. orbitNow' \in 0..LastMoment /\ storedAt' \in (0..orbitNow') \cup {NoTime}
      BY <1>0, <2>1
    <3> QED BY <2>1, <3>1 DEF CatalogInv, CatalogTypeOK
  <2>3. CatalogHonest'
    <3>1. ~BackingOff => ~BackingOff'
      BY <1>0, <2>1 DEF BackingOff
    <3> QED BY <2>1, <3>1 DEF CatalogInv, CatalogHonest
  <2> QED BY <2>1, <2>2, <2>3 DEF CatalogInv
<1>13. CASE UNCHANGED catalogVars
  BY <1>13 DEF catalogVars, CatalogInv, CatalogTypeOK, CatalogHonest, BackingOff
<1> QED BY <1>2, <1>3, <1>4, <1>5, <1>6, <1>7, <1>8, <1>9, <1>10, <1>11, <1>12, <1>13 DEF CatalogNext

(* A refresh is in flight exactly while one caller leads it (satellites.ts *)
(* refreshInFlight).                                                       *)
THEOREM CatalogTypeCorrect == CatalogSpec => []CatalogTypeOK
<1>1. CatalogInv => CatalogTypeOK
  BY DEF CatalogInv
<1> QED BY <1>1, CatalogInitially, CatalogStep, PTL DEF CatalogSpec

(* For any number of callers and groups and any ages and delays: nothing   *)
(* is served past its day, nothing is fetched while the source is locked,  *)
(* disabled or backing off, and its health says whether the last refresh   *)
(* failed (satellites.ts getLiveCatalog, refreshLiveCatalog).              *)
THEOREM CatalogAlwaysHonest == CatalogSpec => []CatalogHonest
<1>1. CatalogInv => CatalogHonest
  BY DEF CatalogInv
<1> QED BY <1>1, CatalogInitially, CatalogStep, PTL DEF CatalogSpec

-----------------------------------------------------------------------------
(* THE ANALYSIS DESK.  What a request may be, and the codes of those that  *)
(* are turned away before they are counted.                                *)
Stands == {"caller", "fixture", "Austin", "nation", "itself", "Travis"}
Parts == [part : Nat, from : Stands]
Analyses ==
  [pc : {"none", "refused", "reading", "occupations", "unemployment", "analysing", "answered"},
   handler : Handlers \cup {"none"}, tenant : Tenants \cup {"none"}, geo : Geographies \cup {"none"},
   given : SUBSET Sources, basis : [Sources -> SUBSET Parts], queries : Nat,
   code : {0, 200, 400, 401, 423, 429, 503}]
Uncounted == {401, 423, 429, 503}

(* The occupations of a place, all five queries of them.                   *)
Five(g) == {Part(k, IF k \in {2, 4} THEN "nation" ELSE OewsPlace(g)) : k \in 1..5}

(* What a request rests on, from the moment its body was read.             *)
RestsWhole(a) ==
  /\ \A s \in Sources : (Part(0, "caller") \in a.basis[s]) <=> (s \in a.given)
  /\ "oews" \notin a.given => a.basis["oews"] \in {{}, Five(a.geo)}

AnalysisOK(a) ==
  /\ a \in Analyses
  /\ a.pc = "none" => a.handler = "none"
  /\ a.pc # "none" => a.handler \in Handlers /\ a.tenant \in Tenants
  /\ a.pc \in {"reading", "occupations", "unemployment", "analysing"} => a.code = 0
  /\ a.pc \in {"none", "refused", "reading"} => a.given = {} /\ \A s \in Sources : a.basis[s] = {}
  /\ a.pc \in {"occupations", "unemployment", "analysing", "answered"} => RestsWhole(a)
  /\ a.pc = "occupations" => "oews" \notin a.given
  /\ a.pc = "unemployment" => "lau" \notin a.given

(* The requests that a count is of.                                        *)
PassedOf(h, t) ==
  {r \in Analysts : analyses[r].handler = h /\ analyses[r].tenant = t /\ analyses[r].code \notin Uncounted}

(* The inductive invariant.  A count that has reached the quota stays.     *)
UsedCounts ==
  \A h \in Handlers, t \in Tenants :
    /\ IsFiniteSet(PassedOf(h, t)) /\ used[<<h, t>>] = Cardinality(PassedOf(h, t))
    /\ \A r \in Analysts :
         analyses[r].handler = h /\ analyses[r].tenant = t /\ analyses[r].code = 429
           => used[<<h, t>>] = Quota

DeskInv ==
  /\ used \in [Handlers \X Tenants -> 0..Quota]
  /\ analyses \in [Analysts -> Analyses] /\ \A r \in Analysts : AnalysisOK(analyses[r])
  /\ UsedCounts

(* The five parts are five.                                                *)
LEMMA FiveAre ==
  ASSUME NEW g
  PROVE  Cardinality(Five(g)) = 5
<1>1. PICK n : n = OewsPlace(g)
  OBVIOUS
<1>2. Five(g) = {Part(1, n), Part(2, "nation"), Part(3, n), Part(4, "nation"), Part(5, n)}
  <2>1. 1..5 = {1, 2, 3, 4, 5}
    OBVIOUS
  <2> QED BY <1>1, <2>1 DEF Five
<1>3. PICK a, b, c, d, e : a = Part(1, n) /\ b = Part(2, "nation") /\ c = Part(3, n) /\ d = Part(4, "nation") /\ e = Part(5, n)
  OBVIOUS
<1>4. /\ a.part = 1 /\ b.part = 2 /\ c.part = 3 /\ d.part = 4 /\ e.part = 5
  BY <1>3 DEF Part
<1>5. /\ Five(g) = {} \cup {a} \cup {b} \cup {c} \cup {d} \cup {e}
      /\ b \notin {} \cup {a} /\ c \notin {} \cup {a} \cup {b}
      /\ d \notin {} \cup {a} \cup {b} \cup {c} /\ e \notin {} \cup {a} \cup {b} \cup {c} \cup {d}
  BY <1>2, <1>3, <1>4
<1>6. IsFiniteSet({} \cup {a}) /\ Cardinality({} \cup {a}) = 1
  BY FS_EmptySet, FS_AddElement
<1>7. IsFiniteSet({} \cup {a} \cup {b}) /\ Cardinality({} \cup {a} \cup {b}) = 2
  BY <1>5, <1>6, FS_AddElement
<1>8. IsFiniteSet({} \cup {a} \cup {b} \cup {c}) /\ Cardinality({} \cup {a} \cup {b} \cup {c}) = 3
  BY <1>5, <1>7, FS_AddElement
<1>9. IsFiniteSet({} \cup {a} \cup {b} \cup {c} \cup {d}) /\ Cardinality({} \cup {a} \cup {b} \cup {c} \cup {d}) = 4
  BY <1>5, <1>8, FS_AddElement
<1> QED BY <1>5, <1>9, FS_AddElement

(* A step that ends a request, and what it leaves of it.                   *)
Ended(x, a, pc, code) == x = [a EXCEPT !.pc = pc, !.code = code]

LEMMA ChangedAnalysis ==
  ASSUME NEW a \in Analyses, NEW pc \in {"refused", "answered"}, NEW code \in {200, 400}, NEW x,
         Ended(x, a, pc, code)
  PROVE  /\ x \in Analyses /\ x.pc = pc /\ x.code = code /\ x.handler = a.handler /\ x.tenant = a.tenant
         /\ x.given = a.given /\ x.basis = a.basis /\ x.geo = a.geo
<1>1. PICK pc0, handler, tenant, geo, given, basis, queries, code0 :
        a = [pc |-> pc0, handler |-> handler, tenant |-> tenant, geo |-> geo, given |-> given,
             basis |-> basis, queries |-> queries, code |-> code0]
  BY DEF Analyses
<1>2. x = [pc |-> pc, handler |-> handler, tenant |-> tenant, geo |-> geo, given |-> given,
           basis |-> basis, queries |-> queries, code |-> code]
  <2>1. x = [a EXCEPT !.pc = pc, !.code = code]
    BY DEF Ended
  <2> QED BY ONLY <1>1, <2>1
<1>3. /\ handler \in Handlers \cup {"none"} /\ tenant \in Tenants \cup {"none"} /\ geo \in Geographies \cup {"none"}
      /\ given \in SUBSET Sources /\ basis \in [Sources -> SUBSET Parts] /\ queries \in Nat
  BY <1>1 DEF Analyses
<1>4. x \in Analyses
  BY <1>2, <1>3 DEF Analyses
<1>5. /\ x.pc = pc /\ x.code = code /\ x.handler = a.handler /\ x.tenant = a.tenant
      /\ x.given = a.given /\ x.basis = a.basis /\ x.geo = a.geo
  BY ONLY <1>1, <1>2
<1> QED BY <1>4, <1>5

(* A request that was counted goes on.                                     *)
LEMMA OneAnalysis ==
  ASSUME DeskInv, NEW r \in Analysts, analyses[r].code = 0, NEW x,
         analyses' = [analyses EXCEPT ![r] = x], used' = used, AnalysisOK(x),
         x.handler = analyses[r].handler, x.tenant = analyses[r].tenant, x.code \in {0, 200, 400}
  PROVE  DeskInv'
<1>1. x \in Analyses /\ analyses \in [Analysts -> Analyses]
  BY DEF AnalysisOK, DeskInv
<1>2. analyses' \in [Analysts -> Analyses] /\ analyses'[r] = x /\ \A q \in Analysts : q # r => analyses'[q] = analyses[q]
  BY <1>1
<1>3. \A q \in Analysts : AnalysisOK(analyses'[q])
  <2> SUFFICES ASSUME NEW q \in Analysts PROVE AnalysisOK(analyses'[q])
    OBVIOUS
  <2>1. CASE q = r
    BY <1>2, <2>1
  <2>2. CASE q # r
    <3>1. analyses'[q] = analyses[q] /\ AnalysisOK(analyses[q])
      BY <1>2, <2>2 DEF DeskInv
    <3> QED BY <3>1
  <2> QED BY <2>1, <2>2
<1>4. ASSUME NEW h \in Handlers, NEW t \in Tenants
      PROVE  PassedOf(h, t)' = PassedOf(h, t)
  <2>1. \A q \in Analysts : /\ analyses'[q].handler = analyses[q].handler /\ analyses'[q].tenant = analyses[q].tenant
                            /\ analyses'[q].code \in Uncounted <=> analyses[q].code \in Uncounted
    BY <1>2 DEF Uncounted
  <2> QED BY <2>1 DEF PassedOf
<1>5. \A q \in Analysts : analyses'[q].code = 429 =>
        analyses[q].code = 429 /\ analyses'[q].handler = analyses[q].handler /\ analyses'[q].tenant = analyses[q].tenant
  BY <1>2
<1>6. UsedCounts'
  <2>1. ASSUME NEW h \in Handlers, NEW t \in Tenants
        PROVE  /\ IsFiniteSet(PassedOf(h, t)') /\ used'[<<h, t>>] = Cardinality(PassedOf(h, t)')
               /\ \A q \in Analysts :
                    analyses'[q].handler = h /\ analyses'[q].tenant = t /\ analyses'[q].code = 429
                      => used'[<<h, t>>] = Quota
    <3>1. /\ IsFiniteSet(PassedOf(h, t)) /\ used[<<h, t>>] = Cardinality(PassedOf(h, t))
          /\ \A q \in Analysts :
               analyses[q].handler = h /\ analyses[q].tenant = t /\ analyses[q].code = 429
                 => used[<<h, t>>] = Quota
      BY DEF DeskInv, UsedCounts
    <3>2. PassedOf(h, t)' = PassedOf(h, t)
      BY <1>4
    <3>3. \A q \in Analysts :
               analyses'[q].handler = h /\ analyses'[q].tenant = t /\ analyses'[q].code = 429
                 => used[<<h, t>>] = Quota
      BY <1>5, <3>1
    <3> QED BY <3>1, <3>2, <3>3
  <2> QED BY <2>1 DEF UsedCounts
<1> QED BY <1>2, <1>3, <1>6 DEF DeskInv

(* What each handler fills in is whole.                                    *)
LEMMA FilledIn ==
  ASSUME NEW given \in SUBSET Sources
  PROVE  /\ given \subseteq EvidenceOf("market") =>
              MarketEvidence(given) \in [Sources -> SUBSET Parts]
              /\ (\A s \in Sources : (Part(0, "caller") \in MarketEvidence(given)[s]) <=> s \in given)
              /\ MarketEvidence(given)["oews"] = {}
         /\ given \subseteq EvidenceOf("competition") =>
              CompetitionEvidence(given) \in [Sources -> SUBSET Parts]
              /\ (\A s \in Sources : (Part(0, "caller") \in CompetitionEvidence(given)[s]) <=> s \in given)
              /\ CompetitionEvidence(given)["oews"] = {}
         /\ given \subseteq EvidenceOf("location") =>
              LocationEvidence(given) \in [Sources -> SUBSET Parts]
              /\ (\A s \in Sources : (Part(0, "caller") \in LocationEvidence(given)[s]) <=> s \in given)
              /\ LocationEvidence(given)["oews"] = {}
         /\ given \subseteq EvidenceOf("preview") =>
              PreviewEvidence \in [Sources -> SUBSET Parts]
              /\ (\A s \in Sources : (Part(0, "caller") \in PreviewEvidence[s]) <=> s \in given)
              /\ PreviewEvidence["oews"] = {}
         /\ GivenEvidence(given) \in [Sources -> SUBSET Parts]
              /\ (\A s \in Sources : (Part(0, "caller") \in GivenEvidence(given)[s]) <=> s \in given)
              /\ ("oews" \notin given => GivenEvidence(given)["oews"] = {})
<1>1. PICK own, fixture, austin : own = Part(0, "caller") /\ fixture = Part(0, "fixture") /\ austin = Part(0, "Austin")
  OBVIOUS
<1>2. {own, fixture, austin} \subseteq Parts /\ fixture # own /\ austin # own
  <2>1. own.from = "caller" /\ fixture.from = "fixture" /\ austin.from = "Austin"
    BY <1>1 DEF Part
  <2>2. Part(0, "caller") \in Parts /\ Part(0, "fixture") \in Parts /\ Part(0, "Austin") \in Parts
    BY DEF Part, Parts, Stands
  <2>3. own \in Parts /\ fixture \in Parts /\ austin \in Parts
    BY <1>1, <2>2
  <2>4. fixture # own /\ austin # own
    BY ONLY <2>1
  <2> QED BY <2>3, <2>4
<1>3. Own = {own}
  BY <1>1 DEF Own
<1>4. /\ \A s : Filled(s, given, "fixture") = IF s \in given THEN {own} ELSE {fixture}
      /\ \A s : Filled(s, given, "Austin") = IF s \in given THEN {own} ELSE {austin}
  BY <1>1, <1>3 DEF Filled
<1>5. /\ GivenEvidence(given) \in [Sources -> SUBSET Parts]
      /\ (\A s \in Sources : (own \in GivenEvidence(given)[s]) <=> s \in given)
      /\ ("oews" \notin given => GivenEvidence(given)["oews"] = {})
  BY <1>2, <1>3 DEF GivenEvidence, Sources
<1>6. ASSUME given \subseteq EvidenceOf("market")
      PROVE  /\ MarketEvidence(given) \in [Sources -> SUBSET Parts]
             /\ (\A s \in Sources : (own \in MarketEvidence(given)[s]) <=> s \in given)
             /\ MarketEvidence(given)["oews"] = {}
  BY <1>2, <1>4, <1>6 DEF MarketEvidence, Sources, EvidenceOf
<1>7. ASSUME given \subseteq EvidenceOf("competition")
      PROVE  /\ CompetitionEvidence(given) \in [Sources -> SUBSET Parts]
             /\ (\A s \in Sources : (own \in CompetitionEvidence(given)[s]) <=> s \in given)
             /\ CompetitionEvidence(given)["oews"] = {}
  BY <1>2, <1>3, <1>4, <1>7 DEF CompetitionEvidence, Sources, EvidenceOf
<1>8. ASSUME given \subseteq EvidenceOf("location")
      PROVE  /\ LocationEvidence(given) \in [Sources -> SUBSET Parts]
             /\ (\A s \in Sources : (own \in LocationEvidence(given)[s]) <=> s \in given)
             /\ LocationEvidence(given)["oews"] = {}
  BY <1>2, <1>4, <1>8 DEF LocationEvidence, Sources, EvidenceOf
<1>9. ASSUME given \subseteq EvidenceOf("preview")
      PROVE  /\ PreviewEvidence \in [Sources -> SUBSET Parts]
             /\ (\A s \in Sources : (own \in PreviewEvidence[s]) <=> s \in given)
             /\ PreviewEvidence["oews"] = {}
  <2>1. given = {}
    BY <1>9 DEF EvidenceOf
  <2>2. PreviewEvidence = [s \in Sources |-> IF s \in {"acs", "cbp", "osm"} THEN {fixture} ELSE {}]
    BY <1>1 DEF PreviewEvidence
  <2> QED BY <1>2, <2>1, <2>2 DEF Sources
<1> QED BY <1>1, <1>5, <1>6, <1>7, <1>8, <1>9

(* It holds at the start.                                                  *)
LEMMA DeskInitially == DeskInit => DeskInv
<1> SUFFICES ASSUME DeskInit PROVE DeskInv
  OBVIOUS
<1>0. Quota \in Nat
  BY QuotaAssumption
<1>1. PICK a : a = NotBegun
  OBVIOUS
<1>2. /\ a \in Analyses /\ a.pc = "none" /\ a.handler = "none" /\ a.given = {} /\ a.code = 0
      /\ \A s \in Sources : a.basis[s] = {}
  BY <1>1 DEF NotBegun, Analyses
<1>3. AnalysisOK(a)
  BY <1>2 DEF AnalysisOK
<1>4. analyses \in [Analysts -> Analyses] /\ \A r \in Analysts : analyses[r] = a
  BY <1>1, <1>2 DEF DeskInit
<1>5. \A h \in Handlers, t \in Tenants : PassedOf(h, t) = {}
  BY <1>2, <1>4 DEF PassedOf, Handlers
<1>6. used \in [Handlers \X Tenants -> 0..Quota] /\ \A h \in Handlers, t \in Tenants : used[<<h, t>>] = 0
  BY <1>0 DEF DeskInit
<1>7. UsedCounts
  <2>1. ASSUME NEW h \in Handlers, NEW t \in Tenants
        PROVE  IsFiniteSet(PassedOf(h, t)) /\ used[<<h, t>>] = Cardinality(PassedOf(h, t))
    BY <1>5, <1>6, FS_EmptySet
  <2>2. \A r \in Analysts : analyses[r].code # 429
    BY <1>2, <1>4
  <2> QED BY <2>1, <2>2 DEF UsedCounts
<1> QED BY <1>3, <1>4, <1>6, <1>7 DEF DeskInv

(* A request is admitted, or turned away.                                  *)
LEMMA AdmitKeeps ==
  ASSUME DeskInv, NEW r \in Analysts, NEW h \in Handlers, NEW t \in Tenants,
         NEW known \in BOOLEAN, NEW disabled \in BOOLEAN, NEW halted,
         NEW code, code = RefusalOf(h, t, known, disabled, halted), AdmitAnalyst(r, h, t, code)
  PROVE  DeskInv'
<1>0. Quota \in Nat /\ analyses \in [Analysts -> Analyses] /\ used \in [Handlers \X Tenants -> 0..Quota]
  BY QuotaAssumption DEF DeskInv
<1>1. code \in {0, 401, 423, 429, 503} /\ (code = 429 => used[<<h, t>>] >= Quota) /\ (code = 0 => used[<<h, t>>] < Quota)
  BY <1>0 DEF RefusalOf
<1>2. PICK x : x = [pc |-> IF code = 0 THEN "reading" ELSE "refused", handler |-> h, tenant |-> t, geo |-> "none",
                    given |-> {}, basis |-> [s \in Sources |-> {}], queries |-> 0, code |-> code]
  OBVIOUS
<1>3. /\ x \in Analyses /\ x.handler = h /\ x.tenant = t /\ x.code = code /\ x.given = {}
      /\ x.pc = (IF code = 0 THEN "reading" ELSE "refused") /\ \A s \in Sources : x.basis[s] = {}
  BY <1>1, <1>2 DEF Analyses
<1>4. AnalysisOK(x)
  BY <1>3 DEF AnalysisOK
<1>5. analyses[r].pc = "none" /\ analyses' = [analyses EXCEPT ![r] = x]
  <2>1. PICK a, pc : a = NotBegun /\ pc = IF code = 0 THEN "reading" ELSE "refused"
    OBVIOUS
  <2>2. a = [pc |-> "none", handler |-> "none", tenant |-> "none", geo |-> "none",
             given |-> {}, basis |-> [s \in Sources |-> {}], queries |-> 0, code |-> 0]
    BY <2>1 DEF NotBegun
  <2>3. PICK y : y = [a EXCEPT !.handler = h, !.tenant = t, !.code = code, !.pc = pc]
    OBVIOUS
  <2>4. y = [pc |-> pc, handler |-> h, tenant |-> t, geo |-> "none",
             given |-> {}, basis |-> [s \in Sources |-> {}], queries |-> 0, code |-> code]
    BY ONLY <2>2, <2>3
  <2>5. analyses' = [analyses EXCEPT ![r] = y] /\ analyses[r].pc = "none"
    BY <2>1, <2>3 DEF AdmitAnalyst
  <2> QED BY <1>2, <2>1, <2>4, <2>5
<1>6. analyses' \in [Analysts -> Analyses] /\ analyses'[r] = x /\ \A q \in Analysts : q # r => analyses'[q] = analyses[q]
  BY <1>0, <1>3, <1>5
<1>7. \A q \in Analysts : AnalysisOK(analyses'[q])
  <2> SUFFICES ASSUME NEW q \in Analysts PROVE AnalysisOK(analyses'[q])
    OBVIOUS
  <2>1. CASE q = r
    BY <1>4, <1>6, <2>1
  <2>2. CASE q # r
    <3>1. analyses'[q] = analyses[q] /\ AnalysisOK(analyses[q])
      BY <1>6, <2>2 DEF DeskInv
    <3> QED BY <3>1
  <2> QED BY <2>1, <2>2
<1>8. analyses[r].handler = "none"
  BY <1>5 DEF DeskInv, AnalysisOK
<1>9. /\ \A g \in Handlers, v \in Tenants : <<g, v>> # <<h, t>> => PassedOf(g, v)' = PassedOf(g, v)
      /\ PassedOf(h, t)' = (IF code = 0 THEN PassedOf(h, t) \cup {r} ELSE PassedOf(h, t)) /\ r \notin PassedOf(h, t)
  <2>1. "none" \notin Handlers
    BY DEF Handlers
  <2>2. code = 0 <=> code \notin Uncounted
    BY <1>1 DEF Uncounted
  <2> QED BY <1>3, <1>6, <1>8, <2>1, <2>2 DEF PassedOf
<1>10. /\ \A g \in Handlers, v \in Tenants : <<g, v>> # <<h, t>> => used'[<<g, v>>] = used[<<g, v>>]
       /\ used'[<<h, t>>] = IF code = 0 THEN used[<<h, t>>] + 1 ELSE used[<<h, t>>]
       /\ used' \in [Handlers \X Tenants -> 0..Quota]
  <2>1. CASE code = 0
    <3>1. used' = [b \in Handlers \X Tenants |-> used[b] + IF b = <<h, t>> THEN 1 ELSE 0]
      BY <1>0, <2>1 DEF AdmitAnalyst, CountedFor
    <3>2. \A b \in Handlers \X Tenants : used[b] \in 0..Quota
      BY <1>0
    <3>3. used[<<h, t>>] + 1 \in 0..Quota
      BY <1>0, <1>1, <2>1
    <3>4. \A b \in Handlers \X Tenants : b # <<h, t>> => used'[b] = used[b]
      BY <3>1, <3>2
    <3>5. used'[<<h, t>>] = used[<<h, t>>] + 1
      BY <3>1
    <3>6. \A b \in Handlers \X Tenants : used'[b] \in 0..Quota
      BY <3>2, <3>3, <3>4, <3>5
    <3> QED BY <2>1, <3>1, <3>4, <3>5, <3>6
  <2>2. CASE code # 0
    BY <1>0, <2>2 DEF AdmitAnalyst
  <2> QED BY <2>1, <2>2
<1>11. ASSUME NEW g \in Handlers, NEW v \in Tenants
       PROVE  /\ IsFiniteSet(PassedOf(g, v)') /\ used'[<<g, v>>] = Cardinality(PassedOf(g, v)')
              /\ \A q \in Analysts :
                   analyses'[q].handler = g /\ analyses'[q].tenant = v /\ analyses'[q].code = 429
                     => used'[<<g, v>>] = Quota
  <2>1. /\ IsFiniteSet(PassedOf(g, v)) /\ used[<<g, v>>] = Cardinality(PassedOf(g, v))
        /\ \A q \in Analysts :
              analyses[q].handler = g /\ analyses[q].tenant = v /\ analyses[q].code = 429
                => used[<<g, v>>] = Quota
    BY DEF DeskInv, UsedCounts
  <2>2. CASE <<g, v>> # <<h, t>>
    <3>1. PassedOf(g, v)' = PassedOf(g, v) /\ used'[<<g, v>>] = used[<<g, v>>]
      BY <1>9, <1>10, <2>2
    <3>2. \A q \in Analysts : analyses'[q].handler = g /\ analyses'[q].tenant = v => analyses'[q] = analyses[q]
      BY <1>3, <1>6, <2>2
    <3> QED BY <2>1, <3>1, <3>2
  <2>3. CASE g = h /\ v = t
    <3>1. IsFiniteSet(PassedOf(h, t)') /\ Cardinality(PassedOf(h, t)') = used'[<<h, t>>]
      <4>1. IsFiniteSet(PassedOf(h, t) \cup {r}) /\ Cardinality(PassedOf(h, t) \cup {r}) = Cardinality(PassedOf(h, t)) + 1
        BY <1>9, <2>1, <2>3, FS_AddElement
      <4> QED BY <1>9, <1>10, <2>1, <2>3, <4>1
    <3>2. ASSUME NEW q \in Analysts, analyses'[q].handler = h, analyses'[q].tenant = t, analyses'[q].code = 429
          PROVE  used'[<<h, t>>] = Quota
      <4>1. used[<<h, t>>] \in 0..Quota
        BY <1>0
      <4>2. used[<<h, t>>] = Quota
        <5>1. CASE q = r
          BY <1>0, <1>1, <1>3, <1>6, <3>2, <4>1, <5>1
        <5>2. CASE q # r
          BY <1>6, <2>1, <2>3, <3>2, <5>2
        <5> QED BY <5>1, <5>2
      <4>3. code # 0
        BY <1>0, <1>1, <4>1, <4>2
      <4> QED BY <1>10, <4>2, <4>3
    <3> QED BY <2>3, <3>1, <3>2
  <2> QED BY <2>2, <2>3
<1> QED BY <1>6, <1>7, <1>10, <1>11 DEF DeskInv, UsedCounts

(* Every step keeps it.                                                    *)
LEMMA DeskStep == DeskInv /\ [DeskNext]_deskVars => DeskInv'
<1> SUFFICES ASSUME DeskInv, [DeskNext]_deskVars PROVE DeskInv'
  OBVIOUS
<1>1. ASSUME NEW r \in Analysts
      PROVE  AnalysisOK(analyses[r]) /\ analyses[r] \in Analyses
  BY DEF DeskInv
<1>2. ASSUME NEW r \in Analysts, NEW h \in Handlers, NEW t \in Tenants, NEW known \in BOOLEAN, NEW disabled \in BOOLEAN,
             NEW halted \in SUBSET (Tenants \cup {"platform"}),
             AdmitAnalyst(r, h, t, RefusalOf(h, t, known, disabled, halted))
      PROVE  DeskInv'
  BY <1>2, AdmitKeeps
<1>3. ASSUME NEW r \in Analysts, Unread(r) PROVE DeskInv'
  <2>1. PICK a, x : a = analyses[r] /\ x = [a EXCEPT !.pc = "refused", !.code = 400]
    OBVIOUS
  <2>2. a.pc = "reading" /\ analyses' = [analyses EXCEPT ![r] = x] /\ used' = used
    BY <1>3, <2>1 DEF Unread, DeskInv
  <2>3. AnalysisOK(a) /\ a \in Analyses
    BY <1>1, <2>1
  <2>4. /\ x \in Analyses /\ x.pc = "refused" /\ x.code = 400 /\ x.handler = a.handler /\ x.tenant = a.tenant
        /\ x.given = a.given /\ x.basis = a.basis
    <3>1. Ended(x, a, "refused", 400)
      BY <2>1 DEF Ended
    <3> QED BY <2>3, <3>1, ChangedAnalysis
  <2>5. AnalysisOK(x)
    BY <2>2, <2>3, <2>4 DEF AnalysisOK
  <2>6. analyses[r].code = 0 /\ x.handler = analyses[r].handler /\ x.tenant = analyses[r].tenant
    BY <2>1, <2>2, <2>3, <2>4 DEF AnalysisOK
  <2>7. x.code \in {0, 200, 400}
    BY <2>4
  <2> QED BY <2>2, <2>5, <2>6, <2>7, OneAnalysis
<1>4. ASSUME NEW r \in Analysts, NEW g \in Geographies, NEW brought \in Givens, BodyIsRead(r, g, brought) PROVE DeskInv'
  <2>1. PICK a : a = analyses[r]
    OBVIOUS
  <2>2. AnalysisOK(a) /\ a \in Analyses /\ a.pc = "reading" /\ used' = used
    BY <1>1, <1>4, <2>1 DEF BodyIsRead
  <2>3. a.code = 0 /\ a.handler \in Handlers /\ a.tenant \in Tenants
    BY <2>2 DEF AnalysisOK
  <2>4. PICK given : given = brought \cap EvidenceOf(a.handler)
    OBVIOUS
  <2>5. given \subseteq EvidenceOf(a.handler) /\ given \in SUBSET Sources
    BY <2>4 DEF EvidenceOf, Sources
  <2>6. PICK pc0, handler, tenant, geo, given0, basis0, queries :
          a = [pc |-> pc0, handler |-> handler, tenant |-> tenant, geo |-> geo, given |-> given0,
               basis |-> basis0, queries |-> queries, code |-> 0]
    BY <2>2, <2>3 DEF Analyses
  <2>7. /\ handler = a.handler /\ tenant = a.tenant /\ geo = a.geo
        /\ handler \in Handlers /\ tenant \in Tenants /\ geo \in Geographies \cup {"none"} /\ queries \in Nat
    BY <2>2, <2>3, <2>6 DEF Analyses
  <2>14. PICK place, b :
           /\ place = IF a.handler = "workforce" THEN g ELSE a.geo
           /\ b = [a EXCEPT !.geo = IF a.handler = "workforce" THEN g ELSE @, !.given = given]
    OBVIOUS
  <2>15. analyses' = [analyses EXCEPT ![r] = Rested(b, given)]
    BY <1>4, <2>1, <2>4, <2>14 DEF BodyIsRead
  <2>16. b = [pc |-> pc0, handler |-> handler, tenant |-> tenant, geo |-> place, given |-> given,
              basis |-> basis0, queries |-> queries, code |-> 0]
    <3>1. b = [a EXCEPT !.geo = place, !.given = given]
      BY <2>14
    <3> QED BY ONLY <2>6, <3>1
  <2>17. b.handler = a.handler /\ (a.handler # "workforce" => place = geo)
         /\ (a.handler = "workforce" => place = g)
    BY <2>7, <2>14, <2>16
  <2>8. ASSUME NEW basis, basis \in [Sources -> SUBSET Parts], basis["oews"] = {},
               \A s \in Sources : (Part(0, "caller") \in basis[s]) <=> s \in given,
               a.handler # "workforce", Rested(b, given) = Concluded([b EXCEPT !.basis = basis])
        PROVE  DeskInv'
    <3>1. PICK x : x = [pc |-> "answered", handler |-> handler, tenant |-> tenant, geo |-> geo, given |-> given,
                        basis |-> basis, queries |-> queries, code |-> 200]
      OBVIOUS
    <3>2. PICK y, v : y = Rested(b, given) /\ v = [b EXCEPT !.basis = basis]
      OBVIOUS
    <3>3. y = x
      <4>1. v = [pc |-> pc0, handler |-> handler, tenant |-> tenant, geo |-> place, given |-> given,
                 basis |-> basis, queries |-> queries, code |-> 0]
        BY ONLY <2>16, <3>2
      <4>2. y = [v EXCEPT !.pc = "answered", !.code = 200]
        BY <2>8, <3>2 DEF Concluded
      <4>3. y = [pc |-> "answered", handler |-> handler, tenant |-> tenant, geo |-> place, given |-> given,
                 basis |-> basis, queries |-> queries, code |-> 200]
        BY ONLY <4>1, <4>2
      <4>4. place = geo
        BY <2>8, <2>17
      <4> QED BY ONLY <3>1, <4>3, <4>4
    <3>4. /\ x.pc = "answered" /\ x.handler = handler /\ x.tenant = tenant /\ x.given = given
          /\ x.basis = basis /\ x.code = 200
      BY <3>1
    <3>5. x \in Analyses
      BY <2>5, <2>7, <2>8, <3>1 DEF Analyses
    <3>6. RestsWhole(x)
      BY <2>8, <3>4 DEF RestsWhole
    <3>7. AnalysisOK(x)
      BY <2>7, <3>4, <3>5, <3>6 DEF AnalysisOK
    <3>8. analyses' = [analyses EXCEPT ![r] = x]
      BY <2>15, <3>2, <3>3
    <3>9. analyses[r].code = 0 /\ x.handler = analyses[r].handler /\ x.tenant = analyses[r].tenant
      BY <2>1, <2>3, <2>7, <3>4
    <3>10. x.code \in {0, 200, 400} /\ used' = used
      BY <2>2, <3>4
    <3> QED BY <3>7, <3>8, <3>9, <3>10, OneAnalysis
  <2>9. CASE a.handler = "workforce"
    <3>1. PICK basis, pc : basis = GivenEvidence(given)
                           /\ pc = IF "oews" \notin given THEN "occupations"
                                   ELSE IF "lau" \notin given THEN "unemployment" ELSE "analysing"
      OBVIOUS
    <3>2. PICK x : x = [pc |-> pc, handler |-> handler, tenant |-> tenant, geo |-> g, given |-> given,
                        basis |-> basis, queries |-> queries, code |-> 0]
      OBVIOUS
    <3>3. PICK y : y = Rested(b, given)
      OBVIOUS
    <3>4. y = x
      <4>1. y = [b EXCEPT !.basis = basis, !.pc = pc]
        BY <2>9, <2>17, <3>1, <3>3 DEF Rested
      <4>2. y = [pc |-> pc, handler |-> handler, tenant |-> tenant, geo |-> place, given |-> given,
                 basis |-> basis, queries |-> queries, code |-> 0]
        BY ONLY <2>16, <4>1
      <4>3. place = g
        BY <2>9, <2>17
      <4> QED BY ONLY <3>2, <4>2, <4>3
    <3>5. analyses' = [analyses EXCEPT ![r] = y]
      BY <2>15, <3>3
    <3>6. /\ x.pc = pc /\ x.handler = handler /\ x.tenant = tenant /\ x.given = given /\ x.basis = basis /\ x.code = 0
      BY <3>2
    <3>7. /\ basis \in [Sources -> SUBSET Parts]
          /\ \A s \in Sources : (Part(0, "caller") \in basis[s]) <=> s \in given
          /\ "oews" \notin given => basis["oews"] = {}
      BY <2>5, <3>1, FilledIn
    <3>8. pc \in {"occupations", "unemployment", "analysing"} /\ (pc = "occupations" => "oews" \notin given)
          /\ (pc = "unemployment" => "lau" \notin given)
      BY <3>1
    <3>9. x \in Analyses
      BY <2>5, <2>7, <3>2, <3>7, <3>8 DEF Analyses
    <3>10. AnalysisOK(x)
      <4>1. RestsWhole(x)
        BY <3>6, <3>7 DEF RestsWhole
      <4> QED BY <2>7, <3>6, <3>8, <3>9, <4>1 DEF AnalysisOK
    <3>11. analyses[r].code = 0 /\ x.handler = analyses[r].handler /\ x.tenant = analyses[r].tenant
      BY <2>1, <2>3, <2>7, <3>6
    <3>12. x.code \in {0, 200, 400} /\ used' = used /\ analyses' = [analyses EXCEPT ![r] = x]
      BY <2>2, <3>4, <3>5, <3>6
    <3> QED BY <3>10, <3>11, <3>12, OneAnalysis
  <2>10. CASE a.handler = "preview"
    <3>1. PICK basis : basis = PreviewEvidence
      OBVIOUS
    <3>2. /\ basis \in [Sources -> SUBSET Parts] /\ basis["oews"] = {}
          /\ \A s \in Sources : (Part(0, "caller") \in basis[s]) <=> s \in given
      BY <2>5, <2>10, <3>1, FilledIn
    <3>3. Rested(b, given) = Concluded([b EXCEPT !.basis = basis])
      BY <2>10, <2>17, <3>1 DEF Rested
    <3>4. a.handler # "workforce"
      BY <2>10
    <3> QED BY <2>8, <3>2, <3>3, <3>4
  <2>11. CASE a.handler = "market"
    <3>1. PICK basis : basis = MarketEvidence(given)
      OBVIOUS
    <3>2. /\ basis \in [Sources -> SUBSET Parts] /\ basis["oews"] = {}
          /\ \A s \in Sources : (Part(0, "caller") \in basis[s]) <=> s \in given
      BY <2>5, <2>11, <3>1, FilledIn
    <3>3. Rested(b, given) = Concluded([b EXCEPT !.basis = basis])
      BY <2>11, <2>17, <3>1 DEF Rested
    <3>4. a.handler # "workforce"
      BY <2>11
    <3> QED BY <2>8, <3>2, <3>3, <3>4
  <2>12. CASE a.handler = "competition"
    <3>1. PICK basis : basis = CompetitionEvidence(given)
      OBVIOUS
    <3>2. /\ basis \in [Sources -> SUBSET Parts] /\ basis["oews"] = {}
          /\ \A s \in Sources : (Part(0, "caller") \in basis[s]) <=> s \in given
      BY <2>5, <2>12, <3>1, FilledIn
    <3>3. Rested(b, given) = Concluded([b EXCEPT !.basis = basis])
      BY <2>12, <2>17, <3>1 DEF Rested
    <3>4. a.handler # "workforce"
      BY <2>12
    <3> QED BY <2>8, <3>2, <3>3, <3>4
  <2>13. CASE a.handler = "location"
    <3>1. PICK basis : basis = LocationEvidence(given)
      OBVIOUS
    <3>2. /\ basis \in [Sources -> SUBSET Parts] /\ basis["oews"] = {}
          /\ \A s \in Sources : (Part(0, "caller") \in basis[s]) <=> s \in given
      BY <2>5, <2>13, <3>1, FilledIn
    <3>3. Rested(b, given) = Concluded([b EXCEPT !.basis = basis])
      BY <2>13, <2>17, <3>1 DEF Rested
    <3>4. a.handler # "workforce"
      BY <2>13
    <3> QED BY <2>8, <3>2, <3>3, <3>4
  <2> QED BY <2>3, <2>9, <2>10, <2>11, <2>12, <2>13 DEF Handlers
<1>5. ASSUME NEW r \in Analysts, NEW ok \in BOOLEAN, OccupationsAnswered(r, ok) PROVE DeskInv'
  <2>1. PICK a : a = analyses[r]
    OBVIOUS
  <2>2. AnalysisOK(a) /\ a \in Analyses /\ a.pc = "occupations" /\ used' = used
    BY <1>1, <1>5, <2>1 DEF OccupationsAnswered
  <2>3. a.code = 0 /\ a.handler \in Handlers /\ a.tenant \in Tenants /\ "oews" \notin a.given /\ RestsWhole(a)
        /\ a.queries \in Nat /\ a.basis \in [Sources -> SUBSET Parts]
    BY <2>2 DEF AnalysisOK, Analyses
  <2>4. CASE ok /\ a.queries < 4
    <3>1. PICK x : x = [a EXCEPT !.queries = @ + 1]
      OBVIOUS
    <3>2. analyses' = [analyses EXCEPT ![r] = x]
      BY <1>5, <2>1, <2>4, <3>1 DEF OccupationsAnswered
    <3>3. /\ x \in Analyses /\ x.pc = a.pc /\ x.handler = a.handler /\ x.tenant = a.tenant /\ x.code = a.code
          /\ x.given = a.given /\ x.basis = a.basis /\ x.geo = a.geo
      <4>1. PICK pc, handler, tenant, geo, given, basis, queries, code :
              a = [pc |-> pc, handler |-> handler, tenant |-> tenant, geo |-> geo, given |-> given,
                   basis |-> basis, queries |-> queries, code |-> code]
        BY <2>2 DEF Analyses
      <4>2. PICK more : more = queries + 1
        OBVIOUS
      <4>3. x = [a EXCEPT !.queries = more]
        <5>1. a.queries = queries
          BY ONLY <4>1
        <5>2. x = [a EXCEPT !.queries = a.queries + 1]
          BY <3>1
        <5> QED BY <4>2, <5>1, <5>2
      <4>4. x = [pc |-> pc, handler |-> handler, tenant |-> tenant, geo |-> geo, given |-> given,
                 basis |-> basis, queries |-> more, code |-> code]
        BY ONLY <4>1, <4>3
      <4>5. /\ pc \in {"none", "refused", "reading", "occupations", "unemployment", "analysing", "answered"}
            /\ handler \in Handlers \cup {"none"} /\ tenant \in Tenants \cup {"none"} /\ geo \in Geographies \cup {"none"}
            /\ given \in SUBSET Sources /\ basis \in [Sources -> SUBSET Parts] /\ more \in Nat
            /\ code \in {0, 200, 400, 401, 423, 429, 503}
        BY <2>2, <4>1, <4>2 DEF Analyses
      <4>6. x \in Analyses
        BY <4>4, <4>5 DEF Analyses
      <4>7. /\ x.pc = a.pc /\ x.handler = a.handler /\ x.tenant = a.tenant /\ x.code = a.code
            /\ x.given = a.given /\ x.basis = a.basis /\ x.geo = a.geo
        BY ONLY <4>1, <4>4
      <4> QED BY <4>6, <4>7
    <3>4. RestsWhole(x)
      BY <2>3, <3>3 DEF RestsWhole
    <3>5. AnalysisOK(x)
      BY <2>2, <2>3, <3>3, <3>4 DEF AnalysisOK
    <3>6. analyses[r].code = 0 /\ x.handler = analyses[r].handler /\ x.tenant = analyses[r].tenant
      BY <2>1, <2>3, <3>3
    <3>7. x.code \in {0, 200, 400}
      BY <2>3, <3>3
    <3> QED BY <2>2, <3>2, <3>5, <3>6, <3>7, OneAnalysis
  <2>5. CASE ~(ok /\ a.queries < 4)
    <3>1. PICK next, kept : next = (IF "lau" \in a.given THEN "analysing" ELSE "unemployment") /\ kept = OccupationsKept(a, ok)
      OBVIOUS
    <3>2. PICK x : x = [a EXCEPT !.queries = 0, !.basis["oews"] = kept, !.pc = next]
      OBVIOUS
    <3>3. analyses' = [analyses EXCEPT ![r] = x]
      BY <1>5, <2>1, <2>5, <3>1, <3>2 DEF OccupationsAnswered
    <3>4. kept \in {{}, Five(a.geo)} /\ kept \subseteq Parts /\ Part(0, "caller") \notin kept
      <4>1. PICK p : p = OewsPlace(a.geo)
        OBVIOUS
      <4>2. p \in {"itself", "Austin"}
        BY <4>1 DEF OewsPlace
      <4>3. Five(a.geo) = {Part(k, IF k \in {2, 4} THEN "nation" ELSE p) : k \in 1..5}
        BY <4>1 DEF Five
      <4>4. Five(a.geo) \subseteq Parts /\ Part(0, "caller") \notin Five(a.geo)
        <5>1. \A k \in 1..5 : Part(k, IF k \in {2, 4} THEN "nation" ELSE p) \in Parts
                               /\ Part(k, IF k \in {2, 4} THEN "nation" ELSE p) # Part(0, "caller")
          BY <4>2 DEF Part, Parts, Stands
        <5> QED BY <4>3, <5>1
      <4>5. kept \in {{}, Five(a.geo)}
        BY <3>1 DEF OccupationsKept, PartsOf, Five
      <4> QED BY <4>4, <4>5
    <3>5. PICK basis : basis = [a.basis EXCEPT !["oews"] = kept]
      OBVIOUS
    <3>6. /\ basis \in [Sources -> SUBSET Parts] /\ basis["oews"] = kept
          /\ \A s \in Sources : s # "oews" => basis[s] = a.basis[s]
      BY <2>3, <3>4, <3>5 DEF Sources
    <3>7. /\ x \in Analyses /\ x.pc = next /\ x.handler = a.handler /\ x.tenant = a.tenant /\ x.code = a.code
          /\ x.given = a.given /\ x.basis = basis /\ x.geo = a.geo
      <4>1. next \in {"analysing", "unemployment"}
        BY <3>1
      <4>2. PICK handler, tenant, geo, given, code :
          handler = a.handler /\ tenant = a.tenant /\ geo = a.geo /\ given = a.given /\ code = a.code
        OBVIOUS
      <4>3. PICK pc0, basis0, queries0 :
              a = [pc |-> pc0, handler |-> handler, tenant |-> tenant, geo |-> geo, given |-> given,
                   basis |-> basis0, queries |-> queries0, code |-> code]
        BY <2>2, <4>2 DEF Analyses
      <4>6. x = [a EXCEPT !.queries = 0, !.basis = basis, !.pc = next]
        BY <3>2, <3>5
      <4>4. x = [pc |-> next, handler |-> handler, tenant |-> tenant, geo |-> geo, given |-> given,
                 basis |-> basis, queries |-> 0, code |-> code]
        BY ONLY <4>3, <4>6
      <4>5. /\ handler \in Handlers \cup {"none"} /\ tenant \in Tenants \cup {"none"} /\ geo \in Geographies \cup {"none"}
            /\ given \in SUBSET Sources /\ code \in {0, 200, 400, 401, 423, 429, 503}
        BY <2>2, <4>2 DEF Analyses
      <4> QED BY <3>6, <4>1, <4>2, <4>4, <4>5 DEF Analyses
    <3>8. RestsWhole(x)
      BY <2>3, <3>4, <3>6, <3>7 DEF RestsWhole
    <3>9. AnalysisOK(x)
      BY <2>3, <3>1, <3>7, <3>8 DEF AnalysisOK
    <3>10. analyses[r].code = 0 /\ x.handler = analyses[r].handler /\ x.tenant = analyses[r].tenant
      BY <2>1, <2>3, <3>7
    <3>11. x.code \in {0, 200, 400}
      BY <2>3, <3>7
    <3> QED BY <2>2, <3>3, <3>9, <3>10, <3>11, OneAnalysis
  <2> QED BY <2>4, <2>5
<1>6. ASSUME NEW r \in Analysts, NEW ok \in BOOLEAN, UnemploymentAnswered(r, ok) PROVE DeskInv'
  <2>1. PICK a : a = analyses[r]
    OBVIOUS
  <2>2. AnalysisOK(a) /\ a \in Analyses /\ a.pc = "unemployment" /\ used' = used
    BY <1>1, <1>6, <2>1 DEF UnemploymentAnswered
  <2>3. a.code = 0 /\ a.handler \in Handlers /\ a.tenant \in Tenants /\ "lau" \notin a.given /\ RestsWhole(a)
        /\ a.basis \in [Sources -> SUBSET Parts]
    BY <2>2 DEF AnalysisOK, Analyses
  <2>4. PICK kept : kept = IF ok THEN {Part(1, LauPlace(a.geo))} ELSE {}
    OBVIOUS
  <2>5. kept \subseteq Parts /\ Part(0, "caller") \notin kept
    <3>1. PICK p \in {"itself", "Travis"} : p = LauPlace(a.geo)
      BY DEF LauPlace
    <3>2. Part(1, p) \in Parts /\ Part(1, p) # Part(0, "caller")
      BY DEF Part, Parts, Stands
    <3> QED BY <2>4, <3>1, <3>2
  <2>6. PICK basis : basis = [a.basis EXCEPT !["lau"] = kept]
    OBVIOUS
  <2>7. /\ basis \in [Sources -> SUBSET Parts] /\ basis["lau"] = kept
        /\ \A s \in Sources : s # "lau" => basis[s] = a.basis[s]
        /\ "oews" \in Sources
    BY <2>3, <2>5, <2>6 DEF Sources
  <2>8. PICK x : x = [a EXCEPT !.pc = "analysing", !.basis["lau"] = kept]
    OBVIOUS
  <2>9. analyses' = [analyses EXCEPT ![r] = x]
    BY <1>6, <2>1, <2>4, <2>8 DEF UnemploymentAnswered, DeskInv
  <2>10. /\ x \in Analyses /\ x.pc = "analysing" /\ x.handler = a.handler /\ x.tenant = a.tenant /\ x.code = a.code
         /\ x.given = a.given /\ x.basis = basis /\ x.geo = a.geo
    <3>1. PICK handler, tenant, geo, given, queries, code :
          handler = a.handler /\ tenant = a.tenant /\ geo = a.geo /\ given = a.given /\ queries = a.queries /\ code = a.code
      OBVIOUS
    <3>2. PICK pc0, basis0 :
            a = [pc |-> pc0, handler |-> handler, tenant |-> tenant, geo |-> geo, given |-> given,
                 basis |-> basis0, queries |-> queries, code |-> code]
      BY <2>2, <3>1 DEF Analyses
    <3>5. x = [a EXCEPT !.pc = "analysing", !.basis = basis]
      BY <2>6, <2>8
    <3>3. x = [pc |-> "analysing", handler |-> handler, tenant |-> tenant, geo |-> geo, given |-> given,
               basis |-> basis, queries |-> queries, code |-> code]
      BY ONLY <3>2, <3>5
    <3>4. /\ handler \in Handlers \cup {"none"} /\ tenant \in Tenants \cup {"none"} /\ geo \in Geographies \cup {"none"}
          /\ given \in SUBSET Sources /\ queries \in Nat /\ code \in {0, 200, 400, 401, 423, 429, 503}
      BY <2>2, <3>1 DEF Analyses
    <3> QED BY <2>7, <3>1, <3>3, <3>4 DEF Analyses
  <2>11. RestsWhole(x)
    BY <2>3, <2>5, <2>7, <2>10 DEF RestsWhole
  <2>12. AnalysisOK(x)
    BY <2>3, <2>10, <2>11 DEF AnalysisOK
  <2>13. analyses[r].code = 0 /\ x.handler = analyses[r].handler /\ x.tenant = analyses[r].tenant
    BY <2>1, <2>3, <2>10
  <2>14. x.code \in {0, 200, 400}
    BY <2>3, <2>10
  <2> QED BY <2>2, <2>9, <2>12, <2>13, <2>14, OneAnalysis
<1>7. ASSUME NEW r \in Analysts, WorkforceAnswered(r) PROVE DeskInv'
  <2>1. PICK a, x : a = analyses[r] /\ x = [a EXCEPT !.pc = "answered", !.code = 200]
    OBVIOUS
  <2>2. a.pc = "analysing" /\ analyses' = [analyses EXCEPT ![r] = x] /\ used' = used
    BY <1>7, <2>1 DEF WorkforceAnswered, Concluded
  <2>3. AnalysisOK(a) /\ a \in Analyses
    BY <1>1, <2>1
  <2>4. /\ x \in Analyses /\ x.pc = "answered" /\ x.code = 200 /\ x.handler = a.handler /\ x.tenant = a.tenant
        /\ x.given = a.given /\ x.basis = a.basis /\ x.geo = a.geo
    <3>1. Ended(x, a, "answered", 200)
      BY <2>1 DEF Ended
    <3> QED BY <2>3, <3>1, ChangedAnalysis
  <2>5. a.code = 0 /\ a.handler \in Handlers /\ a.tenant \in Tenants /\ RestsWhole(a)
    BY <2>2, <2>3 DEF AnalysisOK
  <2>6. RestsWhole(x)
    BY <2>4, <2>5 DEF RestsWhole
  <2>7. AnalysisOK(x)
    BY <2>4, <2>5, <2>6 DEF AnalysisOK
  <2>8. analyses[r].code = 0 /\ x.handler = analyses[r].handler /\ x.tenant = analyses[r].tenant
    BY <2>1, <2>4, <2>5
  <2>9. x.code \in {0, 200, 400}
    BY <2>4
  <2> QED BY <2>2, <2>7, <2>8, <2>9, OneAnalysis
<1>8. CASE UNCHANGED deskVars
  <2>1. used' = used /\ analyses' = analyses
    BY <1>8 DEF deskVars
  <2>2. \A h \in Handlers, t \in Tenants : PassedOf(h, t)' = PassedOf(h, t)
    BY <2>1 DEF PassedOf
  <2>3. UsedCounts'
    <3>1. ASSUME NEW h \in Handlers, NEW t \in Tenants
          PROVE  /\ IsFiniteSet(PassedOf(h, t)') /\ used'[<<h, t>>] = Cardinality(PassedOf(h, t)')
                 /\ \A q \in Analysts :
                      analyses'[q].handler = h /\ analyses'[q].tenant = t /\ analyses'[q].code = 429
                        => used'[<<h, t>>] = Quota
      <4>1. PassedOf(h, t)' = PassedOf(h, t)
        BY <2>2
      <4>2. /\ IsFiniteSet(PassedOf(h, t)) /\ used[<<h, t>>] = Cardinality(PassedOf(h, t))
            /\ \A q \in Analysts :
                 analyses[q].handler = h /\ analyses[q].tenant = t /\ analyses[q].code = 429
                   => used[<<h, t>>] = Quota
        BY DEF DeskInv, UsedCounts
      <4> QED BY <2>1, <4>1, <4>2
    <3> QED BY <3>1 DEF UsedCounts
  <2> QED BY <2>1, <2>3 DEF DeskInv
<1> QED BY <1>2, <1>3, <1>4, <1>5, <1>6, <1>7, <1>8 DEF DeskNext

LEMMA DeskInductive == DeskSpec => []DeskInv
<1> QED BY DeskInitially, DeskStep, PTL DEF DeskSpec

(* The desk's state has its types.                                         *)
THEOREM DeskTypeCorrect == DeskSpec => []DeskTypeOK
<1>1. DeskInv => DeskTypeOK
  BY DEF DeskInv, DeskTypeOK, Analyses
<1> QED BY <1>1, DeskInductive, PTL

(* For any number of requests, places and bodies.                          *)
THEOREM DeskAlwaysTrue == DeskSpec => []DeskTrue
<1>1. ASSUME DeskInv PROVE DeskTrue
  <2>1. ASSUME NEW r \in Analysts
        PROVE  AnalysisOK(analyses[r])
    BY <1>1 DEF DeskInv
  <2>2. QuotaTrue
    <3> SUFFICES ASSUME NEW h \in Handlers, NEW t \in Tenants
                 PROVE  LET own == {r \in Analysts : analyses[r].handler = h /\ analyses[r].tenant = t}
                            passed == {r \in own : analyses[r].code \notin {401, 423, 429, 503}}
                        IN /\ used[<<h, t>>] = Cardinality(passed)
                           /\ (\E r \in own : analyses[r].code = 429) => Cardinality(passed) = Quota
      BY DEF QuotaTrue
    <3>1. {r \in {r \in Analysts : analyses[r].handler = h /\ analyses[r].tenant = t} :
             analyses[r].code \notin {401, 423, 429, 503}} = PassedOf(h, t)
      BY DEF PassedOf, Uncounted
    <3>2. /\ used[<<h, t>>] = Cardinality(PassedOf(h, t))
          /\ \A r \in Analysts :
               analyses[r].handler = h /\ analyses[r].tenant = t /\ analyses[r].code = 429
                 => used[<<h, t>>] = Quota
      BY <1>1 DEF DeskInv, UsedCounts
    <3> QED BY <3>1, <3>2
  <2>3. EvidenceWhole
    <3>1. Cardinality({}) = 0
      BY FS_EmptySet
    <3>2. ASSUME NEW r \in Analysts, analyses[r].pc \in {"analysing", "answered"}
          PROVE  /\ \A s \in Sources : (Part(0, "caller") \in analyses[r].basis[s]) <=> (s \in analyses[r].given)
                 /\ "oews" \notin analyses[r].given => Cardinality(analyses[r].basis["oews"]) \in {0, 5}
      <4>1. PICK a : a = analyses[r]
        OBVIOUS
      <4>2. RestsWhole(a)
        BY <2>1, <3>2, <4>1 DEF AnalysisOK
      <4>3. "oews" \notin a.given => Cardinality(a.basis["oews"]) \in {0, 5}
        BY <3>1, <4>2, FiveAre DEF RestsWhole
      <4> QED BY <4>1, <4>2, <4>3 DEF RestsWhole
    <3> QED BY <3>2 DEF EvidenceWhole
  <2>4. StandInsNear
    <3> SUFFICES ASSUME NEW r \in Analysts, "oews" \notin analyses[r].given,
                        NEW part \in analyses[r].basis["oews"], part.from = "Austin"
                 PROVE  analyses[r].geo.within # "elsewhere" \/ analyses[r].geo.namesake
      BY DEF StandInsNear
    <3>1. PICK a : a = analyses[r]
      OBVIOUS
    <3>2. AnalysisOK(a) /\ a.basis["oews"] # {} /\ "oews" \notin a.given
      BY <2>1, <3>1
    <3>3. "oews" \in Sources
      BY DEF Sources
    <3>4. a.pc \in {"occupations", "unemployment", "analysing", "answered"}
      BY <3>2, <3>3 DEF AnalysisOK, Analyses
    <3>5. part \in Five(a.geo)
      BY <3>1, <3>2, <3>4 DEF AnalysisOK, RestsWhole
    <3>6. PICK k \in 1..5 : part = Part(k, IF k \in {2, 4} THEN "nation" ELSE OewsPlace(a.geo))
      BY <3>5 DEF Five
    <3>7. OewsPlace(a.geo) = "Austin"
      BY <3>6 DEF Part
    <3> QED BY <3>1, <3>7 DEF OewsPlace
  <2> QED BY <2>2, <2>3, <2>4 DEF DeskTrue
<1> QED BY <1>1, DeskInductive, PTL

-----------------------------------------------------------------------------
(* THE OPERATOR'S STREAM.  What a stream may be, and what is known of one  *)
(* when n rows were committed.                                             *)
Streams == [pc : {"none", "greeting", "replaying", "live", "over"}, replay : Seq(1..MaxRows),
            sent : Seq(1..MaxRows), since : Nat, aborted : BOOLEAN]

Rising(seq) == \A j, k \in DOMAIN seq : j < k => seq[j] < seq[k]
UpTo(seq, n) == \A k \in DOMAIN seq : seq[k] <= n
Before(seq, later) == \A j \in DOMAIN seq, k \in DOMAIN later : seq[j] < later[k]

StreamOK(s, n) ==
  /\ s \in Streams
  /\ Rising(s.sent) /\ UpTo(s.sent, n) /\ s.since <= n
  /\ s.pc \in {"none", "greeting"} => s.sent = <<>> /\ s.replay = <<>>
  /\ s.pc = "none" => ~s.aborted
  /\ s.pc = "replaying" => /\ Rising(s.replay) /\ UpTo(s.replay, n) /\ s.replay # <<>>
                           /\ Before(s.sent, s.replay)
  /\ s.pc = "live" => ~s.aborted /\ ((s.since + 1)..n) \subseteq ToSet(s.sent)
  /\ s.pc = "over" => s.aborted

(* Whether a stream is one of the listeners.                               *)
Listed(s, on) ==
  /\ s.pc = "live" => on
  /\ on => s.pc = "live" \/ (s.pc = "over" /\ UpTo(s.sent, s.since))

WatchInv ==
  /\ rows \in 0..MaxRows /\ listeners \subseteq Watchers /\ watch \in [Watchers -> Streams]
  /\ \A w \in Watchers : StreamOK(watch[w], rows)
  /\ \A w \in Watchers : Listed(watch[w], w \in listeners)

(* Of the telemetry's buffers.                                             *)
Errors(ring) == {k \in DOMAIN ring : ring[k] = "error"}
Fewer(a, b) == IF a < b THEN a ELSE b

TelemetryInv ==
  /\ spans \in Seq({"ok", "error"}) /\ events \in Seq({"event"}) /\ captured \in Seq({"error"})
  /\ Len(spans) <= SpanRing /\ Len(events) <= EventRing
  /\ Len(captured) >= Fewer(Cardinality(Errors(spans)), ErrorRing)

-----------------------------------------------------------------------------
(* A row that is newer than those sent goes behind them.                   *)
LEMMA SentNext ==
  ASSUME NEW seq \in Seq(1..MaxRows), Rising(seq), NEW x \in 1..MaxRows, \A k \in DOMAIN seq : seq[k] < x
  PROVE  /\ Append(seq, x) \in Seq(1..MaxRows) /\ Rising(Append(seq, x)) /\ UpTo(Append(seq, x), x)
         /\ ToSet(seq) \cup {x} \subseteq ToSet(Append(seq, x))
<1>1. PICK t : t = Append(seq, x)
  OBVIOUS
<1>2. /\ t \in Seq(1..MaxRows) /\ DOMAIN seq = 1..Len(seq) /\ DOMAIN t = 1..(Len(seq) + 1) /\ Len(seq) \in Nat
      /\ t[Len(seq) + 1] = x /\ \A k \in 1..Len(seq) : t[k] = seq[k]
  BY <1>1
<1>3. MaxRows \in Nat /\ \A k \in 1..Len(seq) : seq[k] \in 1..MaxRows
  BY <1>2, StreamAssumption
<1>4. \A k \in DOMAIN t : k \in 1..Len(seq) \/ k = Len(seq) + 1
  BY <1>2
<1>5. Rising(t)
  <2> SUFFICES ASSUME NEW j \in DOMAIN t, NEW k \in DOMAIN t, j < k PROVE t[j] < t[k]
    BY DEF Rising
  <2>1. j \in 1..Len(seq)
    BY <1>2, <1>4
  <2>2. CASE k = Len(seq) + 1
    BY <1>2, <2>1, <2>2
  <2>3. CASE k \in 1..Len(seq)
    BY <1>2, <2>1, <2>3 DEF Rising
  <2> QED BY <1>4, <2>2, <2>3
<1>6. UpTo(t, x)
  BY <1>2, <1>3, <1>4 DEF UpTo
<1>7. ToSet(seq) \cup {x} \subseteq ToSet(t)
  BY <1>2 DEF ToSet
<1> QED BY <1>1, <1>2, <1>5, <1>6, <1>7

(* The replayed row goes behind those sent, and the others follow it.      *)
LEMMA ReplayNext ==
  ASSUME NEW seq \in Seq(1..MaxRows), NEW later \in Seq(1..MaxRows), later # <<>>,
         Rising(later), Before(seq, later)
  PROVE  /\ Head(later) \in 1..MaxRows /\ \A k \in DOMAIN seq : seq[k] < Head(later)
         /\ Tail(later) \in Seq(1..MaxRows) /\ Rising(Tail(later)) /\ Before(seq, Tail(later))
         /\ Before(Append(seq, Head(later)), Tail(later))
         /\ \A n : UpTo(later, n) => UpTo(Tail(later), n) /\ Head(later) <= n
<1>1. PICK h, t, u : h = Head(later) /\ t = Tail(later) /\ u = Append(seq, h)
  OBVIOUS
<1>2. /\ Len(later) \in Nat \ {0} /\ h = later[1] /\ t \in Seq(1..MaxRows) /\ DOMAIN later = 1..Len(later)
      /\ DOMAIN t = 1..(Len(later) - 1) /\ \A k \in 1..(Len(later) - 1) : t[k] = later[k + 1]
      /\ h \in 1..MaxRows
  <2>1. later # <<>> /\ DOMAIN later = 1..Len(later) /\ Len(later) \in Nat
    OBVIOUS
  <2>2. /\ Head(later) \in 1..MaxRows /\ Tail(later) \in Seq(1..MaxRows) /\ Len(Tail(later)) = Len(later) - 1
        /\ \A k \in 1..Len(Tail(later)) : Tail(later)[k] = later[k + 1]
    BY <2>1, HeadTailProperties
  <2>3. Len(later) # 0
    BY <2>1, EmptySeq
  <2>4. Head(later) = later[1]
    OBVIOUS
  <2>5. DOMAIN Tail(later) = 1..(Len(later) - 1)
    BY <2>2
  <2> QED BY <1>1, <2>1, <2>2, <2>3, <2>4, <2>5
<1>3. /\ DOMAIN seq = 1..Len(seq) /\ DOMAIN u = 1..(Len(seq) + 1) /\ Len(seq) \in Nat
      /\ u[Len(seq) + 1] = h /\ \A k \in 1..Len(seq) : u[k] = seq[k]
  BY <1>1, <1>2
<1>4. Rising(t)
  <2>1. \A k \in DOMAIN t : k \in Nat /\ k + 1 \in DOMAIN later /\ t[k] = later[k + 1]
    BY <1>2
  <2>2. \A j, k \in DOMAIN t : j < k => j + 1 < k + 1
    BY <2>1
  <2> QED BY <2>1, <2>2 DEF Rising
<1>5. \A k \in DOMAIN seq : seq[k] < h
  BY <1>2 DEF Before
<1>10. \A k \in DOMAIN t : k \in Nat /\ k + 1 \in DOMAIN later /\ 1 < k + 1 /\ 1 \in DOMAIN later /\ t[k] = later[k + 1]
  BY <1>2
<1>6. Before(seq, t)
  BY <1>10 DEF Before
<1>7. \A k \in DOMAIN t : h < t[k]
  BY <1>2, <1>10 DEF Rising
<1>8. Before(u, t)
  <2> SUFFICES ASSUME NEW j \in DOMAIN u, NEW k \in DOMAIN t PROVE u[j] < t[k]
    BY DEF Before
  <2>1. CASE j = Len(seq) + 1
    BY <1>3, <1>7, <2>1
  <2>2. CASE j \in 1..Len(seq)
    BY <1>3, <1>6, <2>2 DEF Before
  <2> QED BY <1>3, <2>1, <2>2
<1>9. \A n : UpTo(later, n) => UpTo(t, n) /\ h <= n
  <2> SUFFICES ASSUME NEW n, UpTo(later, n) PROVE UpTo(t, n) /\ h <= n
    OBVIOUS
  <2>1. h <= n
    BY <1>2 DEF UpTo
  <2>2. UpTo(t, n)
    BY <1>10 DEF UpTo
  <2> QED BY <2>1, <2>2
<1> QED BY <1>1, <1>2, <1>4, <1>5, <1>6, <1>8, <1>9

(* What is replayed is the end of the log, in its order.                   *)
LEMMA TailOfLog ==
  ASSUME NEW n \in 0..MaxRows
  PROVE  /\ AuditTail(n) \in Seq(1..MaxRows) /\ Rising(AuditTail(n)) /\ UpTo(AuditTail(n), n)
<1>1. n \in Nat /\ MaxRows \in Nat /\ n <= MaxRows /\ TailSize \in Nat
  BY StreamAssumption
<1>2. PICK m : m = IF n < TailSize THEN n ELSE TailSize
  OBVIOUS
<1>3. m \in Nat /\ m <= n
  BY <1>1, <1>2
<1>4. PICK s : s = NewestFirst(n)
  OBVIOUS
<1>5. s = [k \in 1..m |-> n + 1 - k]
  BY <1>2, <1>4 DEF NewestFirst
<1>6. s \in Seq(Int) /\ Len(s) = m
  BY <1>1, <1>3, <1>5
<1>7. AuditTail(n) = [i \in 1..m |-> s[m - i + 1]]
  BY <1>4, <1>6 DEF AuditTail, Reverse
<1>8. \A i \in 1..m : m - i + 1 \in 1..m /\ s[m - i + 1] = n - m + i /\ n - m + i \in 1..MaxRows /\ n - m + i <= n
  BY <1>1, <1>3, <1>5
<1>9. PICK t : t = AuditTail(n)
  OBVIOUS
<1>10. t = [i \in 1..m |-> n - m + i]
  BY <1>7, <1>8, <1>9
<1>11. t \in Seq(1..MaxRows) /\ DOMAIN t = 1..m /\ \A i \in 1..m : t[i] = n - m + i
  BY <1>3, <1>8, <1>10
<1>12. Rising(t) /\ UpTo(t, n)
  BY <1>1, <1>3, <1>8, <1>11 DEF Rising, UpTo
<1> QED BY <1>9, <1>11, <1>12

-----------------------------------------------------------------------------
(* One stream moves; the log stands still.                                 *)
LEMMA OneStream ==
  ASSUME WatchInv, NEW w \in Watchers, NEW s, watch' = [watch EXCEPT ![w] = s],
         StreamOK(s, rows), Listed(s, w \in listeners'), rows' = rows, listeners' \subseteq Watchers,
         \A v \in Watchers : v # w => (v \in listeners' <=> v \in listeners)
  PROVE  WatchInv'
<1>1. s \in Streams /\ watch \in [Watchers -> Streams]
  BY DEF StreamOK, WatchInv
<1>2. watch' \in [Watchers -> Streams] /\ watch'[w] = s /\ \A v \in Watchers : v # w => watch'[v] = watch[v]
  BY <1>1
<1>3. ASSUME NEW v \in Watchers PROVE StreamOK(watch'[v], rows)
  <2>1. CASE v = w
    BY <1>2, <2>1
  <2>2. CASE v # w
    <3>1. watch'[v] = watch[v] /\ StreamOK(watch[v], rows)
      BY <1>2, <2>2 DEF WatchInv
    <3> QED BY <3>1
  <2> QED BY <2>1, <2>2
<1>4. ASSUME NEW v \in Watchers PROVE Listed(watch'[v], v \in listeners')
  <2>1. CASE v = w
    BY <1>2, <2>1
  <2>2. CASE v # w
    <3>1. watch'[v] = watch[v] /\ Listed(watch[v], v \in listeners)
      BY <1>2, <2>2 DEF WatchInv
    <3>2. v \in listeners' <=> v \in listeners
      BY <2>2
    <3> QED BY <3>1, <3>2 DEF Listed
  <2> QED BY <2>1, <2>2
<1>5. rows' \in 0..MaxRows /\ \A v \in Watchers : StreamOK(watch'[v], rows')
  BY <1>3 DEF WatchInv
<1> QED BY <1>2, <1>4, <1>5 DEF WatchInv

(* A stream goes on with its replay, or listens.                           *)
Replaying(s) ==
  /\ s \in Streams /\ s.pc = "replaying"
  /\ Rising(s.sent) /\ UpTo(s.sent, rows) /\ s.since <= rows
  /\ Rising(s.replay) /\ UpTo(s.replay, rows) /\ Before(s.sent, s.replay)

LEMMA ProceedKeeps ==
  ASSUME WatchInv, NEW w \in Watchers, w \notin listeners, NEW s, Replaying(s), Proceed(w, s), rows' = rows
  PROVE  WatchInv'
<1>1. s \in Streams /\ s.pc = "replaying" /\ rows \in Nat
  BY StreamAssumption DEF Replaying, WatchInv
<1>2. CASE s.replay = <<>>
  <2>1. PICK replay, sent, since, aborted, pc :
          /\ s = [pc |-> "replaying", replay |-> replay, sent |-> sent, since |-> since, aborted |-> aborted]
          /\ sent \in Seq(1..MaxRows) /\ aborted \in BOOLEAN
          /\ pc = IF aborted THEN "over" ELSE "live"
    BY <1>1 DEF Streams
  <2>2. PICK x : x = Listening(s)
    OBVIOUS
  <2>3. x = [s EXCEPT !.replay = <<>>, !.since = rows, !.pc = pc]
    BY <2>1, <2>2 DEF Listening
  <2>4. x = [pc |-> pc, replay |-> <<>>, sent |-> sent, since |-> rows, aborted |-> aborted]
    BY ONLY <2>1, <2>3
  <2>5. watch' = [watch EXCEPT ![w] = x] /\ listeners' = listeners \cup {w}
    BY <1>2, <2>2 DEF Proceed
  <2>6. x.pc = pc /\ x.sent = sent /\ x.since = rows /\ x.aborted = aborted /\ x.replay = <<>>
    BY <2>4
  <2>7. Rising(x.sent) /\ UpTo(x.sent, rows)
    BY <2>1, <2>6 DEF Replaying
  <2>8. x \in Streams
    BY <1>1, <2>1, <2>4 DEF Streams
  <2>9. (rows + 1)..rows = {}
    BY <1>1
  <2>10. StreamOK(x, rows)
    BY <1>1, <2>1, <2>6, <2>7, <2>8, <2>9 DEF StreamOK
  <2>11. Listed(x, w \in listeners')
    BY <2>1, <2>5, <2>6, <2>7 DEF Listed
  <2>12. listeners' \subseteq Watchers
    BY <2>5 DEF WatchInv
  <2>13. \A v \in Watchers : v # w => (v \in listeners' <=> v \in listeners)
    BY <2>5
  <2> QED BY <2>5, <2>10, <2>11, <2>12, <2>13, OneStream
<1>3. CASE s.replay # <<>>
  <2>1. watch' = [watch EXCEPT ![w] = s] /\ listeners' = listeners
    BY <1>3 DEF Proceed
  <2>2. StreamOK(s, rows)
    BY <1>1, <1>3 DEF Replaying, StreamOK
  <2>3. Listed(s, w \in listeners')
    BY <1>1, <2>1 DEF Listed
  <2>4. listeners' \subseteq Watchers
    BY <2>1 DEF WatchInv
  <2> QED BY <2>1, <2>2, <2>3, <2>4, OneStream
<1> QED BY <1>2, <1>3

LEMMA WatchInitially == StreamInit => WatchInv /\ TelemetryInv
<1> SUFFICES ASSUME StreamInit PROVE WatchInv /\ TelemetryInv
  OBVIOUS
<1>0. MaxRows \in Nat /\ ErrorRing \in Nat /\ SpanRing \in Nat /\ EventRing \in Nat
  BY StreamAssumption
<1>1. PICK u : u = Unwatched
  OBVIOUS
<1>2. /\ u \in Streams /\ u.pc = "none" /\ u.replay = <<>> /\ u.sent = <<>> /\ u.since = 0 /\ ~u.aborted
  BY <1>1 DEF Unwatched, Streams
<1>3. Rising(u.sent) /\ UpTo(u.sent, 0)
  BY <1>2 DEF Rising, UpTo
<1>4. StreamOK(u, 0) /\ ~(u.pc = "live")
  BY <1>2, <1>3 DEF StreamOK
<1>5. watch \in [Watchers -> Streams] /\ \A w \in Watchers : watch[w] = u
  BY <1>1, <1>2 DEF StreamInit
<1>6. rows = 0 /\ listeners = {}
  BY DEF StreamInit
<1>7. WatchInv
  BY <1>0, <1>4, <1>5, <1>6 DEF WatchInv, Listed
<1>8. spans = <<>> /\ events = <<>> /\ captured = <<>>
  BY DEF StreamInit
<1>9. Errors(spans) = {} /\ Cardinality({}) = 0
  BY <1>8, FS_EmptySet DEF Errors
<1>10. TelemetryInv
  BY <1>0, <1>8, <1>9 DEF TelemetryInv, Fewer
<1> QED BY <1>7, <1>10

LEMMA WatchStep == WatchInv /\ [StreamNext]_streamVars => WatchInv'
<1> SUFFICES ASSUME WatchInv, [StreamNext]_streamVars PROVE WatchInv'
  OBVIOUS
<1>0. rows \in Nat /\ MaxRows \in Nat /\ rows <= MaxRows /\ listeners \subseteq Watchers
  BY StreamAssumption DEF WatchInv
<1>1. ASSUME NEW w \in Watchers
      PROVE  /\ StreamOK(watch[w], rows) /\ watch[w] \in Streams
             /\ Listed(watch[w], w \in listeners)
  BY DEF WatchInv
<1>2. ASSUME NEW w \in Watchers, OpenStream(w) PROVE WatchInv'
  <2>1. PICK s, x : s = watch[w] /\ x = [s EXCEPT !.pc = "greeting"]
    OBVIOUS
  <2>2. s.pc = "none" /\ watch' = [watch EXCEPT ![w] = x] /\ rows' = rows /\ listeners' = listeners
    BY <1>2, <2>1 DEF OpenStream, WatchInv
  <2>3. StreamOK(s, rows) /\ s \in Streams /\ w \notin listeners
    BY <1>1, <2>1, <2>2 DEF Listed
  <2>4. PICK replay, sent, since, aborted :
          s = [pc |-> "none", replay |-> replay, sent |-> sent, since |-> since, aborted |-> aborted]
          /\ since \in Nat /\ aborted \in BOOLEAN
    BY <2>2, <2>3 DEF Streams
  <2>5. x = [pc |-> "greeting", replay |-> replay, sent |-> sent, since |-> since, aborted |-> aborted]
    BY ONLY <2>1, <2>4
  <2>6. replay = <<>> /\ sent = <<>> /\ ~aborted /\ since <= rows
    BY <2>2, <2>3, <2>4 DEF StreamOK
  <2>7. x \in Streams /\ x.pc = "greeting" /\ x.sent = <<>> /\ x.replay = <<>> /\ x.since <= rows
    BY <2>4, <2>5, <2>6 DEF Streams
  <2>8. Rising(x.sent) /\ UpTo(x.sent, rows)
    BY <2>7 DEF Rising, UpTo
  <2>9. StreamOK(x, rows)
    BY <2>7, <2>8 DEF StreamOK
  <2>10. Listed(x, w \in listeners') /\ listeners' \subseteq Watchers
    BY <1>0, <2>2, <2>3, <2>7 DEF Listed
  <2> QED BY <2>2, <2>9, <2>10, OneStream
<1>3. ASSUME NEW w \in Watchers, Greeted(w) PROVE WatchInv'
  <2>1. PICK s, t : s = watch[w] /\ t = AuditTail(rows)
    OBVIOUS
  <2>2. PICK x : x = [s EXCEPT !.pc = "replaying", !.replay = t]
    OBVIOUS
  <2>3. s.pc = "greeting" /\ Proceed(w, x) /\ rows' = rows
    BY <1>3, <2>1, <2>2 DEF Greeted
  <2>4. StreamOK(s, rows) /\ s \in Streams /\ w \notin listeners
    BY <1>1, <2>1, <2>3 DEF Listed
  <2>5. PICK replay, sent, since, aborted :
          s = [pc |-> "greeting", replay |-> replay, sent |-> sent, since |-> since, aborted |-> aborted]
          /\ since \in Nat /\ aborted \in BOOLEAN
    BY <2>3, <2>4 DEF Streams
  <2>6. x = [pc |-> "replaying", replay |-> t, sent |-> sent, since |-> since, aborted |-> aborted]
    BY ONLY <2>2, <2>5
  <2>7. sent = <<>> /\ since <= rows
    BY <2>3, <2>4, <2>5 DEF StreamOK
  <2>8. t \in Seq(1..MaxRows) /\ Rising(t) /\ UpTo(t, rows)
    BY <1>0, <2>1, TailOfLog
  <2>9. /\ x \in Streams /\ x.pc = "replaying" /\ x.sent = <<>> /\ x.since <= rows /\ x.replay = t
    BY <2>5, <2>6, <2>7, <2>8 DEF Streams
  <2>10. Rising(x.sent) /\ UpTo(x.sent, rows) /\ Before(x.sent, x.replay)
    BY <2>9 DEF Rising, UpTo, Before
  <2>11. Replaying(x)
    BY <2>8, <2>9, <2>10 DEF Replaying
  <2> QED BY <2>3, <2>4, <2>11, ProceedKeeps
<1>4. ASSUME NEW w \in Watchers, ReplayRow(w) PROVE WatchInv'
  <2>1. PICK s, x : s = watch[w]
                    /\ x = [s EXCEPT !.sent = IF s.aborted THEN @ ELSE Append(@, Head(s.replay)), !.replay = Tail(@)]
    OBVIOUS
  <2>2. s.pc = "replaying" /\ Proceed(w, x) /\ rows' = rows
    BY <1>4, <2>1 DEF ReplayRow
  <2>3. StreamOK(s, rows) /\ s \in Streams /\ w \notin listeners
    BY <1>1, <2>1, <2>2 DEF Listed
  <2>4. PICK replay, sent, since, aborted :
          s = [pc |-> "replaying", replay |-> replay, sent |-> sent, since |-> since, aborted |-> aborted]
          /\ since \in Nat /\ aborted \in BOOLEAN /\ sent \in Seq(1..MaxRows) /\ replay \in Seq(1..MaxRows)
    BY <2>2, <2>3 DEF Streams
  <2>5. PICK more, rest : more = (IF aborted THEN sent ELSE Append(sent, Head(replay))) /\ rest = Tail(replay)
    OBVIOUS
  <2>6. x = [s EXCEPT !.sent = more, !.replay = rest]
    <3>1. s.aborted = aborted /\ s.sent = sent /\ s.replay = replay
      BY ONLY <2>4
    <3>2. x = [s EXCEPT !.sent = IF s.aborted THEN s.sent ELSE Append(s.sent, Head(s.replay)), !.replay = Tail(s.replay)]
      BY <2>1
    <3> QED BY ONLY <2>5, <3>1, <3>2
  <2>7. x = [pc |-> "replaying", replay |-> rest, sent |-> more, since |-> since, aborted |-> aborted]
    BY ONLY <2>4, <2>6
  <2>8. /\ Rising(sent) /\ UpTo(sent, rows) /\ since <= rows /\ Rising(replay) /\ UpTo(replay, rows)
        /\ replay # <<>> /\ Before(sent, replay)
    BY <2>2, <2>3, <2>4 DEF StreamOK
  <2>9. /\ rest \in Seq(1..MaxRows) /\ Rising(rest) /\ UpTo(rest, rows) /\ Head(replay) \in 1..MaxRows
        /\ Head(replay) <= rows /\ Before(sent, rest) /\ Before(Append(sent, Head(replay)), rest)
        /\ \A k \in DOMAIN sent : sent[k] < Head(replay)
    BY <2>4, <2>5, <2>8, ReplayNext
  <2>10. /\ more \in Seq(1..MaxRows) /\ Rising(more) /\ UpTo(more, rows) /\ Before(more, rest)
    <3>1. CASE aborted
      BY <2>4, <2>5, <2>8, <2>9, <3>1
    <3>2. CASE ~aborted
      <4>1. more = Append(sent, Head(replay))
        BY <2>5, <3>2
      <4>2. PICK h \in 1..MaxRows : h = Head(replay)
        BY <2>9
      <4>3. more \in Seq(1..MaxRows) /\ Rising(more) /\ UpTo(more, h)
        BY <2>4, <2>8, <2>9, <4>1, <4>2, SentNext
      <4>4. \A k \in DOMAIN more : more[k] \in Nat
        BY <1>0, <4>3
      <4>5. UpTo(more, rows)
        BY <1>0, <2>9, <4>2, <4>3, <4>4 DEF UpTo
      <4> QED BY <2>9, <4>1, <4>3, <4>5
    <3> QED BY <3>1, <3>2
  <2>11. x \in Streams /\ x.pc = "replaying" /\ x.sent = more /\ x.since = since /\ x.replay = rest
    BY <2>4, <2>7, <2>9, <2>10 DEF Streams
  <2>12. Replaying(x)
    BY <2>8, <2>9, <2>10, <2>11 DEF Replaying
  <2> QED BY <2>2, <2>3, <2>12, ProceedKeeps
<1>5. ASSUME NEW w \in Watchers, DropStream(w) PROVE WatchInv'
  <2>1. PICK s, pc : s = watch[w] /\ pc = IF s.pc = "live" THEN "over" ELSE s.pc
    OBVIOUS
  <2>2. PICK x : x = [s EXCEPT !.aborted = TRUE, !.pc = pc]
    OBVIOUS
  <2>3. /\ s.pc \in {"greeting", "replaying", "live"} /\ ~s.aborted /\ rows' = rows
        /\ listeners' = (IF s.pc = "live" THEN listeners \ {w} ELSE listeners)
    BY <1>5, <2>1 DEF DropStream, Unsubscribed
  <2>4. watch' = [watch EXCEPT ![w] = x]
    BY <1>5, <2>1, <2>2 DEF DropStream, WatchInv
  <2>5. StreamOK(s, rows) /\ s \in Streams /\ (w \in listeners => s.pc = "live")
    BY <1>1, <2>1, <2>3 DEF Listed
  <2>6. PICK pc0, replay, sent, since, aborted :
          /\ s = [pc |-> pc0, replay |-> replay, sent |-> sent, since |-> since, aborted |-> aborted]
          /\ since \in Nat /\ aborted \in BOOLEAN /\ sent \in Seq(1..MaxRows) /\ replay \in Seq(1..MaxRows)
    BY <2>5 DEF Streams
  <2>7. x = [pc |-> pc, replay |-> replay, sent |-> sent, since |-> since, aborted |-> TRUE]
    BY ONLY <2>2, <2>6
  <2>8. /\ x.pc = pc /\ x.replay = s.replay /\ x.sent = s.sent /\ x.since = s.since /\ x.aborted
    BY ONLY <2>6, <2>7
  <2>9. pc \in {"greeting", "replaying", "over"} /\ (pc # "over" => pc = s.pc)
    BY <2>1, <2>3
  <2>10. x \in Streams
    BY <2>6, <2>7, <2>9 DEF Streams
  <2>11. StreamOK(x, rows)
    BY <2>5, <2>8, <2>9, <2>10 DEF StreamOK
  <2>12. w \notin listeners' /\ listeners' \subseteq Watchers /\ \A v \in Watchers : v # w => (v \in listeners' <=> v \in listeners)
    BY <1>0, <2>3, <2>5
  <2>13. Listed(x, w \in listeners')
    BY <2>8, <2>9, <2>12 DEF Listed
  <2> QED BY <2>3, <2>4, <2>11, <2>12, <2>13, OneStream
<1>6. ASSUME PublishCommitted PROVE WatchInv'
  <2>1. PICK n : n = rows + 1
    OBVIOUS
  <2>2. /\ n \in 1..MaxRows /\ n \in Nat /\ rows < n /\ rows' = n /\ listeners' = listeners
    BY <1>0, <1>6, <2>1 DEF PublishCommitted
  <2>3. ASSUME NEW w \in Watchers
        PROVE  watch'[w] = IF w \in listeners /\ ~watch[w].aborted
                           THEN [watch[w] EXCEPT !.sent = Append(@, n)] ELSE watch[w]
    BY <1>6, <2>1 DEF PublishCommitted
  <2>4. ASSUME NEW w \in Watchers
        PROVE  StreamOK(watch'[w], n) /\ Listed(watch'[w], w \in listeners)
    <3>1. PICK s : s = watch[w]
      OBVIOUS
    <3>2. StreamOK(s, rows) /\ s \in Streams /\ Listed(s, w \in listeners)
      BY <1>1, <3>1
    <3>3. CASE w \in listeners /\ ~s.aborted
      <4>1. s.pc = "live"
        BY <3>2, <3>3 DEF Listed, StreamOK
      <4>2. PICK replay, sent, since, aborted :
              /\ s = [pc |-> "live", replay |-> replay, sent |-> sent, since |-> since, aborted |-> aborted]
              /\ since \in Nat /\ aborted \in BOOLEAN /\ sent \in Seq(1..MaxRows) /\ replay \in Seq(1..MaxRows)
        BY <3>2, <4>1 DEF Streams
      <4>3. PICK more, x : more = Append(sent, n) /\ x = [s EXCEPT !.sent = more]
        OBVIOUS
      <4>4. watch'[w] = x
        <5>1. s.sent = sent
          BY ONLY <4>2
        <5>2. watch'[w] = [s EXCEPT !.sent = Append(s.sent, n)]
          BY <2>3, <3>1, <3>3
        <5> QED BY <4>3, <5>1, <5>2
      <4>5. x = [pc |-> "live", replay |-> replay, sent |-> more, since |-> since, aborted |-> aborted]
        BY ONLY <4>2, <4>3
      <4>6. /\ Rising(sent) /\ UpTo(sent, rows) /\ since <= rows /\ ~aborted /\ ((since + 1)..rows) \subseteq ToSet(sent)
        BY <3>2, <4>2 DEF StreamOK
      <4>7. \A k \in DOMAIN sent : sent[k] < n
        <5>1. \A k \in DOMAIN sent : sent[k] \in Nat /\ sent[k] <= rows
          BY <1>0, <4>2, <4>6 DEF UpTo
        <5> QED BY <1>0, <2>2, <5>1
      <4>8. more \in Seq(1..MaxRows) /\ Rising(more) /\ UpTo(more, n) /\ ToSet(sent) \cup {n} \subseteq ToSet(more)
        BY <2>2, <4>2, <4>3, <4>6, <4>7, SentNext
      <4>9. ((since + 1)..n) \subseteq ToSet(more)
        <5>1. \A k \in (since + 1)..n : k \in (since + 1)..rows \/ k = n
          BY <1>0, <2>1, <4>2
        <5> QED BY <4>6, <4>8, <5>1
      <4>10. /\ x \in Streams /\ x.pc = "live" /\ x.sent = more /\ x.since = since /\ x.aborted = aborted
        BY <4>2, <4>5, <4>8 DEF Streams
      <4>11. since <= n
        BY <1>0, <2>2, <4>2, <4>6
      <4>12. StreamOK(x, n)
        BY <4>6, <4>8, <4>9, <4>10, <4>11 DEF StreamOK
      <4>13. Listed(x, w \in listeners)
        BY <3>3, <4>10 DEF Listed
      <4> QED BY <4>4, <4>12, <4>13
    <3>4. CASE ~(w \in listeners /\ ~s.aborted)
      <4>1. watch'[w] = s
        BY <2>3, <3>1, <3>4
      <4>2. s.pc # "live"
        BY <3>2, <3>4 DEF Listed, StreamOK
      <4>3. UpTo(s.sent, n) /\ s.since <= n
        <5>1. \A k \in DOMAIN s.sent : s.sent[k] \in Nat /\ s.sent[k] <= rows
          BY <1>0, <3>2 DEF StreamOK, Streams, UpTo
        <5>2. s.since \in Nat /\ s.since <= rows
          BY <3>2 DEF StreamOK, Streams
        <5> QED BY <1>0, <2>2, <5>1, <5>2 DEF UpTo
      <4>4. s.pc = "replaying" => UpTo(s.replay, n)
        <5>1. s.pc = "replaying" => \A k \in DOMAIN s.replay : s.replay[k] \in Nat /\ s.replay[k] <= rows
          BY <1>0, <3>2 DEF StreamOK, Streams, UpTo
        <5> QED BY <1>0, <2>2, <5>1 DEF UpTo
      <4>5. StreamOK(s, n)
        BY <3>2, <4>2, <4>3, <4>4 DEF StreamOK
      <4> QED BY <3>2, <4>1, <4>5
    <3> QED BY <3>3, <3>4
  <2>5. watch' \in [Watchers -> Streams]
    <3>1. \A w \in Watchers : watch'[w] \in Streams
      BY <2>4 DEF StreamOK
    <3>2. watch' = [w \in Watchers |-> watch'[w]]
      BY <1>6 DEF PublishCommitted
    <3> QED BY <3>1, <3>2
  <2>6. rows' \in 0..MaxRows /\ listeners' \subseteq Watchers
    BY <1>0, <2>2
  <2>7. \A w \in Watchers : StreamOK(watch'[w], rows') /\ Listed(watch'[w], w \in listeners')
    BY <2>2, <2>4
  <2> QED BY <2>5, <2>6, <2>7 DEF WatchInv
<1>7. ASSUME (\E ok \in BOOLEAN : SpanEnds(ok)) \/ TrackEvent \/ UNCHANGED streamVars PROVE WatchInv'
  <2>1. rows' = rows /\ listeners' = listeners /\ watch' = watch
    BY <1>7 DEF SpanEnds, TrackEvent, streamVars
  <2> QED BY <2>1 DEF WatchInv
<1> QED BY <1>2, <1>3, <1>4, <1>5, <1>6, <1>7 DEF StreamNext

-----------------------------------------------------------------------------
(* The buffers of the telemetry.                                           *)
LEMMA ErrorsCounted ==
  ASSUME NEW ring \in Seq({"ok", "error"})
  PROVE  IsFiniteSet(Errors(ring)) /\ Cardinality(Errors(ring)) \in Nat
<1>1. Len(ring) \in Nat /\ Errors(ring) \subseteq 1..Len(ring)
  BY DEF Errors
<1>2. IsFiniteSet(1..Len(ring))
  BY <1>1, FS_Interval
<1>3. IsFiniteSet(Errors(ring))
  BY <1>1, <1>2, FS_Subset
<1> QED BY <1>3, FS_CardinalityType

(* One that is pushed out may have been an error, one that comes in may be.*)
LEMMA TailErrors ==
  ASSUME NEW ring \in Seq({"ok", "error"}), ring # <<>>
  PROVE  Cardinality(Errors(Tail(ring))) <= Cardinality(Errors(ring))
<1>1. PICK t, S, T : t = Tail(ring) /\ S = Errors(t) /\ T = Errors(ring)
  OBVIOUS
<1>2. /\ DOMAIN ring = 1..Len(ring) /\ DOMAIN t = 1..(Len(ring) - 1) /\ Len(ring) \in Nat \ {0}
      /\ \A k \in 1..(Len(ring) - 1) : t[k] = ring[k + 1]
  BY <1>1
<1>3. \A k \in S : k \in Nat /\ k + 1 \in T
  BY <1>1, <1>2 DEF Errors
<1>4. PICK f : f = [k \in S |-> k + 1]
  OBVIOUS
<1>5. f \in [S -> T] /\ \A j, k \in S : f[j] = f[k] => j = k
  BY <1>3, <1>4
<1>6. f \in Injection(S, T)
  BY <1>5 DEF Injection, IsInjective
<1>7. IsFiniteSet(T)
  BY <1>1, ErrorsCounted
<1> QED BY <1>1, <1>6, <1>7, FS_Injection

LEMMA AppendErrors ==
  ASSUME NEW ring \in Seq({"ok", "error"}), NEW x \in {"ok", "error"}
  PROVE  Cardinality(Errors(Append(ring, x))) = Cardinality(Errors(ring)) + (IF x = "error" THEN 1 ELSE 0)
<1>1. PICK t : t = Append(ring, x)
  OBVIOUS
<1>2. /\ DOMAIN ring = 1..Len(ring) /\ DOMAIN t = 1..(Len(ring) + 1) /\ Len(ring) \in Nat
      /\ t[Len(ring) + 1] = x /\ \A k \in 1..Len(ring) : t[k] = ring[k]
  BY <1>1
<1>3. IsFiniteSet(Errors(ring)) /\ Cardinality(Errors(ring)) \in Nat
  BY ErrorsCounted
<1>4. \A k \in DOMAIN t : k \in 1..Len(ring) \/ k = Len(ring) + 1
  BY <1>2
<1>5. Len(ring) + 1 \notin Errors(ring)
  BY <1>2 DEF Errors
<1>6. CASE x = "error"
  <2>1. Errors(t) = Errors(ring) \cup {Len(ring) + 1}
    BY <1>2, <1>4, <1>6 DEF Errors
  <2> QED BY <1>1, <1>3, <1>5, <1>6, <2>1, FS_AddElement
<1>7. CASE x = "ok"
  <2>1. Errors(t) = Errors(ring)
    BY <1>2, <1>4, <1>7 DEF Errors
  <2> QED BY <1>1, <1>3, <1>7, <2>1
<1> QED BY <1>6, <1>7

LEMMA PushedErrors ==
  ASSUME NEW ring \in Seq({"ok", "error"}), NEW x \in {"ok", "error"}, NEW capacity \in Nat \ {0}
  PROVE  Cardinality(Errors(Pushed(ring, x, capacity))) <= Cardinality(Errors(ring)) + (IF x = "error" THEN 1 ELSE 0)
<1>0. Cardinality(Errors(ring)) \in Nat /\ Len(ring) \in Nat
  BY ErrorsCounted
<1>1. CASE Len(ring) >= capacity
  <2>1. ring # <<>>
    BY <1>1
  <2>2. PICK t \in Seq({"ok", "error"}) : t = Tail(ring)
    BY <2>1, HeadTailProperties
  <2>3. Cardinality(Errors(t)) <= Cardinality(Errors(ring)) /\ Cardinality(Errors(t)) \in Nat
    BY <2>1, <2>2, TailErrors, ErrorsCounted
  <2>4. Cardinality(Errors(Append(t, x))) = Cardinality(Errors(t)) + (IF x = "error" THEN 1 ELSE 0)
    BY AppendErrors
  <2>5. Pushed(ring, x, capacity) = Append(t, x)
    BY <1>1, <2>2 DEF Pushed
  <2> QED BY <1>0, <2>3, <2>4, <2>5
<1>2. CASE ~(Len(ring) >= capacity)
  <2>1. Cardinality(Errors(Append(ring, x))) = Cardinality(Errors(ring)) + (IF x = "error" THEN 1 ELSE 0)
    BY AppendErrors
  <2>2. Pushed(ring, x, capacity) = Append(ring, x)
    BY <1>2 DEF Pushed
  <2>3. Cardinality(Errors(ring)) + (IF x = "error" THEN 1 ELSE 0) \in Nat
    BY <1>0
  <2> QED BY <2>1, <2>2, <2>3
<1> QED BY <1>1, <1>2

LEMMA PushedLength ==
  ASSUME NEW S, NEW ring \in Seq(S), NEW x \in S, NEW capacity \in Nat \ {0}, Len(ring) <= capacity
  PROVE  /\ Pushed(ring, x, capacity) \in Seq(S)
         /\ Len(Pushed(ring, x, capacity)) = IF Len(ring) < capacity THEN Len(ring) + 1 ELSE capacity
<1>0. Len(ring) \in Nat
  OBVIOUS
<1>1. CASE Len(ring) >= capacity
  <2>1. Len(ring) = capacity /\ ring # <<>>
    BY <1>0, <1>1
  <2>2. PICK t \in Seq(S) : t = Tail(ring) /\ Len(t) = capacity - 1
    BY <2>1, HeadTailProperties
  <2>3. Pushed(ring, x, capacity) = Append(t, x)
    BY <1>1, <2>2 DEF Pushed
  <2>4. Append(t, x) \in Seq(S) /\ Len(Append(t, x)) = Len(t) + 1
    OBVIOUS
  <2> QED BY <2>1, <2>2, <2>3, <2>4
<1>2. CASE ~(Len(ring) >= capacity)
  <2>1. Pushed(ring, x, capacity) = Append(ring, x)
    BY <1>2 DEF Pushed
  <2> QED BY <1>0, <1>2, <2>1
<1> QED BY <1>1, <1>2

LEMMA TelemetryStep == TelemetryInv /\ Len(captured) <= ErrorRing /\ [StreamNext]_streamVars
                         => (TelemetryInv /\ Len(captured) <= ErrorRing)'
<1> SUFFICES ASSUME TelemetryInv, Len(captured) <= ErrorRing, [StreamNext]_streamVars
             PROVE  TelemetryInv' /\ Len(captured') <= ErrorRing
  OBVIOUS
<1>0. /\ SpanRing \in Nat \ {0} /\ EventRing \in Nat \ {0} /\ ErrorRing \in Nat \ {0}
      /\ spans \in Seq({"ok", "error"}) /\ events \in Seq({"event"}) /\ captured \in Seq({"error"})
      /\ Len(spans) <= SpanRing /\ Len(events) <= EventRing
  BY StreamAssumption DEF TelemetryInv
<1>1. Cardinality(Errors(spans)) \in Nat /\ Len(captured) \in Nat
  BY <1>0, ErrorsCounted
<1>2. Len(captured) >= Fewer(Cardinality(Errors(spans)), ErrorRing)
  BY DEF TelemetryInv
<1>3. ASSUME NEW ok \in BOOLEAN, SpanEnds(ok) PROVE TelemetryInv' /\ Len(captured') <= ErrorRing
  <2>1. PICK x \in {"ok", "error"} : x = IF ok THEN "ok" ELSE "error"
    OBVIOUS
  <2>2. /\ spans' = Pushed(spans, x, SpanRing) /\ events' = events
        /\ captured' = IF ok THEN captured ELSE Pushed(captured, "error", ErrorRing)
    BY <1>3, <2>1 DEF SpanEnds
  <2>3. PICK s : s = Pushed(spans, x, SpanRing)
    OBVIOUS
  <2>4. s \in Seq({"ok", "error"}) /\ Len(s) <= SpanRing
    <3>1. PICK S : S = {"ok", "error"}
      OBVIOUS
    <3>2. x \in S /\ spans \in Seq(S)
      BY <1>0, <2>1, <3>1
    <3>3. s \in Seq(S) /\ Len(s) = IF Len(spans) < SpanRing THEN Len(spans) + 1 ELSE SpanRing
      BY <1>0, <2>3, <3>2, PushedLength
    <3>4. Len(spans) \in Nat
      BY <1>0
    <3> QED BY <1>0, <3>1, <3>3, <3>4
  <2>5. /\ Cardinality(Errors(s)) <= Cardinality(Errors(spans)) + (IF x = "error" THEN 1 ELSE 0)
        /\ Cardinality(Errors(s)) \in Nat
    BY <1>0, <2>3, <2>4, PushedErrors, ErrorsCounted
  <2>6. spans' = s
    BY <2>2, <2>3
  <2>7. CASE ok
    <3>1. x = "ok" /\ captured' = captured
      BY <2>1, <2>2, <2>7
    <3>2. Len(captured) >= Fewer(Cardinality(Errors(s)), ErrorRing)
      BY <1>0, <1>1, <1>2, <2>5, <3>1 DEF Fewer
    <3> QED BY <1>0, <2>2, <2>4, <2>6, <3>1, <3>2 DEF TelemetryInv
  <2>8. CASE ~ok
    <3>1. PICK c : c = Pushed(captured, "error", ErrorRing)
      OBVIOUS
    <3>2. x = "error" /\ captured' = c
      BY <2>1, <2>2, <2>8, <3>1
    <3>3. c \in Seq({"error"}) /\ Len(c) = IF Len(captured) < ErrorRing THEN Len(captured) + 1 ELSE ErrorRing
      BY <1>0, <3>1, PushedLength
    <3>4. Len(c) >= Fewer(Cardinality(Errors(s)), ErrorRing) /\ Len(c) <= ErrorRing
      BY <1>0, <1>1, <1>2, <2>5, <3>2, <3>3 DEF Fewer
    <3> QED BY <1>0, <2>2, <2>4, <2>6, <3>2, <3>3, <3>4 DEF TelemetryInv
  <2> QED BY <2>7, <2>8
<1>4. ASSUME TrackEvent PROVE TelemetryInv' /\ Len(captured') <= ErrorRing
  <2>1. events' = Pushed(events, "event", EventRing) /\ spans' = spans /\ captured' = captured
    BY <1>4 DEF TrackEvent
  <2>2. Pushed(events, "event", EventRing) \in Seq({"event"}) /\ Len(Pushed(events, "event", EventRing)) <= EventRing
    <3>1. PICK S : S = {"event"}
      OBVIOUS
    <3>2. "event" \in S /\ events \in Seq(S)
      BY <1>0, <3>1
    <3>3. /\ Pushed(events, "event", EventRing) \in Seq(S)
          /\ Len(Pushed(events, "event", EventRing)) = IF Len(events) < EventRing THEN Len(events) + 1 ELSE EventRing
      BY <1>0, <3>2, PushedLength
    <3>4. Len(events) \in Nat
      BY <1>0
    <3> QED BY <1>0, <3>1, <3>3, <3>4
  <2> QED BY <1>0, <1>2, <2>1, <2>2 DEF TelemetryInv
<1>5. ASSUME (\E w \in Watchers : OpenStream(w) \/ Greeted(w) \/ ReplayRow(w) \/ DropStream(w))
             \/ PublishCommitted \/ UNCHANGED streamVars
      PROVE  TelemetryInv' /\ Len(captured') <= ErrorRing
  <2>1. UNCHANGED telemetryVars
    BY <1>5 DEF OpenStream, Greeted, ReplayRow, DropStream, PublishCommitted, streamVars, telemetryVars
  <2> QED BY <2>1 DEF telemetryVars, TelemetryInv
<1> QED BY <1>3, <1>4, <1>5 DEF StreamNext

LEMMA StreamInductive == StreamSpec => [](WatchInv /\ TelemetryInv)
<1>1. StreamInit => Len(captured) <= ErrorRing
  BY StreamAssumption DEF StreamInit
<1> QED BY <1>1, WatchInitially, WatchStep, TelemetryStep, PTL DEF StreamSpec

(* The rows, listeners and streams have their types.                       *)
THEOREM StreamTypeCorrect == StreamSpec => []StreamTypeOK
<1>1. WatchInv => StreamTypeOK
  BY DEF WatchInv, StreamTypeOK, Streams
<1> QED BY <1>1, StreamInductive, PTL

(* For any number of streams, rows and spans and any capacities: a stream  *)
(* sends rows in order and none twice and misses none while it listens, an *)
(* abandoned listener is one whose client left before it listened, and the *)
(* buffers keep their bounds (auditStream.ts, telemetry/index.ts).         *)
THEOREM StreamAlwaysTrue == StreamSpec => []WatchedTrue
<1>1. ASSUME WatchInv, TelemetryInv PROVE WatchedTrue
  <2>1. ASSUME NEW w \in Watchers
        PROVE  StreamOK(watch[w], rows) /\ Listed(watch[w], w \in listeners)
    BY <1>1 DEF WatchInv
  <2>2. NoneMissed
    BY <2>1 DEF NoneMissed, StreamOK, Rising
  <2>3. ListenersKnown
    <3>1. {w \in Watchers : watch[w].pc = "live"} \subseteq listeners
      BY <2>1 DEF Listed
    <3>2. ASSUME NEW w \in listeners
          PROVE  \/ watch[w].pc = "live" \/ (watch[w].aborted /\ watch[w].sent = <<>>)
                 \/ (watch[w].aborted /\ Last(watch[w].sent) <= watch[w].since)
      <4>1. w \in Watchers
        BY <1>1 DEF WatchInv
      <4>2. PICK s : s = watch[w]
        OBVIOUS
      <4>3. StreamOK(s, rows) /\ Listed(s, w \in listeners)
        BY <2>1, <4>1, <4>2
      <4>4. CASE s.pc # "live"
        <5>1. s.aborted /\ UpTo(s.sent, s.since) /\ s.sent \in Seq(1..MaxRows)
          BY <4>3, <4>4 DEF Listed, StreamOK, Streams
        <5>2. s.sent # <<>> => Last(s.sent) <= s.since
          <6>1. s.sent # <<>> => Len(s.sent) \in DOMAIN s.sent
            BY <5>1
          <6> QED BY <5>1, <6>1 DEF Last, UpTo
        <5> QED BY <4>2, <5>1, <5>2
      <4> QED BY <4>2, <4>4
    <3> QED BY <3>1, <3>2 DEF ListenersKnown
  <2>4. TelemetryBounded
    <3>1. Metrics.total = Len(spans) /\ Metrics.errors = Cardinality(Errors(spans)) /\ Metrics.recent = Len(events)
          /\ Metrics.captured = Len(captured)
      BY DEF Metrics, Errors
    <3> QED BY <1>1, <3>1 DEF TelemetryBounded, TelemetryInv, Fewer
  <2> QED BY <2>2, <2>3, <2>4 DEF WatchedTrue
<1> QED BY <1>1, StreamInductive, PTL

-----------------------------------------------------------------------------
(* CABLE PACKS.  What the requests, the operations and the registry's      *)
(* entries may be.                                                         *)
Healths == {"healthy", "degraded", "unavailable"}
Entries == [mode : {"seed", "live", "download_pack", "unavailable"}, health : Healths]
CableCodes == {"none", "activated", "HUMAN_AUTH_REQUIRED", "REFUSED", "IDEMPOTENCY_CONFLICT", "OPERATION_IN_PROGRESS",
          "OPERATION_IN_DOUBT", "PACK_VALIDATION_FAILED"}
CableRequests ==
  [state : {"none", "loading", "handled", "executed", "answered"}, op : PackOps \cup {"none"},
   pack : Packs \cup {NoPack}, updated : BOOLEAN, code : CableCodes]
PackOperations == [state : {"free", "reserved", "settled", "doubt"}, pack : Packs \cup {NoPack}, updated : BOOLEAN]
Readings == [state : {"none", "disabled", "read", "answered"}, generation : Nat, nth : Nat, floor : Nat]

(* What a request knows of its operation.                                  *)
Running(s) == s.state \in {"loading", "handled"}
CableRequestOK(s, ops) ==
  /\ s \in CableRequests
  /\ s.state \in {"loading", "handled", "executed"} => s.op \in PackOps /\ s.pack \in Packs /\ s.code = "none"
  /\ Running(s) => ops[s.op].state = "reserved"
  /\ s.state = "executed" => ops[s.op].state = "settled" /\ (s.updated => ops[s.op].updated)
  /\ s.code = "activated" => s.op \in PackOps /\ ops[s.op].state = "settled" /\ ops[s.op].updated

(* The registry, against what the server was configured with.              *)
RegistryOK ==
  /\ registry \in [DOMAIN Definitions -> Entries]
  /\ \A p \in config.off : registry[p].health # "healthy"
  /\ ~config.cables => registry["cables"].health # "healthy"
  /\ config.requested = "live" /\ ~config.licensed => registry["celestrak"] = Out
  /\ (registry["cables"].mode = "download_pack") <=> (shelf.pack # NoPack)

ShelfOK ==
  /\ shelf.pack \in Packs \cup {NoPack} /\ shelf.nth \in Nat
  /\ shelf.pack # NoPack =>
       /\ shelf.nth > 0 /\ config.cables /\ HasPack(shelf.pack)
       /\ \A d \in shelf.content : d.digest = ManifestOf(shelf.pack).digest /\ CatalogValid(d.catalog)

(* A reading that began with the present state of the cache has what the   *)
(* adapter has.                                                            *)
CacheOK ==
  /\ cableCache.response # "none" => cableCache.nth = shelf.nth
  /\ \A r \in CableReaders :
       /\ reads[r].floor <= shelf.nth
       /\ reads[r].state \in {"read", "answered"} => reads[r].nth >= reads[r].floor
       /\ reads[r].state = "read" /\ reads[r].generation = cableCache.generation => reads[r].nth = shelf.nth
       /\ reads[r].state = "read" => reads[r].generation <= cableCache.generation

CacheTypes ==
  /\ cableCache \in [generation : Nat, response : {"none", "catalog"}, nth : Nat]
  /\ reads \in [CableReaders -> Readings]

RequestsOK ==
  /\ activations \in [Activators -> CableRequests] /\ packOps \in [PackOps -> PackOperations]
  /\ \A a \in Activators : CableRequestOK(activations[a], packOps)
  /\ \A a, b \in Activators :
       Running(activations[a]) /\ Running(activations[b]) /\ activations[a].op = activations[b].op => a = b
  /\ \A a \in Activators : activations[a].code = "activated" => shelf.nth > 0

CableInv ==
  /\ config \in Configs /\ starts \in 0..MaxStarts /\ mistakes \subseteq Packs
  /\ RegistryOK /\ ShelfOK /\ CacheTypes /\ CacheOK /\ RequestsOK

-----------------------------------------------------------------------------
(* The registry of a server that has just started.                         *)
LEMMA ConfiguredIs ==
  ASSUME NEW c \in Configs
  PROVE  /\ ConfiguredRegistry(c) \in [DOMAIN Definitions -> Entries]
         /\ \A p \in c.off : ConfiguredRegistry(c)[p].health # "healthy"
         /\ ~c.cables => ConfiguredRegistry(c)["cables"].health # "healthy"
         /\ c.requested = "live" /\ ~c.licensed => ConfiguredRegistry(c)["celestrak"] = Out
         /\ ConfiguredRegistry(c)["cables"].mode # "download_pack"
<1>1. c.requested \in {"seed", "live"} /\ {"cables", "celestrak"} \subseteq DOMAIN Definitions /\ "celestrak" # "cables"
  BY CableAssumption, DefinitionsAssumption
<1>2. PICK locked, out, made, kept :
        /\ locked = (IF c.requested = "live" /\ ~c.licensed THEN {"celestrak"} ELSE {})
        /\ out = [mode |-> "unavailable", health |-> "unavailable"]
        /\ made = [p \in DOMAIN Definitions |-> ResolveProviderState(p, c.requested, c.off, locked)]
        /\ kept = WithDisabled(made, IF c.cables THEN {} ELSE {"cables"})
  OBVIOUS
<1>3. ConfiguredRegistry(c) = kept
  BY <1>2 DEF ConfiguredRegistry
<1>4. out = Out /\ out \in Entries /\ out.mode = "unavailable" /\ out.health = "unavailable"
  BY <1>2 DEF Out, Entries, Healths
<1>5. ASSUME NEW p \in DOMAIN Definitions
      PROVE  /\ made[p] \in Entries /\ made[p].mode # "download_pack"
             /\ p \in c.off => made[p].health # "healthy"
             /\ p \in locked => made[p] = out
  <2>1. made[p] = out \/ made[p] = [mode |-> c.requested, health |-> IF p \in c.off THEN "degraded" ELSE "healthy"]
    BY <1>2, <1>4 DEF ResolveProviderState
  <2>2. p \in locked => made[p] = out
    BY <1>2, <1>4 DEF ResolveProviderState
  <2> QED BY <1>1, <1>4, <2>1, <2>2 DEF Entries, Healths
<1>6. ASSUME NEW p \in DOMAIN Definitions
      PROVE  /\ kept[p] \in Entries /\ kept[p].mode = made[p].mode
             /\ made[p].health # "healthy" => kept[p] = made[p]
             /\ p = "cables" /\ ~c.cables => kept[p].health # "healthy"
  <2>1. PICK m, h : made[p] = [mode |-> m, health |-> h] /\ m \in {"seed", "live", "download_pack", "unavailable"} /\ h \in Healths
    BY <1>5 DEF Entries
  <2>2. PICK worse : worse = [made[p] EXCEPT !.health = "degraded"]
    OBVIOUS
  <2>3. worse = [mode |-> m, health |-> "degraded"]
    BY <2>1, <2>2
  <2>4. kept[p] = IF p \in (IF c.cables THEN {} ELSE {"cables"}) /\ h = "healthy" THEN worse ELSE made[p]
    BY <1>2, <2>1, <2>2 DEF WithDisabled
  <2> QED BY <2>1, <2>3, <2>4 DEF Entries, Healths
<1>7. kept \in [DOMAIN Definitions -> Entries]
  <2>1. DOMAIN kept = DOMAIN Definitions /\ kept = [p \in DOMAIN kept |-> kept[p]]
    BY <1>2 DEF WithDisabled
  <2> QED BY <1>6, <2>1
<1>8. \A p \in c.off : p \in DOMAIN Definitions => kept[p].health # "healthy"
  BY <1>5, <1>6
<1>9. ~c.cables => kept["cables"].health # "healthy"
  BY <1>1, <1>6
<1>10. c.requested = "live" /\ ~c.licensed => kept["celestrak"] = out
  BY <1>1, <1>2, <1>4, <1>5, <1>6
<1>11. kept["cables"].mode # "download_pack"
  BY <1>1, <1>5, <1>6
<1>12. c.off \subseteq DOMAIN Definitions
  BY CableAssumption
<1> QED BY <1>3, <1>4, <1>7, <1>8, <1>9, <1>10, <1>11, <1>12

(* An operation that a request knows is not one that is free, nor one that *)
(* another request settles.                                                *)
SameBut(o, ops, opsNext) == \A q \in PackOps : q # o => opsNext[q] = ops[q]

LEMMA OtherOps ==
  ASSUME NEW s, NEW ops, NEW opsNext, NEW o \in PackOps, CableRequestOK(s, ops),
         SameBut(o, ops, opsNext), ops[o].state # "settled", ~(Running(s) /\ s.op = o)
  PROVE  CableRequestOK(s, opsNext)
<1>1. CASE s.op # o
  BY <1>1 DEF CableRequestOK, Running, SameBut
<1>2. CASE s.op = o
  <2>1. s.state \notin {"loading", "handled", "executed"} /\ s.code # "activated"
    BY <1>2 DEF CableRequestOK, Running
  <2> QED BY <2>1 DEF CableRequestOK, Running
<1> QED BY <1>1, <1>2

(* One request goes on and the operations stay.                            *)
LEMMA OneCableRequest ==
  ASSUME CableInv, NEW a \in Activators, NEW x, activations' = [activations EXCEPT ![a] = x],
         packOps' = packOps, CableRequestOK(x, packOps),
         Running(x) => Running(activations[a]) /\ x.op = activations[a].op,
         x.code = "activated" => shelf.nth > 0, shelf.nth <= shelf'.nth, shelf'.nth \in Nat
  PROVE  RequestsOK'
<1>1. /\ x \in CableRequests /\ activations \in [Activators -> CableRequests] /\ shelf.nth \in Nat
      /\ packOps \in [PackOps -> PackOperations]
  BY DEF CableRequestOK, CableInv, RequestsOK, ShelfOK
<1>2. activations' \in [Activators -> CableRequests] /\ activations'[a] = x /\ \A b \in Activators : b # a => activations'[b] = activations[b]
  BY <1>1
<1>3. ASSUME NEW b \in Activators PROVE CableRequestOK(activations'[b], packOps)
  <2>1. CASE b = a
    BY <1>2, <2>1
  <2>2. CASE b # a
    <3>1. activations'[b] = activations[b] /\ CableRequestOK(activations[b], packOps)
      BY <1>2, <2>2 DEF CableInv, RequestsOK
    <3> QED BY <3>1
  <2> QED BY <2>1, <2>2
<1>4. \A b \in Activators : Running(activations'[b]) => Running(activations[b]) /\ activations'[b].op = activations[b].op
  BY <1>2
<1>5. \A b, c \in Activators :
        Running(activations'[b]) /\ Running(activations'[c]) /\ activations'[b].op = activations'[c].op => b = c
  BY <1>4 DEF CableInv, RequestsOK
<1>6. \A b \in Activators : activations'[b].code = "activated" => shelf'.nth > 0
  <2> SUFFICES ASSUME NEW b \in Activators, activations'[b].code = "activated" PROVE shelf'.nth > 0
    OBVIOUS
  <2>1. shelf.nth > 0
    BY <1>2 DEF CableInv, RequestsOK
  <2> QED BY <1>1, <2>1
<1>7. packOps' \in [PackOps -> PackOperations] /\ \A b \in Activators : CableRequestOK(activations'[b], packOps')
  BY <1>1, <1>3
<1> QED BY <1>2, <1>5, <1>6, <1>7 DEF RequestsOK

(* One operation changes with one request.                                 *)
LEMMA OneOperation ==
  ASSUME CableInv, NEW a \in Activators, NEW x, activations' = [activations EXCEPT ![a] = x],
         NEW o \in PackOps, NEW y \in PackOperations, packOps' = [packOps EXCEPT ![o] = y],
         CableRequestOK(x, packOps'), x.code # "activated", Running(x) => x.op = o, packOps[o].state # "settled",
         \A b \in Activators : b # a => ~(Running(activations[b]) /\ activations[b].op = o),
         shelf' = shelf
  PROVE  RequestsOK'
<1>1. /\ x \in CableRequests /\ activations \in [Activators -> CableRequests] /\ packOps \in [PackOps -> PackOperations]
  BY DEF CableRequestOK, CableInv, RequestsOK
<1>2. activations' \in [Activators -> CableRequests] /\ activations'[a] = x /\ \A b \in Activators : b # a => activations'[b] = activations[b]
  BY <1>1
<1>3. packOps' \in [PackOps -> PackOperations] /\ \A q \in PackOps : q # o => packOps'[q] = packOps[q]
  BY <1>1
<1>4. ASSUME NEW b \in Activators PROVE CableRequestOK(activations'[b], packOps')
  <2>1. CASE b = a
    BY <1>2, <2>1
  <2>2. CASE b # a
    <3>1. activations'[b] = activations[b] /\ CableRequestOK(activations[b], packOps)
      BY <1>2, <2>2 DEF CableInv, RequestsOK
    <3>2. ~(Running(activations[b]) /\ activations[b].op = o)
      BY <2>2
    <3>3. SameBut(o, packOps, packOps')
      BY <1>3 DEF SameBut
    <3>4. CableRequestOK(activations[b], packOps')
      BY <3>1, <3>2, <3>3, OtherOps
    <3> QED BY <3>1, <3>4
  <2> QED BY <2>1, <2>2
<1>5. ASSUME NEW b \in Activators, NEW c \in Activators, Running(activations'[b]), Running(activations'[c]),
             activations'[b].op = activations'[c].op
      PROVE  b = c
  <2>1. CASE b = a /\ c # a
    <3>1. activations'[b].op = o /\ activations'[c] = activations[c]
      BY <1>2, <1>5, <2>1
    <3> QED BY <1>5, <2>1, <3>1
  <2>2. CASE c = a /\ b # a
    <3>1. activations'[c].op = o /\ activations'[b] = activations[b]
      BY <1>2, <1>5, <2>2
    <3> QED BY <1>5, <2>2, <3>1
  <2>3. CASE b # a /\ c # a
    BY <1>2, <1>5, <2>3 DEF CableInv, RequestsOK
  <2> QED BY <2>1, <2>2, <2>3
<1>6. \A b \in Activators : activations'[b].code = "activated" => shelf'.nth > 0
  BY <1>2 DEF CableInv, RequestsOK
<1> QED BY <1>2, <1>3, <1>4, <1>5, <1>6 DEF RequestsOK

(* What is not about requests and readings stays with the server.          *)
LEMMA KeptServer ==
  ASSUME CableInv, ServerKept
  PROVE  /\ config' \in Configs /\ mistakes' \subseteq Packs /\ RegistryOK' /\ ShelfOK' /\ cableCache' = cableCache
         /\ shelf' = shelf
<1>1. config' = config /\ registry' = registry /\ shelf' = shelf /\ mistakes' = mistakes /\ cableCache' = cableCache
  BY DEF ServerKept
<1> QED BY <1>1 DEF CableInv, RegistryOK, ShelfOK, HasPack, ManifestOf

LEMMA CableInitially == CableInit => CableInv
<1> SUFFICES ASSUME CableInit PROVE CableInv
  OBVIOUS
<1>0. MaxStarts \in Nat /\ NoPack \notin Packs
  BY CableAssumption
<1>1. config \in Configs /\ starts = 0 /\ mistakes = {} /\ registry = ConfiguredRegistry(config)
  BY DEF CableInit, Starts
<1>2. shelf.pack = NoPack /\ shelf.nth = 0
  BY DEF CableInit, NoContent
<1>3. RegistryOK
  BY <1>1, <1>2, ConfiguredIs DEF RegistryOK
<1>4. ShelfOK
  BY <1>2 DEF ShelfOK
<1>5. CacheTypes /\ CacheOK
  BY <1>2 DEF CableInit, Fresh, NotRead, CacheTypes, CacheOK, Readings
<1>6. RequestsOK
  <2>1. PICK n, m : n = NotAsked /\ m = NoOp
    OBVIOUS
  <2>2. /\ n \in CableRequests /\ n.state = "none" /\ n.code = "none" /\ ~Running(n) /\ m \in PackOperations
    BY <2>1 DEF NotAsked, NoOp, CableRequests, CableCodes, PackOperations, Running
  <2>3. activations = [a \in Activators |-> n] /\ packOps = [o \in PackOps |-> m]
    BY <2>1 DEF CableInit
  <2>4. \A a \in Activators : activations[a] = n
    BY <2>3
  <2>5. CableRequestOK(n, packOps)
    BY <2>2 DEF CableRequestOK
  <2> QED BY <2>2, <2>3, <2>4, <2>5 DEF RequestsOK
<1> QED BY <1>0, <1>1, <1>3, <1>4, <1>5, <1>6 DEF CableInv

LEMMA CableStep == CableInv /\ [CableNext]_cableVars => CableInv'
<1> SUFFICES ASSUME CableInv, [CableNext]_cableVars PROVE CableInv'
  OBVIOUS
<1>0. /\ MaxStarts \in Nat /\ starts \in 0..MaxStarts /\ shelf.nth \in Nat /\ mistakes \subseteq Packs /\ config \in Configs
      /\ activations \in [Activators -> CableRequests] /\ packOps \in [PackOps -> PackOperations]
      /\ cableCache \in [generation : Nat, response : {"none", "catalog"}, nth : Nat]
      /\ reads \in [CableReaders -> Readings]
  BY CableAssumption DEF CableInv, ShelfOK, RequestsOK, CacheTypes
<1>1. ASSUME NEW a \in Activators
      PROVE  CableRequestOK(activations[a], packOps) /\ activations[a] \in CableRequests
  BY DEF CableInv, RequestsOK
<1>2. ASSUME cableCache' = cableCache, shelf' = shelf, reads' = reads
      PROVE  CacheTypes' /\ CacheOK'
  BY <1>2 DEF CableInv, CacheTypes, CacheOK
<1>3. PICK none : none = NotAsked
  OBVIOUS
<1>4. /\ none = [state |-> "none", op |-> "none", pack |-> NoPack, updated |-> FALSE, code |-> "none"]
      /\ none \in CableRequests
  BY <1>3 DEF NotAsked, CableRequests, CableCodes
<1>5. ASSUME NEW a \in Activators, NEW human \in BOOLEAN, NEW p \in Packs, NEW o \in PackOps, NEW admitted \in BOOLEAN,
             AskActivation(a, human, p, o, admitted)
      PROVE  CableInv'
  <2>1. /\ activations[a] = none /\ ServerKept /\ reads' = reads /\ starts' = starts
    BY <1>3, <1>5 DEF AskActivation
  <2>2. /\ config' \in Configs /\ mistakes' \subseteq Packs /\ RegistryOK' /\ ShelfOK' /\ cableCache' = cableCache
        /\ shelf' = shelf
    BY <2>1, KeptServer
  <2>3. PICK known, asked : known = packOps[o] /\ asked = [none EXCEPT !.op = o, !.pack = p]
    OBVIOUS
  <2>4. asked = [state |-> "none", op |-> o, pack |-> p, updated |-> FALSE, code |-> "none"]
    BY ONLY <1>4, <2>3
  <2>5. known \in PackOperations
    BY <1>0, <2>3
  <2>6. ASSUME NEW code \in CableCodes \ {"activated"}, NEW x, x = [none EXCEPT !.state = "answered", !.code = code],
               activations' = [activations EXCEPT ![a] = x], packOps' = packOps
        PROVE  RequestsOK'
    <3>1. x = [state |-> "answered", op |-> "none", pack |-> NoPack, updated |-> FALSE, code |-> code]
      BY ONLY <1>4, x = [none EXCEPT !.state = "answered", !.code = code]
    <3>2. x \in CableRequests /\ ~Running(x) /\ x.state = "answered" /\ x.code # "activated"
      BY <3>1 DEF CableRequests, Running
    <3>3. CableRequestOK(x, packOps)
      BY <3>2 DEF CableRequestOK
    <3>4. shelf.nth <= shelf'.nth /\ shelf'.nth \in Nat
      BY <1>0, <2>2
    <3> QED BY <2>6, <3>2, <3>3, <3>4, OneCableRequest
  <2>7. CASE ~human
    <3>1. PICK x : x = [none EXCEPT !.state = "answered", !.code = "HUMAN_AUTH_REQUIRED"]
      OBVIOUS
    <3>2. activations' = [activations EXCEPT ![a] = x] /\ packOps' = packOps
      BY <1>3, <1>5, <2>7, <3>1 DEF AskActivation
    <3>3. "HUMAN_AUTH_REQUIRED" \in CableCodes \ {"activated"}
      BY DEF CableCodes
    <3> QED BY <2>6, <3>1, <3>2, <3>3, <2>1, <2>2, <1>2, <1>0 DEF CableInv
  <2>8. CASE human /\ known.state = "free" /\ ~admitted
    <3>1. PICK x : x = [none EXCEPT !.state = "answered", !.code = "REFUSED"]
      OBVIOUS
    <3>2. activations' = [activations EXCEPT ![a] = x] /\ packOps' = packOps
      BY <1>3, <1>5, <2>3, <2>8, <3>1 DEF AskActivation
    <3>3. "REFUSED" \in CableCodes \ {"activated"}
      BY DEF CableCodes
    <3> QED BY <2>6, <3>1, <3>2, <3>3, <2>1, <2>2, <1>2, <1>0 DEF CableInv
  <2>9. CASE human /\ known.state = "free" /\ admitted
    <3>1. PICK x, y : x = [asked EXCEPT !.state = "loading"] /\ y = [state |-> "reserved", pack |-> p, updated |-> FALSE]
      OBVIOUS
    <3>2. activations' = [activations EXCEPT ![a] = x] /\ packOps' = [packOps EXCEPT ![o] = y]
      BY <1>3, <1>5, <2>3, <2>9, <3>1 DEF AskActivation
    <3>3. x = [state |-> "loading", op |-> o, pack |-> p, updated |-> FALSE, code |-> "none"]
      BY ONLY <2>4, <3>1
    <3>4. x \in CableRequests /\ x.state = "loading" /\ x.op = o /\ x.pack = p /\ x.code = "none" /\ y \in PackOperations
          /\ y.state = "reserved"
      <4>1. y = [state |-> "reserved", pack |-> p, updated |-> FALSE]
        BY ONLY <3>1
      <4>2. y \in PackOperations /\ y.state = "reserved"
        BY <4>1, <1>3, <2>1 DEF PackOperations
      <4>3. x.state = "loading" /\ x.op = o /\ x.pack = p /\ x.code = "none"
        BY ONLY <3>3
      <4>4. x \in CableRequests
        BY <3>3, <1>3, <2>1 DEF CableRequests, CableCodes
      <4> QED BY <4>2, <4>3, <4>4
    <3>5. packOps'[o] = y
      BY <1>0, <3>2
    <3>6. CableRequestOK(x, packOps')
      BY <3>4, <3>5 DEF CableRequestOK, Running
    <3>7. \A b \in Activators : b # a => ~(Running(activations[b]) /\ activations[b].op = o)
      <4>1. known.state # "reserved"
        BY <2>9
      <4>2. \A b \in Activators : Running(activations[b]) => packOps[activations[b].op].state = "reserved"
        BY <1>1 DEF CableRequestOK
      <4> QED BY <2>3, <4>1, <4>2
    <3>8. packOps[o].state # "settled"
      BY <2>3, <2>9
    <3>9. x.code # "activated" /\ (Running(x) => x.op = o)
      BY <3>4
    <3>10. RequestsOK'
      BY <2>2, <3>2, <3>4, <3>6, <3>7, <3>8, <3>9, OneOperation
    <3> QED BY <2>1, <2>2, <3>10, <1>2, <1>0 DEF CableInv
  <2>10. CASE human /\ known.state # "free"
    <3>1. PICK x : x = CASE known.pack # p -> [none EXCEPT !.state = "answered", !.code = "IDEMPOTENCY_CONFLICT"]
                         [] known.state = "reserved" -> [none EXCEPT !.state = "answered", !.code = "OPERATION_IN_PROGRESS"]
                         [] known.state = "doubt" -> [none EXCEPT !.state = "answered", !.code = "OPERATION_IN_DOUBT"]
                         [] OTHER -> [asked EXCEPT !.state = "executed", !.updated = known.updated]
      OBVIOUS
    <3>2. activations' = [activations EXCEPT ![a] = x] /\ packOps' = packOps
      BY <1>3, <1>5, <2>3, <2>10, <3>1 DEF AskActivation
    <3>3. \/ \E code \in {"IDEMPOTENCY_CONFLICT", "OPERATION_IN_PROGRESS", "OPERATION_IN_DOUBT"} :
               x = [none EXCEPT !.state = "answered", !.code = code]
          \/ known.state = "settled" /\ x = [asked EXCEPT !.state = "executed", !.updated = known.updated]
      BY <2>5, <2>10, <3>1 DEF PackOperations
    <3>4. ASSUME NEW code \in {"IDEMPOTENCY_CONFLICT", "OPERATION_IN_PROGRESS", "OPERATION_IN_DOUBT"},
                 x = [none EXCEPT !.state = "answered", !.code = code]
          PROVE  RequestsOK'
      <4>1. code \in CableCodes \ {"activated"}
        BY DEF CableCodes
      <4> QED BY <2>6, <3>2, <3>4, <4>1
    <3>5. ASSUME known.state = "settled", x = [asked EXCEPT !.state = "executed", !.updated = known.updated]
          PROVE  RequestsOK'
      <4>1. PICK was \in BOOLEAN : was = known.updated
        BY <2>5 DEF PackOperations
      <4>2. x = [asked EXCEPT !.state = "executed", !.updated = was]
        BY <3>5, <4>1
      <4>3. x = [state |-> "executed", op |-> o, pack |-> p, updated |-> was, code |-> "none"]
        BY ONLY <2>4, <4>2
      <4>4. x \in CableRequests /\ x.state = "executed" /\ x.op = o /\ x.pack = p /\ x.code = "none" /\ x.updated = was
        BY <4>3 DEF CableRequests, CableCodes
      <4>5. CableRequestOK(x, packOps)
        BY <2>3, <3>5, <4>1, <4>4 DEF CableRequestOK, Running
      <4>6. ~Running(x) /\ x.code # "activated" /\ shelf.nth <= shelf'.nth /\ shelf'.nth \in Nat
        BY <1>0, <2>2, <4>4 DEF Running
      <4> QED BY <3>2, <4>5, <4>6, OneCableRequest
    <3>6. RequestsOK'
      BY <3>3, <3>4, <3>5
    <3> QED BY <2>1, <2>2, <3>6, <1>2, <1>0 DEF CableInv
  <2> QED BY <2>7, <2>8, <2>9, <2>10
<1>6. ASSUME NEW a \in Activators, NEW d, PackLoaded(a, d) PROVE CableInv'
  <2>1. PICK s, p : s = activations[a] /\ p = activations[a].pack
    OBVIOUS
  <2>3. /\ s.state = "loading" /\ packOps' = packOps /\ reads' = reads /\ starts' = starts /\ config' = config
    BY <1>6, <2>1 DEF PackLoaded
  <2>4. CableRequestOK(s, packOps) /\ s \in CableRequests /\ p \in Packs /\ s.op \in PackOps /\ s.pack = p
    BY <1>1, <2>1, <2>3 DEF CableRequestOK
  <2>5. PICK st0, op, pack, up0, code0 :
          s = [state |-> st0, op |-> op, pack |-> pack, updated |-> up0, code |-> code0]
    BY <2>4 DEF CableRequests
  <2>6. ASSUME NEW was \in BOOLEAN, NEW x, x = [s EXCEPT !.state = "handled", !.updated = was],
               activations' = [activations EXCEPT ![a] = x], shelf.nth <= shelf'.nth, shelf'.nth \in Nat
        PROVE  RequestsOK'
    <3>1. x = [state |-> "handled", op |-> op, pack |-> pack, updated |-> was, code |-> code0]
      BY ONLY <2>5, x = [s EXCEPT !.state = "handled", !.updated = was]
    <3>2. /\ x.state = "handled" /\ x.op = s.op /\ x.pack = s.pack /\ x.code = s.code
      BY ONLY <2>5, <3>1
    <3>3. op \in PackOps \cup {"none"} /\ pack \in Packs \cup {NoPack} /\ code0 \in CableCodes
      BY <2>4, <2>5 DEF CableRequests
    <3>4. x \in CableRequests
      BY <3>1, <3>3 DEF CableRequests
    <3>5. Running(s) /\ s.code = "none"
      BY <2>3, <2>4 DEF CableRequestOK, Running
    <3>6. CableRequestOK(x, packOps)
      BY <2>4, <3>2, <3>4, <3>5 DEF CableRequestOK, Running
    <3>7. /\ Running(x) => Running(activations[a]) /\ x.op = activations[a].op
          /\ x.code = "activated" => shelf.nth > 0
      BY <2>1, <3>2, <3>5
    <3> QED BY <2>3, <2>6, <3>6, <3>7, OneCableRequest
  <2>7. CASE ~(d # {} /\ config.cables /\ HasPack(p) /\ (\A b \in d : Trustworthy(p, b)) /\ Activatable(registry))
    <3>1. /\ mistakes' = mistakes \cup {p} /\ registry' = registry /\ shelf' = shelf /\ cableCache' = cableCache
      BY <1>6, <2>1, <2>7 DEF PackLoaded
    <3>2. PICK x : x = [s EXCEPT !.state = "handled", !.updated = FALSE]
      OBVIOUS
    <3>3. activations' = [activations EXCEPT ![a] = x]
      BY <1>0, <1>6, <2>1, <2>7, <3>2 DEF PackLoaded
    <3>4. shelf.nth <= shelf'.nth /\ shelf'.nth \in Nat
      BY <1>0, <3>1
    <3>5. RequestsOK'
      BY <2>6, <3>2, <3>3, <3>4
    <3>6. RegistryOK' /\ ShelfOK'
      BY <2>3, <3>1 DEF CableInv, RegistryOK, ShelfOK, HasPack, ManifestOf
    <3>7. mistakes' \subseteq Packs
      BY <1>0, <2>4, <3>1
    <3> QED BY <1>0, <1>2, <2>3, <3>1, <3>5, <3>6, <3>7 DEF CableInv
  <2>8. CASE d # {} /\ config.cables /\ HasPack(p) /\ (\A b \in d : Trustworthy(p, b)) /\ Activatable(registry)
    <3>1. PICK e, nth : e = [mode |-> "download_pack", health |-> "healthy"] /\ nth = shelf.nth + 1
      OBVIOUS
    <3>2. /\ mistakes' = mistakes \ {p} /\ registry' = [registry EXCEPT !["cables"] = e]
          /\ shelf' = [pack |-> p, content |-> d, nth |-> nth]
          /\ cableCache' = [Fresh EXCEPT !.generation = cableCache.generation + 1]
      BY <1>6, <2>1, <2>8, <3>1 DEF PackLoaded
    <3>3. PICK x : x = [s EXCEPT !.state = "handled", !.updated = TRUE]
      OBVIOUS
    <3>4. activations' = [activations EXCEPT ![a] = x]
      BY <1>0, <1>6, <2>1, <2>8, <3>3 DEF PackLoaded
    <3>5. /\ shelf'.pack = p /\ shelf'.content = d /\ shelf'.nth = nth /\ nth \in Nat /\ nth > shelf.nth /\ nth > 0
      BY <1>0, <3>1, <3>2
    <3>6. RequestsOK'
      <4>1. shelf.nth <= shelf'.nth /\ shelf'.nth \in Nat
        BY <1>0, <3>5
      <4> QED BY <2>6, <3>3, <3>4, <4>1
    <3>7. registry["cables"].health = "healthy" /\ registry \in [DOMAIN Definitions -> Entries] /\ e \in Entries
          /\ {"cables", "celestrak"} \subseteq DOMAIN Definitions
      BY <2>8, <3>1, DefinitionsAssumption DEF Activatable, CableInv, RegistryOK, Entries, Healths
    <3>8. /\ registry' \in [DOMAIN Definitions -> Entries] /\ registry'["cables"] = e
          /\ \A q \in DOMAIN Definitions : q # "cables" => registry'[q] = registry[q]
      BY <3>2, <3>7
    <3>9. "cables" \notin config.off /\ config.off \subseteq DOMAIN Definitions /\ p # NoPack
      BY <1>0, <2>4, <3>7, CableAssumption DEF CableInv, RegistryOK
    <3>10. registry'["cables"].mode = "download_pack" /\ registry'["celestrak"] = registry["celestrak"]
      BY <3>1, <3>7, <3>8
    <3>11. \A q \in config.off : registry'[q].health # "healthy"
      BY <3>8, <3>9 DEF CableInv, RegistryOK
    <3>12. RegistryOK'
      BY <2>3, <2>8, <3>5, <3>8, <3>9, <3>10, <3>11 DEF CableInv, RegistryOK
    <3>13. ShelfOK'
      <4>1. \A b \in d : b.digest = ManifestOf(p).digest /\ CatalogValid(b.catalog)
        BY <2>8 DEF Trustworthy
      <4>2. HasPack(p)' /\ ManifestOf(p)' = ManifestOf(p)
        BY <2>3, <2>8 DEF HasPack, ManifestOf
      <4>3. HasPack(shelf.pack)' /\ ManifestOf(shelf.pack)' = ManifestOf(p)
        BY <2>3, <2>8, <3>5 DEF HasPack, ManifestOf
      <4> QED BY <2>3, <2>4, <2>8, <3>5, <4>1, <4>3 DEF ShelfOK
    <3>14. PICK later : later = cableCache.generation + 1
      OBVIOUS
    <3>15. cableCache' = [generation |-> later, response |-> "none", nth |-> 0] /\ later \in Nat
           /\ later > cableCache.generation
      BY <1>0, <3>2, <3>14 DEF Fresh
    <3>16. CacheTypes'
      BY <1>0, <2>3, <3>15 DEF CacheTypes
    <3>17. CacheOK'
      <4>1. ASSUME NEW r \in CableReaders
            PROVE  /\ reads'[r].floor <= shelf'.nth
                   /\ reads'[r].state \in {"read", "answered"} => reads'[r].nth >= reads'[r].floor
                   /\ reads'[r].state = "read" /\ reads'[r].generation = cableCache'.generation => reads'[r].nth = shelf'.nth
                   /\ reads'[r].state = "read" => reads'[r].generation <= cableCache'.generation
        <5>1. /\ reads'[r] = reads[r] /\ reads[r].floor \in Nat /\ reads[r].generation \in Nat /\ cableCache.generation \in Nat
              /\ cableCache'.generation = later
          BY <1>0, <2>3, <3>15 DEF Readings
        <5>2. /\ reads[r].floor <= shelf.nth
              /\ reads[r].state \in {"read", "answered"} => reads[r].nth >= reads[r].floor
              /\ reads[r].state = "read" => reads[r].generation <= cableCache.generation
          BY DEF CableInv, CacheOK
        <5> QED BY <1>0, <3>5, <3>15, <5>1, <5>2
      <4>2. cableCache'.response = "none"
        BY <3>15
      <4> QED BY <4>1, <4>2 DEF CacheOK
    <3>18. mistakes' \subseteq Packs
      BY <1>0, <3>2
    <3> QED BY <1>0, <2>3, <3>6, <3>12, <3>13, <3>16, <3>17, <3>18 DEF CableInv
  <2> QED BY <2>7, <2>8
<1>7. ASSUME NEW a \in Activators, SettleFlag(a) PROVE CableInv'
  <2>1. PICK s, o : s = activations[a] /\ o = activations[a].op
    OBVIOUS
  <2>2. s.state = "handled" /\ ServerKept /\ reads' = reads /\ starts' = starts
    BY <1>7, <2>1 DEF SettleFlag
  <2>3. CableRequestOK(s, packOps) /\ s \in CableRequests /\ o \in PackOps /\ s.op = o /\ Running(s) /\ packOps[o].state = "reserved"
        /\ s.code = "none" /\ s.pack \in Packs
    BY <1>1, <2>1, <2>2 DEF CableRequestOK, Running
  <2>4. PICK st0, pack, up0, code0 :
          s = [state |-> st0, op |-> o, pack |-> pack, updated |-> up0, code |-> code0] /\ up0 \in BOOLEAN
          /\ code0 \in CableCodes /\ pack \in Packs \cup {NoPack}
    BY <2>3 DEF CableRequests
  <2>5. PICK was, st1, pack1, up1 :
          was = packOps[o] /\ was = [state |-> st1, pack |-> pack1, updated |-> up1] /\ pack1 \in Packs \cup {NoPack}
    BY <1>0, <2>3 DEF PackOperations
  <2>6. PICK x, y : x = [s EXCEPT !.state = "executed"] /\ y = [was EXCEPT !.state = "settled", !.updated = up0]
    OBVIOUS
  <2>7. activations' = [activations EXCEPT ![a] = x]
    BY <1>0, <1>7, <2>1, <2>6 DEF SettleFlag
  <2>8. packOps' = [packOps EXCEPT ![o] = y]
    <3>1. packOps' = [packOps EXCEPT ![o].state = "settled", ![o].updated = s.updated]
      BY <1>7, <2>1 DEF SettleFlag
    <3>2. s.updated = up0
      BY ONLY <2>4
    <3> QED BY <1>0, <2>3, <2>5, <2>6, <3>1, <3>2
  <2>9. x = [state |-> "executed", op |-> o, pack |-> pack, updated |-> up0, code |-> code0]
    BY ONLY <2>4, <2>6
  <2>10. y = [state |-> "settled", pack |-> pack1, updated |-> up0]
    <3>1. was = [state |-> st1, pack |-> pack1, updated |-> up1]
      BY ONLY <2>5
    <3>2. y = [was EXCEPT !.state = "settled", !.updated = up0]
      BY ONLY <2>6
    <3> QED BY ONLY <3>1, <3>2
  <2>11. y \in PackOperations /\ y.state = "settled" /\ y.updated = up0
    BY <2>4, <2>5, <2>10 DEF PackOperations
  <2>12. x.state = "executed" /\ x.op = o /\ x.updated = up0 /\ x.pack = s.pack /\ x.code = s.code
    BY ONLY <2>4, <2>9
  <2>13. x \in CableRequests
    BY <2>3, <2>4, <2>9 DEF CableRequests
  <2>14. packOps'[o] = y
    BY <1>0, <2>3, <2>8
  <2>15. CableRequestOK(x, packOps')
    BY <2>3, <2>11, <2>12, <2>13, <2>14 DEF CableRequestOK, Running
  <2>16. \A b \in Activators : b # a => ~(Running(activations[b]) /\ activations[b].op = o)
    BY <2>1, <2>3 DEF CableInv, RequestsOK
  <2>17. x.code # "activated" /\ (Running(x) => x.op = o) /\ packOps[o].state # "settled"
    BY <2>3, <2>12
  <2>18. /\ config' \in Configs /\ mistakes' \subseteq Packs /\ RegistryOK' /\ ShelfOK' /\ cableCache' = cableCache
         /\ shelf' = shelf
    BY <2>2, KeptServer
  <2>19. RequestsOK'
    BY <2>3, <2>7, <2>8, <2>11, <2>15, <2>16, <2>17, <2>18, OneOperation
  <2> QED BY <1>0, <1>2, <2>2, <2>18, <2>19 DEF CableInv
<1>8. ASSUME NEW a \in Activators, AnswerActivation(a) PROVE CableInv'
  <2>1. PICK s : s = activations[a]
    OBVIOUS
  <2>2. s.state = "executed" /\ ServerKept /\ packOps' = packOps /\ reads' = reads /\ starts' = starts
    BY <1>8, <2>1 DEF AnswerActivation
  <2>3. CableRequestOK(s, packOps) /\ s \in CableRequests /\ s.op \in PackOps /\ s.pack \in Packs
        /\ packOps[s.op].state = "settled" /\ (s.updated => packOps[s.op].updated)
    BY <1>1, <2>1, <2>2 DEF CableRequestOK
  <2>4. PICK st0, op, pack, up0, code0 :
          s = [state |-> st0, op |-> op, pack |-> pack, updated |-> up0, code |-> code0] /\ up0 \in BOOLEAN
          /\ pack \in Packs \cup {NoPack} /\ op \in PackOps \cup {"none"}
    BY <2>3 DEF CableRequests
  <2>5. PICK yes, no : yes = [s EXCEPT !.state = "answered", !.code = "activated"]
                       /\ no = [none EXCEPT !.state = "answered", !.code = "PACK_VALIDATION_FAILED"]
    OBVIOUS
  <2>6. /\ config' \in Configs /\ mistakes' \subseteq Packs /\ RegistryOK' /\ ShelfOK' /\ cableCache' = cableCache
        /\ shelf' = shelf
    BY <2>2, KeptServer
  <2>7. shelf.nth <= shelf'.nth /\ shelf'.nth \in Nat
    BY <1>0, <2>6
  <2>8. CASE ReportedActive(a)
    <3>1. activations' = [activations EXCEPT ![a] = yes]
      BY <1>0, <1>8, <2>1, <2>5, <2>8 DEF AnswerActivation
    <3>2. yes = [state |-> "answered", op |-> op, pack |-> pack, updated |-> up0, code |-> "activated"]
      BY ONLY <2>4, <2>5
    <3>3. yes.state = "answered" /\ yes.op = s.op /\ yes.code = "activated"
      BY ONLY <2>4, <3>2
    <3>4. yes \in CableRequests
      BY <2>4, <3>2 DEF CableRequests, CableCodes
    <3>5. s.updated /\ shelf.pack = s.pack
      BY <2>1, <2>8 DEF ReportedActive
    <3>6. shelf.nth > 0
      BY <2>3, <3>5, CableAssumption DEF CableInv, ShelfOK
    <3>7. CableRequestOK(yes, packOps) /\ ~Running(yes)
      BY <2>3, <3>3, <3>4, <3>5 DEF CableRequestOK, Running
    <3>8. RequestsOK'
      BY <2>2, <2>7, <3>1, <3>6, <3>7, OneCableRequest
    <3> QED BY <1>0, <1>2, <2>2, <2>6, <3>8 DEF CableInv
  <2>9. CASE ~ReportedActive(a)
    <3>1. activations' = [activations EXCEPT ![a] = no]
      BY <1>3, <1>8, <2>5, <2>9 DEF AnswerActivation
    <3>2. no = [state |-> "answered", op |-> "none", pack |-> NoPack, updated |-> FALSE, code |-> "PACK_VALIDATION_FAILED"]
      BY ONLY <1>4, <2>5
    <3>3. no \in CableRequests /\ no.state = "answered" /\ no.code # "activated"
      BY <3>2 DEF CableRequests, CableCodes
    <3>4. CableRequestOK(no, packOps) /\ ~Running(no)
      BY <3>3 DEF CableRequestOK, Running
    <3>5. RequestsOK'
      BY <2>2, <2>7, <3>1, <3>3, <3>4, OneCableRequest
    <3> QED BY <1>0, <1>2, <2>2, <2>6, <3>5 DEF CableInv
  <2> QED BY <2>8, <2>9
<1>9. ASSUME activations' = activations, packOps' = packOps, shelf' = shelf PROVE RequestsOK'
  BY <1>9 DEF CableInv, RequestsOK
<1>10. ASSUME NEW r \in CableReaders, ReadCatalog(r) PROVE CableInv'
  <2>1. PICK z, at, gen, now : z = NotRead /\ at = cableCache.nth /\ gen = cableCache.generation /\ now = shelf.nth
    OBVIOUS
  <2>2. z = [state |-> "none", generation |-> 0, nth |-> 0, floor |-> 0]
    BY <2>1 DEF NotRead
  <2>3. at \in Nat /\ gen \in Nat /\ now \in Nat /\ (cableCache.response # "none" => at = now)
    BY <1>0, <2>1 DEF CableInv, CacheOK
  <2>4. PICK x : x = CASE ~config.cables -> [z EXCEPT !.state = "disabled", !.floor = now]
                       [] config.cables /\ cableCache.response # "none" ->
                            [z EXCEPT !.state = "answered", !.nth = at, !.floor = now]
                       [] OTHER -> [state |-> "read", generation |-> gen, nth |-> now, floor |-> now]
    OBVIOUS
  <2>5. reads' = [reads EXCEPT ![r] = x] /\ ServerKept /\ activations' = activations /\ packOps' = packOps /\ starts' = starts
    BY <1>10, <2>1, <2>4 DEF ReadCatalog
  <2>6. \/ x = [state |-> "disabled", generation |-> 0, nth |-> 0, floor |-> now]
        \/ x = [state |-> "answered", generation |-> 0, nth |-> now, floor |-> now]
        \/ x = [state |-> "read", generation |-> gen, nth |-> now, floor |-> now]
    BY <2>2, <2>3, <2>4
  <2>7. /\ x \in Readings /\ x.floor = now /\ (x.state \in {"read", "answered"} => x.nth = now)
        /\ (x.state = "read" => x.generation = gen)
    BY <2>3, <2>6 DEF Readings
  <2>8. /\ reads' \in [CableReaders -> Readings] /\ reads'[r] = x /\ \A q \in CableReaders : q # r => reads'[q] = reads[q]
    BY <1>0, <2>5, <2>7
  <2>9. /\ config' \in Configs /\ mistakes' \subseteq Packs /\ RegistryOK' /\ ShelfOK' /\ cableCache' = cableCache
        /\ shelf' = shelf
    BY <2>5, KeptServer
  <2>10. CacheTypes'
    BY <1>0, <2>8, <2>9 DEF CacheTypes
  <2>11. CacheOK'
    <3>1. ASSUME NEW q \in CableReaders
          PROVE  /\ reads'[q].floor <= shelf.nth
                 /\ reads'[q].state \in {"read", "answered"} => reads'[q].nth >= reads'[q].floor
                 /\ reads'[q].state = "read" /\ reads'[q].generation = cableCache.generation => reads'[q].nth = shelf.nth
                 /\ reads'[q].state = "read" => reads'[q].generation <= cableCache.generation
      <4>1. CASE q = r
        BY <2>1, <2>3, <2>7, <2>8, <4>1
      <4>2. CASE q # r
        BY <2>8, <4>2 DEF CableInv, CacheOK
      <4> QED BY <4>1, <4>2
    <3> QED BY <2>9, <3>1 DEF CableInv, CacheOK
  <2> QED BY <1>0, <1>9, <2>5, <2>9, <2>10, <2>11 DEF CableInv
<1>11. ASSUME NEW r \in CableReaders, RespondCatalog(r) PROVE CableInv'
  <2>1. PICK s, x, at : s = reads[r] /\ x = [s EXCEPT !.state = "answered"] /\ at = reads[r].nth
    OBVIOUS
  <2>2. /\ s.state = "read" /\ reads' = [reads EXCEPT ![r] = x]
        /\ UNCHANGED <<config, registry, shelf, mistakes, activations, packOps, starts>>
    BY <1>0, <1>11, <2>1 DEF RespondCatalog
  <2>3. PICK st0, gen, nth, floor : s = [state |-> st0, generation |-> gen, nth |-> nth, floor |-> floor]
          /\ gen \in Nat /\ nth \in Nat /\ floor \in Nat
    BY <1>0, <2>1 DEF Readings
  <2>4. x = [state |-> "answered", generation |-> gen, nth |-> nth, floor |-> floor]
    BY ONLY <2>1, <2>3
  <2>5. x \in Readings /\ x.state = "answered" /\ x.nth = s.nth /\ x.floor = s.floor
    BY <2>3, <2>4 DEF Readings
  <2>6. /\ reads' \in [CableReaders -> Readings] /\ reads'[r] = x /\ \A q \in CableReaders : q # r => reads'[q] = reads[q]
    BY <1>0, <2>2, <2>5
  <2>7. /\ cableCache' \in [generation : Nat, response : {"none", "catalog"}, nth : Nat]
        /\ cableCache'.generation = cableCache.generation
        /\ cableCache'.response # "none" => cableCache'.nth = shelf.nth
    <3>1. CASE CachedBy(r)
      <4>1. PICK gen0, resp0, nth0 : cableCache = [generation |-> gen0, response |-> resp0, nth |-> nth0] /\ gen0 \in Nat
        BY <1>0
      <4>2. PICK y : y = [cableCache EXCEPT !.response = "catalog", !.nth = at]
        OBVIOUS
      <4>3. y = [generation |-> gen0, response |-> "catalog", nth |-> at]
        BY ONLY <4>1, <4>2
      <4>4. cableCache' = y
        BY <1>11, <2>1, <3>1, <4>2 DEF RespondCatalog
      <4>5. at = shelf.nth
        BY <2>1, <2>2, <3>1 DEF CachedBy, CableInv, CacheOK
      <4>6. cableCache.generation = gen0
        BY ONLY <4>1
      <4> QED BY <1>0, <4>1, <4>3, <4>4, <4>5, <4>6
    <3>2. CASE ~CachedBy(r)
      <4>1. cableCache' = cableCache
        BY <1>11, <3>2 DEF RespondCatalog
      <4> QED BY <1>0, <4>1 DEF CableInv, CacheOK
    <3> QED BY <3>1, <3>2
  <2>8. CacheTypes'
    BY <2>6, <2>7 DEF CacheTypes
  <2>9. CacheOK'
    <3>1. ASSUME NEW q \in CableReaders
          PROVE  /\ reads'[q].floor <= shelf.nth
                 /\ reads'[q].state \in {"read", "answered"} => reads'[q].nth >= reads'[q].floor
                 /\ reads'[q].state = "read" /\ reads'[q].generation = cableCache.generation => reads'[q].nth = shelf.nth
                 /\ reads'[q].state = "read" => reads'[q].generation <= cableCache.generation
      <4>1. CASE q = r
        <5>1. s.floor <= shelf.nth /\ s.nth >= s.floor
          BY <2>1, <2>2 DEF CableInv, CacheOK
        <5> QED BY <2>5, <2>6, <4>1, <5>1
      <4>2. CASE q # r
        BY <2>6, <4>2 DEF CableInv, CacheOK
      <4> QED BY <4>1, <4>2
    <3>2. shelf' = shelf
      BY <2>2
    <3> QED BY <2>7, <3>1, <3>2 DEF CacheOK
  <2>10. RegistryOK' /\ ShelfOK' /\ config' \in Configs /\ mistakes' \subseteq Packs /\ starts' \in 0..MaxStarts
    BY <1>0, <2>2 DEF CableInv, RegistryOK, ShelfOK, HasPack, ManifestOf
  <2> QED BY <1>9, <2>2, <2>8, <2>9, <2>10 DEF CableInv
<1>12. ASSUME CacheExpires PROVE CableInv'
  <2>1. UNCHANGED <<config, registry, shelf, mistakes, activations, packOps, reads, starts>>
        /\ cableCache' = [cableCache EXCEPT !.response = "none", !.nth = 0]
    BY <1>12 DEF CacheExpires
  <2>2. /\ cableCache' \in [generation : Nat, response : {"none", "catalog"}, nth : Nat]
        /\ cableCache'.generation = cableCache.generation /\ cableCache'.response = "none"
    <3>1. PICK gen0, resp0, nth0, y :
            cableCache = [generation |-> gen0, response |-> resp0, nth |-> nth0] /\ gen0 \in Nat
            /\ y = [cableCache EXCEPT !.response = "none", !.nth = 0]
      BY <1>0
    <3>2. y = [generation |-> gen0, response |-> "none", nth |-> 0]
      BY ONLY <3>1
    <3>3. cableCache.generation = gen0
      BY ONLY <3>1
    <3> QED BY <2>1, <3>1, <3>2, <3>3
  <2>3. CacheTypes' /\ CacheOK'
    BY <1>0, <2>1, <2>2 DEF CableInv, CacheTypes, CacheOK
  <2>4. RegistryOK' /\ ShelfOK'
    BY <2>1 DEF CableInv, RegistryOK, ShelfOK, HasPack, ManifestOf
  <2> QED BY <1>0, <1>9, <2>1, <2>3, <2>4 DEF CableInv
<1>13. ASSUME NEW p \in DOMAIN Definitions, NEW h \in Healths, HealthReported(p, h) PROVE CableInv'
  <2>1. UNCHANGED <<config, shelf, mistakes, cableCache, activations, packOps, reads, starts>>
        /\ Definitions[p].reports /\ p \notin config.off /\ registry[p].mode # "unavailable"
    BY <1>13 DEF HealthReported
  <2>2. registry \in [DOMAIN Definitions -> Entries] /\ {"cables", "celestrak"} \subseteq DOMAIN Definitions /\ p # "cables"
        /\ config.off \subseteq DOMAIN Definitions
    BY <1>0, <2>1, DefinitionsAssumption, CableAssumption DEF CableInv, RegistryOK
  <2>3. PICK mode, old, e : registry[p] = [mode |-> mode, health |-> old] /\ e = [registry[p] EXCEPT !.health = h]
          /\ mode \in {"seed", "live", "download_pack", "unavailable"}
    BY <2>2 DEF Entries
  <2>4. e = [mode |-> mode, health |-> h]
    BY ONLY <2>3
  <2>5. registry' = [registry EXCEPT ![p] = e] /\ e \in Entries
    BY <1>13, <2>2, <2>3, <2>4 DEF HealthReported, Entries
  <2>6. registry' \in [DOMAIN Definitions -> Entries] /\ \A q \in DOMAIN Definitions : q # p => registry'[q] = registry[q]
    BY <2>2, <2>5
  <2>7. config.requested = "live" /\ ~config.licensed => p # "celestrak"
    BY <2>1 DEF CableInv, RegistryOK, Out
  <2>8. registry'["cables"] = registry["cables"]
    BY <2>2, <2>6
  <2>9. \A q \in config.off : registry'[q].health # "healthy"
    BY <2>1, <2>2, <2>6 DEF CableInv, RegistryOK
  <2>10. config.requested = "live" /\ ~config.licensed => registry'["celestrak"] = Out
    BY <2>2, <2>6, <2>7 DEF CableInv, RegistryOK
  <2>11. RegistryOK'
    BY <2>1, <2>6, <2>8, <2>9, <2>10 DEF CableInv, RegistryOK
  <2>12. ShelfOK'
    BY <2>1 DEF CableInv, ShelfOK, HasPack, ManifestOf
  <2> QED BY <1>0, <1>2, <1>9, <2>1, <2>11, <2>12 DEF CableInv
<1>14. ASSUME RestartServer PROVE CableInv'
  <2>1. /\ starts' \in 0..MaxStarts /\ registry' = ConfiguredRegistry(config) /\ shelf' = NoContent /\ mistakes' = {}
        /\ cableCache' = Fresh /\ activations' = [a \in Activators |-> none] /\ config' = config
        /\ reads' = [r \in CableReaders |-> NotRead]
        /\ packOps' = [o \in PackOps |->
             IF packOps[o].state = "reserved" THEN [packOps[o] EXCEPT !.state = "doubt"] ELSE packOps[o]]
    BY <1>0, <1>3, <1>14 DEF RestartServer
  <2>2. shelf'.pack = NoPack /\ shelf'.nth = 0
    BY <2>1 DEF NoContent
  <2>3. RegistryOK'
    BY <1>0, <2>1, <2>2, ConfiguredIs DEF RegistryOK
  <2>4. ShelfOK'
    BY <2>2 DEF ShelfOK
  <2>5. CacheTypes' /\ CacheOK'
    BY <2>1, <2>2 DEF Fresh, NotRead, CacheTypes, CacheOK, Readings
  <2>6. packOps' \in [PackOps -> PackOperations]
    <3>1. \A o \in PackOps : [packOps[o] EXCEPT !.state = "doubt"] \in PackOperations /\ packOps[o] \in PackOperations
      BY <1>0 DEF PackOperations
    <3> QED BY <2>1, <3>1
  <2>7. CableRequestOK(none, packOps') /\ ~Running(none) /\ none.code # "activated"
    BY <1>4 DEF CableRequestOK, Running
  <2>8. activations' \in [Activators -> CableRequests] /\ \A a \in Activators : activations'[a] = none
    BY <1>4, <2>1
  <2>9. RequestsOK'
    BY <2>6, <2>7, <2>8 DEF RequestsOK
  <2> QED BY <1>0, <2>1, <2>3, <2>4, <2>5, <2>9 DEF CableInv
<1>15. CASE UNCHANGED cableVars
  <2>1. ServerKept /\ activations' = activations /\ packOps' = packOps /\ reads' = reads /\ starts' = starts
    BY <1>15 DEF cableVars, ServerKept
  <2>2. /\ config' \in Configs /\ mistakes' \subseteq Packs /\ RegistryOK' /\ ShelfOK' /\ cableCache' = cableCache
        /\ shelf' = shelf
    BY <2>1, KeptServer
  <2> QED BY <1>0, <1>2, <1>9, <2>1, <2>2 DEF CableInv
<1> QED BY <1>5, <1>6, <1>7, <1>8, <1>10, <1>11, <1>12, <1>13, <1>14, <1>15 DEF CableNext, Healths

LEMMA CableInductive == CableSpec => []CableInv
<1> QED BY CableInitially, CableStep, PTL DEF CableSpec

(* The registry, the shelf and the operations have their types.            *)
THEOREM CableTypeCorrect == CableSpec => []CableTypeOK
<1>1. CableInv => CableTypeOK
  BY DEF CableInv, CableTypeOK, RegistryOK, ShelfOK, RequestsOK, Entries, Healths, PackOperations
<1> QED BY <1>1, CableInductive, PTL

(* For any packs, manifests, providers and requests: what is served is     *)
(* what its manifest pinned, no read after an activation is of the pack    *)
(* before, an operation runs once, and the two health reports agree        *)
(* (registry.ts, cables.ts, cablePackActivation.ts).                       *)
THEOREM CableAlwaysTrue == CableSpec => []PacksTrue
<1>1. ASSUME CableInv PROVE PacksTrue
  <2>1. ServedAsPinned
    BY <1>1 DEF CableInv, RegistryOK, ShelfOK, ServedAsPinned
  <2>2. ActivationSeen
    BY <1>1 DEF CableInv, CacheOK, ActivationSeen
  <2>3. FlagsRunOnce
    BY <1>1 DEF CableInv, RequestsOK, CableRequestOK, Running, FlagsRunOnce
  <2>4. ReportsAgree
    <3>1. /\ registry \in [DOMAIN Definitions -> Entries] /\ config \in Configs
          /\ \A p \in config.off : registry[p].health # "healthy"
          /\ ~config.cables => registry["cables"].health # "healthy"
          /\ config.requested = "live" /\ ~config.licensed => registry["celestrak"] = Out
      BY <1>1 DEF CableInv, RegistryOK
    <3>2. SystemStatus(registry) = "ok" => RegistryStatus(registry) = "healthy"
      <4> SUFFICES ASSUME SystemStatus(registry) = "ok" PROVE RegistryStatus(registry) = "healthy"
        OBVIOUS
      <4>1. \A p \in DOMAIN Definitions : Definitions[p].built = "implemented" => registry[p].health = "healthy"
        BY <3>1 DEF SystemStatus
      <4>2. PICK feeds : feeds = {f \in FeedList(registry) : f.built}
        OBVIOUS
      <4>3. ASSUME NEW f \in feeds PROVE f.status = "healthy"
        <5>5. PICK p \in DOMAIN Definitions :
                \E g \in Definitions[p].feeds :
                  f = [provider |-> p, built |-> g, status |-> IF g THEN registry[p].health ELSE "unavailable"]
          BY <3>1, <4>2, <4>3 DEF FeedList
        <5>1. PICK g \in Definitions[p].feeds :
                f = [provider |-> p, built |-> g, status |-> IF g THEN registry[p].health ELSE "unavailable"]
          BY <5>5
        <5>2. f.built
          BY <4>2, <4>3
        <5>3. g = TRUE
          BY <5>1, <5>2, DefinitionsAssumption
        <5>4. Definitions[p].built = "implemented"
          BY <5>1, <5>3, DefinitionsAssumption
        <5> QED BY <4>1, <5>1, <5>3, <5>4
      <4>4. feeds # {}
        <5>1. PICK p \in DOMAIN Definitions : TRUE \in Definitions[p].feeds
          BY DefinitionsAssumption
        <5>2. PICK f : f = [provider |-> p, built |-> TRUE, status |-> registry[p].health]
          OBVIOUS
        <5>3. f \in FeedList(registry) /\ f.built
          <6>1. PICK S : S = {[provider |-> p, built |-> g, status |-> IF g THEN registry[p].health ELSE "unavailable"] :
                                g \in Definitions[p].feeds}
            OBVIOUS
          <6>2. f \in S
            BY <5>1, <5>2, <6>1
          <6>3. S \in {{[provider |-> q, built |-> g, status |-> IF g THEN registry[q].health ELSE "unavailable"] :
                           g \in Definitions[q].feeds} : q \in DOMAIN registry}
            BY <3>1, <6>1
          <6>4. f \in FeedList(registry)
            BY <6>2, <6>3 DEF FeedList
          <6> QED BY <5>2, <6>4
        <5> QED BY <4>2, <5>3
      <4>5. ~(\A f \in feeds : f.status = "unavailable") /\ ~(\E f \in feeds : f.status # "healthy")
        BY <4>3, <4>4
      <4> QED BY <4>2, <4>5 DEF RegistryStatus
    <3>3. \A p \in config.off : ~IsActiveProvider(registry, p)
      BY <3>1 DEF IsActiveProvider
    <3>4. ~config.cables => ~IsActiveProvider(registry, "cables")
      BY <3>1 DEF IsActiveProvider
    <3>5. ActiveCount(registry) <= Cardinality({p \in DOMAIN Definitions : p \notin config.off})
      <4>1. PICK A, B : A = {p \in DOMAIN registry : IsActiveProvider(registry, p)}
                        /\ B = {p \in DOMAIN Definitions : p \notin config.off}
        OBVIOUS
      <4>2. A \subseteq B /\ B \subseteq DOMAIN Definitions
        BY <3>1, <3>3, <4>1
      <4>3. IsFiniteSet(B)
        BY <4>2, FS_Subset, DefinitionsAssumption
      <4> QED BY <4>1, <4>2, <4>3, FS_Subset DEF ActiveCount
    <3> QED BY <3>1, <3>2, <3>3, <3>4, <3>5 DEF ReportsAgree
  <2> QED BY <2>1, <2>2, <2>3, <2>4 DEF PacksTrue
<1> QED BY <1>1, CableInductive, PTL

-----------------------------------------------------------------------------
(* THE OFFICIAL FEEDS.  What loads and requests may be.                    *)
OfficialLoads ==
  [area : Areas \cup {"none"}, stage : 0..2, todo : Nat, wire : Nat, lost : BOOLEAN, read : SUBSET Supplied]
OfficialAnswers ==
  [area : Areas \cup {"none"}, load : Loads \cup {"none"},
   state : {"idle", "waiting", "forbidden", "limited", "failed", "stale", "answered"},
   records : SUBSET Supplied, at : Nat, health : {"unknown", "healthy", "degraded", "unavailable"}]

(* A load somebody waits for.                                              *)
StillWanted(load) == load.stage > 0 /\ ~load.lost

LoadOK(load) ==
  /\ load \in OfficialLoads /\ load.wire <= Width[official]
  /\ ~permitted => load = NoLoad

(* Every record of an answer was current at the time of the answer.        *)
AnswerCurrent(s) ==
  s.state = "answered" =>
    \A x \in s.records :
      /\ x.kind # "prediction" => s.at < x.to \/ s.at - x.from <= MaxAge
      /\ x.kind \in {"advisory", "sigmet"} => x.from <= s.at /\ s.at < x.to
      /\ x.kind = "prediction" => s.at <= x.from
      /\ x.kind = "alert" => s.at < x.to

(* Requests and loads belong together, and there is one load for a key.    *)
Waits(s, loads) ==
  s.state = "waiting" => /\ s.load \in Loads /\ StillWanted(loads[s.load])
                         /\ Rounded[s.area] = Rounded[loads[s.load].area]
Awaited(l, answers) == \E r \in Requesters : answers[r].state = "waiting" /\ answers[r].load = l
OnePerKey(loads) ==
  official \in {"tropical", "coastal"} =>
    \A l, m \in Loads :
      StillWanted(loads[l]) /\ StillWanted(loads[m]) /\ Rounded[loads[l].area] = Rounded[loads[m].area] => l = m

LoadsInv ==
  /\ loading \in [Loads -> OfficialLoads] /\ asking \in [Requesters -> OfficialAnswers]
  /\ \A l \in Loads : LoadOK(loading[l])
  /\ \A r \in Requesters : AnswerCurrent(asking[r]) /\ Waits(asking[r], loading)
  /\ \A l \in Loads : StillWanted(loading[l]) => Awaited(l, asking)
  /\ OnePerKey(loading)

(* The requests from time t on for an hour; those of the last hour are     *)
(* kept.                                                                   *)
From(times, t) == {i \in DOMAIN times : t <= times[i] /\ times[i] < t + Hour}
SpentInv ==
  /\ spent \in Seq(0..officialNow) /\ requestTimes \subseteq DOMAIN spent
  /\ \A i \in DOMAIN spent : officialNow - spent[i] < Hour => i \in requestTimes
  /\ \A t \in Int : Cardinality(From(spent, t)) <= Budget

OfficialInv ==
  /\ official \in Official /\ permitted \in BOOLEAN /\ officialNow \in 0..LastHour
  /\ LoadsInv /\ SpentInv

-----------------------------------------------------------------------------
(* The hour that ends now is within the budget, and what is admitted too.  *)
LEMMA LastHourCounted ==
  ASSUME OfficialInv
  PROVE  /\ InHour(requestTimes) = From(spent, officialNow - Hour + 1)
         /\ IsFiniteSet(InHour(requestTimes)) /\ Cardinality(InHour(requestTimes)) \in 0..Budget
<1>1. /\ spent \in Seq(0..officialNow) /\ requestTimes \subseteq DOMAIN spent /\ officialNow \in Nat /\ Hour \in Nat
      /\ Budget \in Nat
      /\ \A i \in DOMAIN spent : officialNow - spent[i] < Hour => i \in requestTimes
      /\ \A t \in Int : Cardinality(From(spent, t)) <= Budget
  BY OfficialAssumption DEF OfficialInv, SpentInv
<1>2. \A i \in DOMAIN spent : spent[i] \in Nat /\ spent[i] <= officialNow
  BY <1>1
<1>3. InHour(requestTimes) = From(spent, officialNow - Hour + 1)
  <2>1. ASSUME NEW i \in DOMAIN spent
        PROVE  (i \in requestTimes /\ officialNow - spent[i] < Hour)
               <=> (officialNow - Hour + 1 <= spent[i] /\ spent[i] < (officialNow - Hour + 1) + Hour)
    BY <1>1, <1>2
  <2> QED BY <1>1, <2>1 DEF InHour, From
<1>4. IsFiniteSet(From(spent, officialNow - Hour + 1))
  <2>1. IsFiniteSet(1..Len(spent)) /\ DOMAIN spent = 1..Len(spent)
    BY <1>1, FS_Interval
  <2> QED BY <2>1, FS_Subset DEF From
<1>5. officialNow - Hour + 1 \in Int
  BY <1>1
<1> QED BY <1>1, <1>3, <1>4, <1>5, FS_CardinalityType

LEMMA AdmittedBounds ==
  ASSUME OfficialInv, NEW n \in Nat
  PROVE  /\ Admitted(n) \in 0..n
         /\ official = "coastal" => Cardinality(InHour(requestTimes)) + Admitted(n) <= Budget
<1>1. PICK c : c = Cardinality(InHour(requestTimes))
  OBVIOUS
<1>2. c \in 0..Budget /\ Budget \in Nat
  BY <1>1, LastHourCounted, OfficialAssumption
<1>3. Admitted(n) = IF official = "coastal" THEN Least(n, Budget - c) ELSE n
  BY <1>1 DEF Admitted
<1>4. Least(n, Budget - c) \in 0..n /\ c + Least(n, Budget - c) <= Budget
  BY <1>2 DEF Least
<1> QED BY <1>1, <1>3, <1>4

(* Whatever the workers ask for, no hour sees more than the budget.        *)
LEMMA SpendKeeps ==
  ASSUME OfficialInv, NEW n \in Nat, Spend(Admitted(n)), officialNow' = officialNow
  PROVE  SpentInv'
<1>0. CASE official # "coastal"
  <2>1. requestTimes' = requestTimes /\ spent' = spent
    BY <1>0 DEF Spend
  <2> QED BY <2>1 DEF OfficialInv, SpentInv, From
<1>1. CASE official = "coastal"
  <2>1. PICK c, k, now : c = Cardinality(InHour(requestTimes)) /\ k = Admitted(n) /\ now = officialNow
    OBVIOUS
  <2>2. /\ c \in Nat /\ k \in Nat /\ c + k <= Budget /\ Budget \in Nat /\ Hour \in Nat /\ now \in Nat
        /\ InHour(requestTimes) = From(spent, now - Hour + 1) /\ IsFiniteSet(From(spent, now - Hour + 1))
    BY <1>1, <2>1, LastHourCounted, AdmittedBounds, OfficialAssumption DEF OfficialInv
  <2>3. PICK old, N : old = spent /\ N = Len(spent)
    OBVIOUS
  <2>4. PICK sent : sent = [i \in 1..k |-> now]
    OBVIOUS
  <2>5. /\ old \in Seq(0..now) /\ N \in Nat /\ N = Len(old) /\ DOMAIN old = 1..N
        /\ \A i \in 1..N : old[i] \in Nat /\ old[i] <= now
        /\ \A t \in Int : Cardinality(From(old, t)) <= Budget
    BY <2>1, <2>3 DEF OfficialInv, SpentInv
  <2>6. sent \in Seq(0..now) /\ Len(sent) = k /\ \A i \in 1..k : sent[i] = now
    BY <2>2, <2>4
  <2>7. PICK new : new = old \o sent
    OBVIOUS
  <2>8. /\ new \in Seq(0..now) /\ DOMAIN new = 1..(N + k)
        /\ \A i \in 1..N : new[i] = old[i]
        /\ \A i \in (N + 1)..(N + k) : new[i] = now
    <3>1. new \in Seq(0..now) /\ Len(new) = N + k
      BY <2>5, <2>6, <2>7, ConcatProperties
    <3>2. \A i \in 1..(N + k) : new[i] = IF i <= N THEN old[i] ELSE sent[i - N]
      BY <2>5, <2>6, <2>7, ConcatProperties
    <3>3. ASSUME NEW i \in (N + 1)..(N + k) PROVE new[i] = now
      <4>1. i - N \in 1..k /\ i \in 1..(N + k) /\ ~(i <= N)
        BY <2>2, <2>5
      <4> QED BY <3>2, <4>1, <2>6
    <3>4. ASSUME NEW i \in 1..N PROVE new[i] = old[i]
      <4>1. i \in 1..(N + k) /\ i <= N
        BY <2>2, <2>5
      <4> QED BY <3>2, <4>1
    <3> QED BY <3>1, <3>3, <3>4
  <2>9. spent' = new /\ officialNow' = now /\ requestTimes' = From(old, now - Hour + 1) \cup ((N + 1)..(N + k))
    BY <1>1, <2>1, <2>2, <2>3, <2>4, <2>7 DEF Spend
  <2>10. requestTimes' \subseteq DOMAIN new
    BY <2>2, <2>5, <2>8, <2>9 DEF From
  <2>11. ASSUME NEW i \in DOMAIN new, now - new[i] < Hour PROVE i \in requestTimes'
    <3>1. CASE i \in 1..N
      <4>1. new[i] = old[i] /\ old[i] \in Nat /\ old[i] <= now
        BY <3>1, <2>5, <2>8
      <4>2. now - Hour + 1 <= old[i] /\ old[i] < (now - Hour + 1) + Hour
        BY <4>1, <2>2, <2>11
      <4> QED BY <3>1, <4>2, <2>5, <2>9 DEF From
    <3>2. CASE i \in (N + 1)..(N + k)
      BY <3>2, <2>9
    <3> QED BY <2>2, <2>5, <2>8, <3>1, <3>2
  <2>12. ASSUME NEW t \in Int PROVE Cardinality(From(new, t)) <= Budget
    <3>1. CASE ~(t <= now /\ now < t + Hour)
      <4>1. From(new, t) = From(old, t)
        <5>1. ASSUME NEW i \in From(new, t) PROVE i \in From(old, t)
          <6>1. i \in 1..(N + k) /\ t <= new[i] /\ new[i] < t + Hour
            BY <5>1, <2>8 DEF From
          <6>2. i \in 1..N
            <7>1. N \in Nat /\ k \in Nat
              BY <2>2, <2>5
            <7>2. i \in 1..N \/ i \in (N + 1)..(N + k)
              BY <6>1, <7>1
            <7>3. i \in (N + 1)..(N + k) => new[i] = now
              BY <2>8
            <7> QED BY <7>2, <7>3, <6>1, <3>1
          <6> QED BY <6>1, <6>2, <2>5, <2>8 DEF From
        <5>2. ASSUME NEW i \in From(old, t) PROVE i \in From(new, t)
          BY <5>2, <2>2, <2>5, <2>8 DEF From
        <5> QED BY <5>1, <5>2
      <4> QED BY <4>1, <2>5
    <3>2. CASE t <= now /\ now < t + Hour
      <4>1. PICK H, M : H = From(old, now - Hour + 1) /\ M = (N + 1)..(N + k)
        OBVIOUS
      <4>2. From(new, t) \subseteq H \cup M
        <5> SUFFICES ASSUME NEW i \in From(new, t), i \notin M PROVE i \in From(old, now - Hour + 1)
          BY <4>1
        <5>1. i \in 1..N /\ t <= new[i]
          BY <4>1, <2>2, <2>5, <2>8 DEF From
        <5>2. new[i] = old[i] /\ old[i] \in Nat /\ old[i] <= now
          BY <5>1, <2>5, <2>8
        <5>3. now - Hour + 1 <= old[i] /\ old[i] < (now - Hour + 1) + Hour
          BY <5>1, <5>2, <3>2, <2>2
        <5> QED BY <5>1, <5>3, <2>5 DEF From
      <4>3. IsFiniteSet(H) /\ Cardinality(H) = c
        BY <4>1, <2>1, <2>2, <2>3
      <4>4. IsFiniteSet(M) /\ Cardinality(M) = k
        <5>1. IsFiniteSet(M) /\ Cardinality(M) = IF N + 1 > N + k THEN 0 ELSE (N + k) - (N + 1) + 1
          <6>1. N + 1 \in Int /\ N + k \in Int
            BY <2>2, <2>5
          <6> QED BY <6>1, <4>1, FS_Interval
        <5> QED BY <5>1, <2>2, <2>5
      <4>5. IsFiniteSet(H \cup M) /\ Cardinality(H \cup M) <= c + k
        <5>1. /\ IsFiniteSet(H \cup M)
              /\ Cardinality(H \cup M) = Cardinality(H) + Cardinality(M) - Cardinality(H \cap M)
          BY <4>3, <4>4, FS_Union
        <5>2. IsFiniteSet(H \cap M) /\ Cardinality(H \cap M) \in Nat
          BY <4>3, FS_Subset, FS_CardinalityType
        <5> QED BY <5>1, <5>2, <4>3, <4>4, <2>2
      <4>6. Cardinality(From(new, t)) <= Cardinality(H \cup M) /\ Cardinality(From(new, t)) \in Nat
            /\ Cardinality(H \cup M) \in Nat
        BY <4>2, <4>5, FS_Subset, FS_CardinalityType
      <4> QED BY <4>5, <4>6, <2>2
    <3> QED BY <3>1, <3>2
  <2> QED BY <2>8, <2>9, <2>10, <2>11, <2>12 DEF SpentInv, From
<1> QED BY <1>0, <1>1

-----------------------------------------------------------------------------
(* A record that is kept is current by its kind.                           *)
OutcomeOK(o) ==
  /\ o.state \in {"limited", "failed", "stale", "answered"} /\ o.records \subseteq Supplied
  /\ o.health \in {"healthy", "degraded", "unavailable"} /\ o.at \in Nat
  /\ AnswerCurrent(o)

LEMMA OutcomeCurrent ==
  ASSUME OfficialInv, NEW read \in SUBSET Supplied
  PROVE  OutcomeOK(Outcome(read))
<1>1. PICK kept : kept = {x \in read : Current(x)}
  OBVIOUS
<1>2. officialNow \in Nat
  BY DEF OfficialInv
<1>3. CASE StaleAlerts(read)
  <2>1. Outcome(read) = [state |-> "stale", records |-> {}, at |-> officialNow, health |-> "unavailable"]
    BY <1>3 DEF Outcome
  <2> QED BY <2>1, <1>2 DEF OutcomeOK, AnswerCurrent
<1>4. CASE ~StaleAlerts(read)
  <2>1. PICK h, o : h = (IF \A k \in Products : FreshProduct(k, read, kept) THEN "healthy" ELSE "degraded")
                    /\ o = [state |-> "answered", records |-> kept, at |-> officialNow, health |-> h]
    OBVIOUS
  <2>2. Outcome(read) = o
    BY <1>1, <1>4, <2>1 DEF Outcome
  <2>3. h \in {"healthy", "degraded"}
    BY <2>1
  <2>4. o.state = "answered" /\ o.records = kept /\ o.at = officialNow /\ o.health = h
    BY ONLY <2>1
  <2>5. ASSUME NEW x \in kept
        PROVE  /\ x.kind # "prediction" => officialNow < x.to \/ officialNow - x.from <= MaxAge
               /\ x.kind \in {"advisory", "sigmet"} => x.from <= officialNow /\ officialNow < x.to
               /\ x.kind = "prediction" => officialNow <= x.from
               /\ x.kind = "alert" => officialNow < x.to
    <3>1. CurrentAviation(x) \/ CurrentCoastal(x) \/ CurrentTropical(x) \/ CurrentAlert(x)
      BY <1>1 DEF Current
    <3>2. CASE CurrentAviation(x)
      BY <3>2 DEF CurrentAviation, Observed, InForce
    <3>3. CASE CurrentCoastal(x)
      BY <3>3 DEF CurrentCoastal, Observed
    <3>4. CASE CurrentTropical(x)
      BY <3>4 DEF CurrentTropical, InForce
    <3>5. CASE CurrentAlert(x)
      BY <3>5 DEF CurrentAlert
    <3> QED BY <3>1, <3>2, <3>3, <3>4, <3>5
  <2>6. AnswerCurrent(o)
    BY <2>4, <2>5 DEF AnswerCurrent
  <2> QED BY <1>1, <1>2, <2>2, <2>3, <2>4, <2>6 DEF OutcomeOK
<1> QED BY <1>3, <1>4

LEMMA FailureKnown ==
  ASSUME OfficialInv, NEW why \in {"limited", "failed"}
  PROVE  OutcomeOK(Failure(why))
<1>1. PICK o : o = [state |-> why, records |-> {}, at |-> officialNow, health |-> "degraded"]
  OBVIOUS
<1>2. Failure(why) = o /\ o.state = why /\ o.records = {} /\ o.at = officialNow /\ o.health = "degraded"
  BY <1>1 DEF Failure
<1> QED BY <1>2 DEF OutcomeOK, AnswerCurrent, OfficialInv

(* What is left of a load when its last worker has ended.                  *)
LEMMA FreedKnown ==
  ASSUME OfficialInv, permitted, NEW load \in OfficialLoads, load.wire <= Width[official]
  PROVE  /\ LoadOK(Freed(load)) /\ (StillWanted(Freed(load)) <=> StillWanted(load))
         /\ StillWanted(load) => Freed(load).area = load.area
<1>1. NoLoad \in OfficialLoads /\ NoLoad.wire = 0 /\ NoLoad.stage = 0
  BY DEF NoLoad, OfficialLoads
<1>2. Width[official] \in Nat
  BY OfficialAssumption DEF OfficialInv
<1>3. CASE load.lost /\ load.wire = 0
  BY <1>1, <1>2, <1>3 DEF Freed, LoadOK, StillWanted
<1>4. CASE ~(load.lost /\ load.wire = 0)
  BY <1>4 DEF Freed, LoadOK, StillWanted
<1> QED BY <1>3, <1>4

(* A stage that begins sends what is admitted of its workers' tasks.       *)
LEMMA BegunKnown ==
  ASSUME OfficialInv, NEW load \in OfficialLoads, NEW stage \in 1..2, NEW n \in Nat
  PROVE  /\ Begun(load, stage, n) \in OfficialLoads /\ Begun(load, stage, n).wire <= Width[official]
         /\ Begun(load, stage, n).area = load.area /\ Begun(load, stage, n).stage = stage
         /\ \E w \in Nat : Begun(load, stage, n).wire = Admitted(w)
<1>1. PICK w, m : w = Least(Width[official], n) /\ m = Admitted(w)
  OBVIOUS
<1>2. w \in Nat /\ w <= Width[official] /\ w <= n /\ Width[official] \in Nat
  BY <1>1, OfficialAssumption DEF Least, OfficialInv
<1>3. m \in Nat /\ m <= w
  BY <1>1, <1>2, AdmittedBounds
<1>4. PICK area, st, todo, wire, lost, read :
        /\ load = [area |-> area, stage |-> st, todo |-> todo, wire |-> wire, lost |-> lost, read |-> read]
        /\ area \in Areas \cup {"none"} /\ read \in SUBSET Supplied
  BY DEF OfficialLoads
<1>5. PICK b, d, e : d = n - w /\ e = (m < w)
                     /\ b = [load EXCEPT !.stage = stage, !.todo = d, !.wire = m, !.lost = e]
  OBVIOUS
<1>6. Begun(load, stage, n) = b
  BY <1>1, <1>5 DEF Begun
<1>7. b = [area |-> area, stage |-> stage, todo |-> d, wire |-> m, lost |-> e, read |-> read]
  <2>1. load = [area |-> area, stage |-> st, todo |-> todo, wire |-> wire, lost |-> lost, read |-> read]
    BY ONLY <1>4
  <2>2. b = [load EXCEPT !.stage = stage, !.todo = d, !.wire = m, !.lost = e]
    BY ONLY <1>5
  <2> QED BY ONLY <2>1, <2>2
<1>8. d \in Nat /\ e \in BOOLEAN
  BY <1>2, <1>5
<1>9. b.area = area /\ b.stage = stage /\ b.wire = m /\ load.area = area
  BY ONLY <1>4, <1>7
<1>10. b \in OfficialLoads
  BY <1>3, <1>4, <1>7, <1>8 DEF OfficialLoads
<1> QED BY <1>1, <1>2, <1>3, <1>6, <1>9, <1>10

-----------------------------------------------------------------------------
(* A load goes on, and who waits for it waits on.                          *)
LEMMA LoadGoesOn ==
  ASSUME OfficialInv, NEW l \in Loads, NEW x, loading' = [loading EXCEPT ![l] = x], asking' = asking,
         official' = official, permitted' = permitted, LoadOK(x), StillWanted(x) <=> StillWanted(loading[l]),
         StillWanted(x) => x.area = loading[l].area
  PROVE  LoadsInv'
<1>1. /\ loading \in [Loads -> OfficialLoads] /\ asking \in [Requesters -> OfficialAnswers]
      /\ \A m \in Loads : LoadOK(loading[m])
      /\ \A r \in Requesters : AnswerCurrent(asking[r]) /\ Waits(asking[r], loading)
      /\ \A m \in Loads : StillWanted(loading[m]) => Awaited(m, asking)
      /\ OnePerKey(loading)
  BY DEF OfficialInv, LoadsInv
<1>2. \A m \in Loads : loading'[m] = IF m = l THEN x ELSE loading[m]
  BY <1>1
<1>3. loading' \in [Loads -> OfficialLoads] /\ asking' \in [Requesters -> OfficialAnswers]
  BY <1>1 DEF LoadOK
<1>4. \A m \in Loads : /\ StillWanted(loading'[m]) <=> StillWanted(loading[m])
                       /\ StillWanted(loading'[m]) => loading'[m].area = loading[m].area
  BY <1>2
<1>5. \A m \in Loads : LoadOK(loading[m])'
  BY <1>1, <1>2 DEF LoadOK
<1>6. ASSUME NEW r \in Requesters PROVE AnswerCurrent(asking[r])' /\ Waits(asking'[r], loading')
  BY <1>1, <1>4 DEF AnswerCurrent, Waits
<1>7. \A m \in Loads : StillWanted(loading'[m]) => Awaited(m, asking')
  BY <1>1, <1>4
<1>8. OnePerKey(loading)'
  BY <1>1, <1>4 DEF OnePerKey
<1> QED BY <1>3, <1>5, <1>6, <1>7, <1>8 DEF LoadsInv

(* A load is over or lost, and who waited for it is told.                  *)
LEMMA LoadIsTold ==
  ASSUME OfficialInv, NEW l \in Loads, NEW x, loading' = [loading EXCEPT ![l] = x], NEW o, Tell(l, o), OutcomeOK(o),
         official' = official, permitted' = permitted, LoadOK(x), ~StillWanted(x)
  PROVE  LoadsInv'
<1>1. /\ loading \in [Loads -> OfficialLoads] /\ asking \in [Requesters -> OfficialAnswers]
      /\ \A m \in Loads : LoadOK(loading[m])
      /\ \A r \in Requesters : AnswerCurrent(asking[r]) /\ Waits(asking[r], loading)
      /\ \A m \in Loads : StillWanted(loading[m]) => Awaited(m, asking)
      /\ OnePerKey(loading)
  BY DEF OfficialInv, LoadsInv
<1>2. \A m \in Loads : loading'[m] = IF m = l THEN x ELSE loading[m]
  BY <1>1
<1>3. loading' \in [Loads -> OfficialLoads]
  BY <1>1 DEF LoadOK
<1>4. \A m \in Loads : /\ StillWanted(loading'[m]) => m # l
                       /\ m # l => loading'[m] = loading[m]
  BY <1>2
<1>5. \A m \in Loads : LoadOK(loading[m])'
  BY <1>1, <1>2 DEF LoadOK
<1>6. ASSUME NEW r \in Requesters
      PROVE  /\ asking[r].state = "waiting" /\ asking[r].load = l
                => asking'[r] = [area |-> asking[r].area, load |-> l, state |-> o.state,
                                 records |-> o.records, at |-> o.at, health |-> o.health]
             /\ ~(asking[r].state = "waiting" /\ asking[r].load = l) => asking'[r] = asking[r]
  BY DEF Tell
<1>7. ASSUME NEW r \in Requesters
      PROVE  /\ asking'[r] \in OfficialAnswers /\ AnswerCurrent(asking'[r])
             /\ asking'[r].state = "waiting" => asking'[r] = asking[r] /\ asking[r].load # l
  <2>1. CASE asking[r].state = "waiting" /\ asking[r].load = l
    <3>1. PICK y, area, st, recs, at, h :
            /\ y = [area |-> area, load |-> l, state |-> st, records |-> recs, at |-> at, health |-> h]
            /\ area = asking[r].area /\ st = o.state /\ recs = o.records /\ at = o.at /\ h = o.health
      OBVIOUS
    <3>2. asking'[r] = y
      BY <1>6, <2>1, <3>1
    <3>3. y = [area |-> area, load |-> l, state |-> st, records |-> recs, at |-> at, health |-> h]
      BY ONLY <3>1
    <3>4. y.state = st /\ y.records = recs /\ y.at = at
      BY ONLY <3>3
    <3>5. area \in Areas \cup {"none"} /\ st \in {"limited", "failed", "stale", "answered"}
          /\ recs \in SUBSET Supplied /\ at \in Nat /\ h \in {"healthy", "degraded", "unavailable"}
      BY <1>1, <3>1 DEF OfficialAnswers, OutcomeOK
    <3>6. y \in OfficialAnswers
      BY <3>3, <3>5 DEF OfficialAnswers
    <3>7. AnswerCurrent(y)
      BY <3>1, <3>4 DEF OutcomeOK, AnswerCurrent
    <3> QED BY <3>2, <3>4, <3>5, <3>6, <3>7
  <2>2. CASE ~(asking[r].state = "waiting" /\ asking[r].load = l)
    BY <1>1, <1>6, <2>2
  <2> QED BY <2>1, <2>2
<1>8. asking' \in [Requesters -> OfficialAnswers]
  <2>1. DOMAIN asking' = Requesters /\ asking' = [r \in Requesters |-> asking'[r]]
    BY DEF Tell
  <2> QED BY <2>1, <1>7
<1>9. ASSUME NEW r \in Requesters PROVE Waits(asking'[r], loading')
  BY <1>1, <1>4, <1>7 DEF Waits
<1>10. ASSUME NEW m \in Loads, StillWanted(loading'[m]) PROVE Awaited(m, asking')
  <2>1. m # l /\ Awaited(m, asking)
    BY <1>1, <1>4, <1>10
  <2>2. PICK r \in Requesters : asking[r].state = "waiting" /\ asking[r].load = m
    BY <2>1 DEF Awaited
  <2>3. asking'[r] = asking[r]
    BY <1>6, <2>1, <2>2
  <2> QED BY <2>2, <2>3 DEF Awaited
<1>11. OnePerKey(loading)'
  <2>1. \A m \in Loads : StillWanted(loading'[m]) => StillWanted(loading[m]) /\ loading'[m].area = loading[m].area
    BY <1>4
  <2>2. ASSUME official \in {"tropical", "coastal"}, NEW a \in Loads, NEW b \in Loads, StillWanted(loading'[a]),
               StillWanted(loading'[b]), Rounded[loading'[a].area] = Rounded[loading'[b].area]
        PROVE  a = b
    <3>1. /\ StillWanted(loading[a]) /\ StillWanted(loading[b])
          /\ Rounded[loading[a].area] = Rounded[loading[b].area]
      BY <2>1, <2>2
    <3> QED BY <1>1, <2>2, <3>1 DEF OnePerKey
  <2> QED BY <2>2 DEF OnePerKey
<1>12. \A r \in Requesters : AnswerCurrent(asking[r])'
  BY <1>7 DEF AnswerCurrent
<1> QED BY <1>3, <1>5, <1>8, <1>9, <1>10, <1>11, <1>12 DEF LoadsInv

(* A request is refused or joins a load.                                   *)
LEMMA OneAsks ==
  ASSUME OfficialInv, NEW r \in Requesters, NEW y \in OfficialAnswers, asking[r] = NoAnswer,
         asking' = [asking EXCEPT ![r] = y], loading' = loading, official' = official, permitted' = permitted,
         y.state \notin {"waiting", "answered"} \/ (y.state = "waiting" /\ Waits(y, loading))
  PROVE  LoadsInv'
<1>1. /\ loading \in [Loads -> OfficialLoads] /\ asking \in [Requesters -> OfficialAnswers]
      /\ \A m \in Loads : LoadOK(loading[m])
      /\ \A q \in Requesters : AnswerCurrent(asking[q]) /\ Waits(asking[q], loading)
      /\ \A m \in Loads : StillWanted(loading[m]) => Awaited(m, asking)
      /\ OnePerKey(loading)
  BY DEF OfficialInv, LoadsInv
<1>2. asking[r].state = "idle"
  BY DEF NoAnswer
<1>3. asking' \in [Requesters -> OfficialAnswers] /\ \A q \in Requesters : asking'[q] = IF q = r THEN y ELSE asking[q]
  BY <1>1
<1>4. \A m \in Loads : LoadOK(loading[m])'
  BY <1>1 DEF LoadOK
<1>5. ASSUME NEW q \in Requesters PROVE AnswerCurrent(asking[q])' /\ Waits(asking'[q], loading')
  BY <1>1, <1>3 DEF AnswerCurrent, Waits
<1>6. ASSUME NEW m \in Loads, StillWanted(loading'[m]) PROVE Awaited(m, asking')
  <2>1. PICK q \in Requesters : asking[q].state = "waiting" /\ asking[q].load = m
    BY <1>1, <1>6 DEF Awaited
  <2>2. asking'[q] = asking[q]
    BY <1>2, <1>3, <2>1
  <2> QED BY <2>1, <2>2 DEF Awaited
<1>7. OnePerKey(loading)'
  BY <1>1 DEF OnePerKey
<1> QED BY <1>1, <1>3, <1>4, <1>5, <1>6, <1>7 DEF LoadsInv

(* A request begins a load of its own, as there is none for its key.       *)
LEMMA LoadBegins ==
  ASSUME OfficialInv, NEW r \in Requesters, NEW y \in OfficialAnswers, asking[r] = NoAnswer,
         asking' = [asking EXCEPT ![r] = y], NEW l \in Loads, NEW x, loading[l] = NoLoad,
         loading' = [loading EXCEPT ![l] = x], official' = official, permitted' = permitted, LoadOK(x),
         NEW a \in Areas, InFlight(a) = {}, y.state # "answered", StillWanted(x) <=> y.state = "waiting",
         StillWanted(x) => x.area = a /\ y.area = a /\ y.load = l
  PROVE  LoadsInv'
<1>1. /\ loading \in [Loads -> OfficialLoads] /\ asking \in [Requesters -> OfficialAnswers]
      /\ \A m \in Loads : LoadOK(loading[m])
      /\ \A q \in Requesters : AnswerCurrent(asking[q]) /\ Waits(asking[q], loading)
      /\ \A m \in Loads : StillWanted(loading[m]) => Awaited(m, asking)
      /\ OnePerKey(loading)
  BY DEF OfficialInv, LoadsInv
<1>2. asking[r].state = "idle" /\ ~StillWanted(loading[l])
  BY DEF NoAnswer, NoLoad, StillWanted
<1>3. asking' \in [Requesters -> OfficialAnswers] /\ \A q \in Requesters : asking'[q] = IF q = r THEN y ELSE asking[q]
  BY <1>1
<1>4. loading' \in [Loads -> OfficialLoads] /\ \A m \in Loads : loading'[m] = IF m = l THEN x ELSE loading[m]
  BY <1>1 DEF LoadOK
<1>5. \A m \in Loads : LoadOK(loading[m])'
  BY <1>1, <1>4 DEF LoadOK
<1>6. ASSUME NEW q \in Requesters PROVE AnswerCurrent(asking[q])' /\ Waits(asking'[q], loading')
  <2>1. CASE q = r
    BY <2>1, <1>3, <1>4 DEF AnswerCurrent, Waits
  <2>2. CASE q # r
    <3>1. asking'[q] = asking[q]
      BY <2>2, <1>3
    <3>2. asking[q].state = "waiting" => asking[q].load # l /\ asking[q].load \in Loads
      BY <1>1, <1>2 DEF Waits
    <3> QED BY <1>1, <1>4, <3>1, <3>2 DEF AnswerCurrent, Waits
  <2> QED BY <2>1, <2>2
<1>7. ASSUME NEW m \in Loads, StillWanted(loading'[m]) PROVE Awaited(m, asking')
  <2>1. CASE m = l
    BY <2>1, <1>3, <1>4, <1>7 DEF Awaited
  <2>2. CASE m # l
    <3>1. PICK q \in Requesters : asking[q].state = "waiting" /\ asking[q].load = m
      BY <1>1, <1>4, <1>7, <2>2 DEF Awaited
    <3>2. asking'[q] = asking[q]
      BY <1>2, <1>3, <3>1
    <3> QED BY <3>1, <3>2 DEF Awaited
  <2> QED BY <2>1, <2>2
<1>8. OnePerKey(loading)'
  <2>1. ASSUME official \in {"tropical", "coastal"}, NEW m \in Loads, m # l, StillWanted(loading'[m])
        PROVE  Rounded[loading'[m].area] # Rounded[a]
    BY <1>4, <2>1 DEF InFlight, StillWanted
  <2>2. ASSUME official \in {"tropical", "coastal"}, NEW m \in Loads, NEW n \in Loads, StillWanted(loading'[m]),
               StillWanted(loading'[n]), Rounded[loading'[m].area] = Rounded[loading'[n].area]
        PROVE  m = n
    <3>1. CASE m # l /\ n # l
      BY <1>1, <1>4, <2>2, <3>1 DEF OnePerKey
    <3>2. CASE m = l \/ n = l
      BY <1>4, <2>1, <2>2, <3>2
    <3> QED BY <3>1, <3>2
  <2> QED BY <2>2 DEF OnePerKey
<1> QED BY <1>3, <1>4, <1>5, <1>6, <1>7, <1>8 DEF LoadsInv

-----------------------------------------------------------------------------
LEMMA OfficialInitially == OfficialInit => OfficialInv
<1> SUFFICES ASSUME OfficialInit PROVE OfficialInv
  OBVIOUS
<1>1. PICK none, idle : none = NoLoad /\ idle = NoAnswer
  OBVIOUS
<1>2. /\ none \in OfficialLoads /\ none.wire = 0 /\ ~StillWanted(none) /\ idle \in OfficialAnswers /\ idle.state = "idle"
  BY <1>1 DEF NoLoad, NoAnswer, OfficialLoads, OfficialAnswers, StillWanted
<1>3. /\ official \in Official /\ permitted \in BOOLEAN /\ officialNow = 0 /\ requestTimes = {} /\ spent = <<>>
      /\ loading = [l \in Loads |-> none] /\ asking = [r \in Requesters |-> idle]
  BY <1>1 DEF OfficialInit
<1>4. {Budget, LastHour} \subseteq Nat /\ Width[official] \in Nat
  BY <1>3, OfficialAssumption
<1>5. LoadsInv
  <2>1. \A l \in Loads : LoadOK(loading[l]) /\ ~StillWanted(loading[l])
    BY <1>1, <1>2, <1>3, <1>4 DEF LoadOK
  <2>2. \A r \in Requesters : AnswerCurrent(asking[r]) /\ Waits(asking[r], loading)
    BY <1>2, <1>3 DEF AnswerCurrent, Waits
  <2> QED BY <1>2, <1>3, <2>1, <2>2 DEF LoadsInv, OnePerKey
<1>6. SpentInv
  <2>1. \A t : From(spent, t) = {}
    BY <1>3 DEF From
  <2>2. Cardinality({}) = 0
    BY FS_EmptySet
  <2>3. \A t \in Int : Cardinality(From(spent, t)) <= Budget
    BY <1>4, <2>1, <2>2
  <2>4. spent \in Seq(0..officialNow) /\ DOMAIN spent = {}
    BY <1>3
  <2> QED BY <1>3, <2>3, <2>4 DEF SpentInv
<1> QED BY <1>3, <1>4, <1>5, <1>6 DEF OfficialInv

(* Only the clock and the requests change what is spent.                   *)
LEMMA SpentStays ==
  ASSUME OfficialInv, requestTimes' = requestTimes, spent' = spent, officialNow' = officialNow
  PROVE  SpentInv'
BY DEF OfficialInv, SpentInv, From

LEMMA AskKeeps ==
  ASSUME OfficialInv, NEW r \in Requesters, Ask(r)
  PROVE  OfficialInv'
<1>1. PICK a \in Areas : Forbidden(r, a) \/ Share(r, a) \/ \E l \in Loads : Load(r, a, l)
  BY DEF Ask
<1>2. PICK now : now = officialNow /\ now \in 0..LastHour /\ official \in Official /\ permitted \in BOOLEAN
  BY DEF OfficialInv
<1>3. now \in Nat
  BY <1>2
<1>4. ASSUME NEW why \in {"forbidden", "limited"}, Refuse(r, a, Failure(why))
      PROVE  \E y \in OfficialAnswers : y.state = why /\ asking' = [asking EXCEPT ![r] = y]
  <2>1. PICK f : f = [state |-> why, records |-> {}, at |-> now, health |-> "degraded"]
    OBVIOUS
  <2>2. Failure(why) = f /\ f.state = why /\ f.health = "degraded"
    BY <1>2, <2>1 DEF Failure
  <2>3. PICK y : y = [area |-> a, load |-> "none", state |-> why, records |-> {}, at |-> now, health |-> "degraded"]
    OBVIOUS
  <2>4. asking' = [asking EXCEPT ![r] = y]
    BY <1>2, <1>4, <2>2, <2>3 DEF Refuse
  <2>5. y \in OfficialAnswers /\ y.state = why
    BY <1>3, <2>3 DEF OfficialAnswers
  <2> QED BY <2>4, <2>5
<1>5. ASSUME NEW l \in Loads, AwaitLoad(r, l, a)
      PROVE  \E y \in OfficialAnswers : /\ y.state = "waiting" /\ y.load = l /\ y.area = a
                                        /\ asking' = [asking EXCEPT ![r] = y]
  <2>1. PICK none, y : none = NoAnswer /\ y = [none EXCEPT !.area = a, !.load = l, !.state = "waiting"]
    OBVIOUS
  <2>2. none = [area |-> "none", load |-> "none", state |-> "idle", records |-> {}, at |-> 0, health |-> "unknown"]
    BY <2>1 DEF NoAnswer
  <2>3. y = [none EXCEPT !.area = a, !.load = l, !.state = "waiting"]
    BY ONLY <2>1
  <2>4. y = [area |-> a, load |-> l, state |-> "waiting", records |-> {}, at |-> 0, health |-> "unknown"]
    BY ONLY <2>2, <2>3
  <2>5. asking' = [asking EXCEPT ![r] = y]
    BY <1>5, <2>1 DEF AwaitLoad
  <2>6. y \in OfficialAnswers /\ y.state = "waiting" /\ y.load = l /\ y.area = a
    BY <2>4 DEF OfficialAnswers
  <2> QED BY <2>5, <2>6
<1>6. CASE Forbidden(r, a)
  <2>1. /\ asking[r] = NoAnswer /\ Refuse(r, a, Failure("forbidden"))
        /\ UNCHANGED <<official, permitted, officialNow, requestTimes, spent, loading>>
    BY <1>6 DEF Forbidden
  <2>2. PICK y \in OfficialAnswers : y.state = "forbidden" /\ asking' = [asking EXCEPT ![r] = y]
    BY <1>4, <2>1
  <2>3. LoadsInv'
    BY <2>1, <2>2, OneAsks
  <2> QED BY <1>2, <2>1, <2>3, SpentStays DEF OfficialInv
<1>7. CASE Share(r, a)
  <2>1. PICK l \in InFlight(a) : AwaitLoad(r, l, a)
    BY <1>7 DEF Share
  <2>2. asking[r] = NoAnswer /\ UNCHANGED <<official, permitted, officialNow, requestTimes, spent, loading>>
    BY <1>7 DEF Share
  <2>3. l \in Loads /\ StillWanted(loading[l]) /\ Rounded[loading[l].area] = Rounded[a]
    BY <2>1 DEF InFlight, StillWanted
  <2>4. PICK y \in OfficialAnswers : /\ y.state = "waiting" /\ y.load = l /\ y.area = a
                                     /\ asking' = [asking EXCEPT ![r] = y]
    BY <1>5, <2>1, <2>3
  <2>5. Waits(y, loading)
    BY <2>3, <2>4 DEF Waits
  <2>6. LoadsInv'
    BY <2>2, <2>4, <2>5, OneAsks
  <2> QED BY <1>2, <2>2, <2>6, SpentStays DEF OfficialInv
<1>8. ASSUME NEW l \in Loads, Load(r, a, l) PROVE OfficialInv'
  <2>1. PICK none, new, n, b, x :
          /\ none = NoLoad /\ new = [none EXCEPT !.area = a] /\ n = Firsts[official]
          /\ b = Begun(new, 1, n) /\ x = Freed(b)
    OBVIOUS
  <2>2. /\ asking[r] = NoAnswer /\ permitted /\ InFlight(a) = {} /\ loading[l] = NoLoad
        /\ Spend(b.wire) /\ loading' = [loading EXCEPT ![l] = x]
        /\ (IF b.lost THEN Refuse(r, a, Failure("limited")) ELSE AwaitLoad(r, l, a))
        /\ UNCHANGED <<official, permitted, officialNow>>
    BY <1>8, <2>1 DEF Load
  <2>3. none = [area |-> "none", stage |-> 0, todo |-> 0, wire |-> 0, lost |-> FALSE, read |-> {}]
    BY <2>1 DEF NoLoad
  <2>4. new = [none EXCEPT !.area = a]
    BY ONLY <2>1
  <2>5. new = [area |-> a, stage |-> 0, todo |-> 0, wire |-> 0, lost |-> FALSE, read |-> {}]
    BY ONLY <2>3, <2>4
  <2>6. new \in OfficialLoads /\ new.area = a
    BY <2>5 DEF OfficialLoads
  <2>7. n \in Nat
    BY <1>2, <2>1, OfficialAssumption
  <2>8. /\ b \in OfficialLoads /\ b.wire <= Width[official] /\ b.area = a /\ b.stage = 1
        /\ \E w \in Nat : b.wire = Admitted(w)
    <3>1. 1 \in 1..2
      OBVIOUS
    <3>2. b = Begun(new, 1, n)
      BY ONLY <2>1
    <3>3. /\ Begun(new, 1, n) \in OfficialLoads /\ Begun(new, 1, n).wire <= Width[official]
          /\ Begun(new, 1, n).area = new.area /\ Begun(new, 1, n).stage = 1
          /\ \E w \in Nat : Begun(new, 1, n).wire = Admitted(w)
      BY <2>6, <2>7, <3>1, BegunKnown
    <3> QED BY <2>6, <3>2, <3>3
  <2>9. LoadOK(x) /\ (StillWanted(x) <=> StillWanted(b)) /\ (StillWanted(b) => x.area = a)
    BY <2>1, <2>2, <2>8, FreedKnown
  <2>10. StillWanted(b) <=> ~b.lost
    BY <2>8 DEF StillWanted
  <2>11. SpentInv'
    BY <2>2, <2>8, SpendKeeps
  <2>12. CASE b.lost
    <3>1. PICK y \in OfficialAnswers : y.state = "limited" /\ asking' = [asking EXCEPT ![r] = y]
      BY <1>4, <2>2, <2>12
    <3>2. LoadsInv'
      BY <2>2, <2>9, <2>10, <2>12, <3>1, LoadBegins
    <3> QED BY <1>2, <2>2, <2>11, <3>2 DEF OfficialInv
  <2>13. CASE ~b.lost
    <3>1. PICK y \in OfficialAnswers : /\ y.state = "waiting" /\ y.load = l /\ y.area = a
                                       /\ asking' = [asking EXCEPT ![r] = y]
      BY <1>5, <2>2, <2>13
    <3>2. LoadsInv'
      BY <2>2, <2>9, <2>10, <2>13, <3>1, LoadBegins
    <3> QED BY <1>2, <2>2, <2>11, <3>2 DEF OfficialInv
  <2> QED BY <2>12, <2>13
<1> QED BY <1>1, <1>6, <1>7, <1>8

(* What is known of a load that has a request on the wire.                 *)
LEMMA OnTheWire ==
  ASSUME OfficialInv, NEW l \in Loads, loading[l].wire > 0
  PROVE  /\ permitted /\ loading[l] \in OfficialLoads /\ loading[l].wire <= Width[official]
         /\ Width[official] \in Nat /\ (StillWanted(loading[l]) => loading[l].area = loading[l].area)
<1>1. LoadOK(loading[l]) /\ permitted \in BOOLEAN /\ official \in Official
  BY DEF OfficialInv, LoadsInv
<1>2. NoLoad.wire = 0
  BY DEF NoLoad
<1> QED BY <1>1, <1>2, OfficialAssumption DEF LoadOK

(* A step of a load's worker: its requests on the wire, what was read and  *)
(* whether it is lost change.                                              *)
LEMMA WorkerSteps ==
  ASSUME OfficialInv, NEW l \in Loads, loading[l].wire > 0, NEW x, NEW todo \in Nat, NEW wire \in Nat,
         wire <= loading[l].wire, NEW lost \in BOOLEAN, loading[l].lost => lost, NEW read \in SUBSET Supplied,
         x = [loading[l] EXCEPT !.todo = todo, !.wire = wire, !.lost = lost, !.read = read],
         loading' = [loading EXCEPT ![l] = Freed(x)], UNCHANGED <<official, permitted>>,
         IF lost THEN \/ asking' = asking /\ loading[l].lost
                      \/ \E o : OutcomeOK(o) /\ Tell(l, o)
                 ELSE asking' = asking
  PROVE  LoadsInv'
<1>1. permitted /\ loading[l] \in OfficialLoads /\ loading[l].wire <= Width[official] /\ Width[official] \in Nat
  BY OnTheWire
<1>2. PICK was : was = loading[l]
  OBVIOUS
<1>3. PICK area, stage, todo0, wire0, lost0, read0 :
        /\ was = [area |-> area, stage |-> stage, todo |-> todo0, wire |-> wire0, lost |-> lost0, read |-> read0]
        /\ area \in Areas \cup {"none"} /\ stage \in 0..2 /\ wire0 \in Nat /\ lost0 \in BOOLEAN
  BY <1>1, <1>2 DEF OfficialLoads
<1>4. was = [area |-> area, stage |-> stage, todo |-> todo0, wire |-> wire0, lost |-> lost0, read |-> read0]
  BY ONLY <1>3
<1>5. x = [was EXCEPT !.todo = todo, !.wire = wire, !.lost = lost, !.read = read]
  BY <1>2
<1>6. x = [area |-> area, stage |-> stage, todo |-> todo, wire |-> wire, lost |-> lost, read |-> read]
  BY ONLY <1>4, <1>5
<1>7. /\ x.area = area /\ x.stage = stage /\ x.wire = wire /\ x.lost = lost /\ was.area = area
      /\ was.stage = stage /\ was.wire = wire0 /\ was.lost = lost0
  BY ONLY <1>4, <1>6
<1>8. x \in OfficialLoads
  BY <1>3, <1>6 DEF OfficialLoads
<1>9. x.wire <= Width[official]
  BY <1>1, <1>2, <1>3, <1>7
<1>10. PICK f : f = Freed(x)
  OBVIOUS
<1>11. LoadOK(f) /\ (StillWanted(f) <=> StillWanted(x)) /\ (StillWanted(f) => f.area = area)
  BY <1>1, <1>7, <1>8, <1>9, <1>10, FreedKnown
<1>12. loading' = [loading EXCEPT ![l] = f] /\ official' = official /\ permitted' = permitted
  BY <1>10
<1>13. CASE ~lost
  <2>1. asking' = asking /\ ~lost0
    BY <1>2, <1>7, <1>13
  <2>2. StillWanted(f) <=> StillWanted(loading[l])
    BY <1>2, <1>7, <1>11, <1>13, <2>1 DEF StillWanted
  <2>3. StillWanted(f) => f.area = loading[l].area
    BY <1>2, <1>7, <1>11
  <2> QED BY <1>11, <1>12, <2>1, <2>2, <2>3, LoadGoesOn
<1>14. CASE lost
  <2>1. ~StillWanted(f)
    BY <1>7, <1>11, <1>14 DEF StillWanted
  <2>2. CASE asking' = asking /\ loading[l].lost
    <3>1. ~StillWanted(loading[l])
      BY <2>2 DEF StillWanted
    <3> QED BY <1>11, <1>12, <2>1, <2>2, <3>1, LoadGoesOn
  <2>3. CASE \E o : OutcomeOK(o) /\ Tell(l, o)
    <3>1. PICK o : OutcomeOK(o) /\ Tell(l, o)
      BY <2>3
    <3> QED BY <1>11, <1>12, <2>1, <3>1, LoadIsTold
  <2> QED BY <1>14, <2>2, <2>3
<1> QED BY <1>13, <1>14

LEMMA BroughtKnown ==
  ASSUME NEW l \in Loads, NEW y \in Replies(l)
  PROVE  y \subseteq Supplied
BY DEF Replies, Brought

LEMMA ReplyFailsKeeps ==
  ASSUME OfficialInv, NEW l \in Loads, ReplyFails(l)
  PROVE  OfficialInv'
<1>1. /\ loading[l].wire > 0 /\ Tell(l, Failure("failed"))
      /\ UNCHANGED <<official, permitted, officialNow, requestTimes, spent>>
  BY DEF ReplyFails
<1>2. loading[l] \in OfficialLoads
  BY <1>1, OnTheWire
<1>3. PICK todo, wire, read : todo = loading[l].todo /\ wire = loading[l].wire - 1 /\ read = loading[l].read
  OBVIOUS
<1>4. todo \in Nat /\ wire \in Nat /\ wire <= loading[l].wire /\ read \in SUBSET Supplied
  BY <1>1, <1>2, <1>3 DEF OfficialLoads
<1>5. PICK x : x = [loading[l] EXCEPT !.wire = wire, !.lost = TRUE]
  OBVIOUS
<1>6. x = [loading[l] EXCEPT !.todo = todo, !.wire = wire, !.lost = TRUE, !.read = read]
  BY <1>2, <1>3, <1>5 DEF OfficialLoads
<1>7. loading' = [loading EXCEPT ![l] = Freed(x)]
  <2>1. loading \in [Loads -> OfficialLoads]
    BY DEF OfficialInv, LoadsInv
  <2>2. loading' = [loading EXCEPT ![l] = Freed([loading[l] EXCEPT !.wire = loading[l].wire - 1, !.lost = TRUE])]
    BY DEF ReplyFails
  <2> QED BY <1>3, <1>5, <2>2
<1>8. OutcomeOK(Failure("failed"))
  BY FailureKnown
<1>9. LoadsInv'
  BY <1>1, <1>4, <1>6, <1>7, <1>8, WorkerSteps
<1> QED BY <1>1, <1>9, SpentStays DEF OfficialInv

LEMMA NextTaskKeeps ==
  ASSUME OfficialInv, NEW l \in Loads, NEW y \in Replies(l), NextTask(l, y)
  PROVE  OfficialInv'
<1>1. /\ loading[l].wire > 0 /\ loading[l].todo > 0 /\ Spend(Admitted(1))
      /\ (IF Admitted(1) = 0 THEN Tell(l, Failure("limited")) ELSE UNCHANGED asking)
      /\ UNCHANGED <<official, permitted, officialNow>>
  BY DEF NextTask
<1>2. loading[l] \in OfficialLoads /\ y \subseteq Supplied
  BY <1>1, OnTheWire, BroughtKnown
<1>3. Admitted(1) \in 0..1
  BY AdmittedBounds
<1>4. PICK todo, wire, lost, read :
        /\ todo = loading[l].todo - 1 /\ wire = loading[l].wire - 1 + Admitted(1)
        /\ lost = (loading[l].lost \/ Admitted(1) = 0) /\ read = loading[l].read \cup y
  OBVIOUS
<1>5. loading[l].todo \in Nat /\ loading[l].wire \in Nat /\ loading[l].lost \in BOOLEAN
      /\ loading[l].read \in SUBSET Supplied
  BY <1>2 DEF OfficialLoads
<1>6. /\ todo \in Nat /\ wire \in Nat /\ wire <= loading[l].wire /\ lost \in BOOLEAN /\ read \in SUBSET Supplied
      /\ (loading[l].lost => lost)
  BY <1>1, <1>2, <1>3, <1>4, <1>5
<1>7. PICK x : x = [loading[l] EXCEPT !.todo = todo, !.wire = wire, !.lost = lost, !.read = read]
  OBVIOUS
<1>8. loading' = [loading EXCEPT ![l] = Freed(x)]
  <2>1. loading \in [Loads -> OfficialLoads]
    BY DEF OfficialInv, LoadsInv
  <2>2. loading' = [loading EXCEPT ![l] = Freed(
          [loading[l] EXCEPT !.todo = loading[l].todo - 1, !.wire = loading[l].wire - 1 + Admitted(1),
                    !.lost = loading[l].lost \/ Admitted(1) = 0, !.read = loading[l].read \cup y])]
    BY DEF NextTask
  <2> QED BY <1>4, <1>7, <2>2
<1>9. OutcomeOK(Failure("limited"))
  BY FailureKnown
<1>10. IF lost THEN (asking' = asking /\ loading[l].lost) \/ (\E o : OutcomeOK(o) /\ Tell(l, o)) ELSE asking' = asking
  <2>1. CASE Admitted(1) = 0
    BY <1>1, <1>4, <1>9, <2>1
  <2>2. CASE Admitted(1) # 0
    BY <1>1, <1>4, <1>5, <2>2
  <2> QED BY <2>1, <2>2
<1>11. LoadsInv'
  BY <1>1, <1>6, <1>7, <1>8, <1>10, WorkerSteps
<1>12. SpentInv'
  BY <1>1, SpendKeeps
<1> QED BY <1>1, <1>11, <1>12 DEF OfficialInv

LEMMA WorkerEndsKeeps ==
  ASSUME OfficialInv, NEW l \in Loads, NEW y \in Replies(l), WorkerEnds(l, y)
  PROVE  OfficialInv'
<1>1. loading[l].wire > 0 /\ UNCHANGED <<official, permitted, officialNow, requestTimes, spent, asking>>
  BY DEF WorkerEnds, LastTask
<1>2. loading[l] \in OfficialLoads /\ y \subseteq Supplied
  BY <1>1, OnTheWire, BroughtKnown
<1>3. PICK todo, wire, lost, read :
        /\ todo = loading[l].todo /\ wire = loading[l].wire - 1
        /\ lost = loading[l].lost /\ read = loading[l].read \cup y
  OBVIOUS
<1>4. loading[l].todo \in Nat /\ loading[l].wire \in Nat /\ loading[l].lost \in BOOLEAN
      /\ loading[l].read \in SUBSET Supplied
  BY <1>2 DEF OfficialLoads
<1>5. /\ todo \in Nat /\ wire \in Nat /\ wire <= loading[l].wire /\ lost \in BOOLEAN /\ read \in SUBSET Supplied
      /\ (loading[l].lost => lost)
  BY <1>1, <1>2, <1>3, <1>4
<1>6. PICK x : x = [loading[l] EXCEPT !.wire = wire, !.read = read]
  OBVIOUS
<1>7. x = [loading[l] EXCEPT !.todo = todo, !.wire = wire, !.lost = lost, !.read = read]
  BY <1>2, <1>3, <1>6 DEF OfficialLoads
<1>8. loading' = [loading EXCEPT ![l] = Freed(x)]
  <2>1. loading \in [Loads -> OfficialLoads]
    BY DEF OfficialInv, LoadsInv
  <2>2. loading' = [loading EXCEPT ![l] =
          Freed([loading[l] EXCEPT !.wire = loading[l].wire - 1, !.read = loading[l].read \cup y])]
    BY DEF WorkerEnds
  <2> QED BY <1>3, <1>6, <2>2
<1>9. IF lost THEN (asking' = asking /\ loading[l].lost) \/ (\E o : OutcomeOK(o) /\ Tell(l, o)) ELSE asking' = asking
  BY <1>1, <1>3, <1>4
<1>10. LoadsInv'
  BY <1>1, <1>5, <1>7, <1>8, <1>9, WorkerSteps
<1> QED BY <1>1, <1>10, SpentStays DEF OfficialInv

LEMMA SecondStageKeeps ==
  ASSUME OfficialInv, NEW l \in Loads, NEW y \in Replies(l), NEW n \in 1..MaxTasks, SecondStage(l, n, y)
  PROVE  OfficialInv'
<1>1. PICK was, ld, b, x : /\ was = loading[l] /\ ld = [was EXCEPT !.read = was.read \cup y]
                           /\ b = Begun(ld, 2, n) /\ x = Freed(b)
  OBVIOUS
<1>2. loading[l].wire > 0 /\ ~loading[l].lost /\ loading[l].stage = 1
      /\ UNCHANGED <<official, permitted, officialNow>>
  BY DEF SecondStage, LastTask
<1>3. loading \in [Loads -> OfficialLoads]
  BY DEF OfficialInv, LoadsInv
<1>4. /\ Spend(b.wire) /\ loading' = [loading EXCEPT ![l] = x]
      /\ (IF b.lost THEN Tell(l, Failure("limited")) ELSE UNCHANGED asking)
  <2>1. ld = [loading[l] EXCEPT !.read = @ \cup y]
    BY <1>1
  <2> QED BY <1>1, <1>3, <2>1 DEF SecondStage
<1>5. was \in OfficialLoads /\ y \subseteq Supplied /\ permitted
  BY <1>1, <1>2, OnTheWire, BroughtKnown
<1>6. PICK area, stage, todo, wire, lost, read, more :
        /\ was = [area |-> area, stage |-> stage, todo |-> todo, wire |-> wire, lost |-> lost, read |-> read]
        /\ area \in Areas \cup {"none"} /\ stage \in 0..2 /\ todo \in Nat /\ wire \in Nat /\ lost \in BOOLEAN
        /\ read \in SUBSET Supplied /\ more = read \cup y
  BY <1>5 DEF OfficialLoads
<1>7. was = [area |-> area, stage |-> stage, todo |-> todo, wire |-> wire, lost |-> lost, read |-> read]
  BY ONLY <1>6
<1>8. was.read = read /\ was.area = area
  BY ONLY <1>7
<1>9. ld = [was EXCEPT !.read = more]
  BY <1>1, <1>6, <1>8
<1>10. ld = [area |-> area, stage |-> stage, todo |-> todo, wire |-> wire, lost |-> lost, read |-> more]
  BY ONLY <1>7, <1>9
<1>11. ld \in OfficialLoads /\ ld.area = area
  BY <1>5, <1>6, <1>10 DEF OfficialLoads
<1>12. /\ b \in OfficialLoads /\ b.wire <= Width[official] /\ b.area = area /\ b.stage = 2
       /\ \E w \in Nat : b.wire = Admitted(w)
  <2>1. 2 \in 1..2 /\ n \in Nat
    BY OfficialAssumption
  <2>2. b = Begun(ld, 2, n)
    BY ONLY <1>1
  <2>3. /\ Begun(ld, 2, n) \in OfficialLoads /\ Begun(ld, 2, n).wire <= Width[official]
        /\ Begun(ld, 2, n).area = ld.area /\ Begun(ld, 2, n).stage = 2
        /\ \E w \in Nat : Begun(ld, 2, n).wire = Admitted(w)
    BY <1>11, <2>1, BegunKnown
  <2> QED BY <1>11, <2>2, <2>3
<1>13. LoadOK(x) /\ (StillWanted(x) <=> StillWanted(b)) /\ (StillWanted(x) => x.area = loading[l].area)
  BY <1>1, <1>5, <1>8, <1>12, FreedKnown
<1>14. SpentInv'
  BY <1>2, <1>4, <1>12, SpendKeeps
<1>15. StillWanted(loading[l])
  BY <1>2 DEF StillWanted
<1>16. CASE b.lost
  <2>1. ~StillWanted(x) /\ Tell(l, Failure("limited")) /\ OutcomeOK(Failure("limited"))
    BY <1>4, <1>13, <1>16, FailureKnown DEF StillWanted
  <2>2. LoadsInv'
    BY <1>2, <1>4, <1>13, <2>1, LoadIsTold
  <2> QED BY <1>2, <1>14, <2>2 DEF OfficialInv
<1>17. CASE ~b.lost
  <2>1. StillWanted(x) /\ asking' = asking
    BY <1>4, <1>12, <1>13, <1>17 DEF StillWanted
  <2>2. LoadsInv'
    BY <1>2, <1>4, <1>13, <1>15, <2>1, LoadGoesOn
  <2> QED BY <1>2, <1>14, <2>2 DEF OfficialInv
<1> QED BY <1>16, <1>17

LEMMA FinishKeeps ==
  ASSUME OfficialInv, NEW l \in Loads, NEW y \in Replies(l), Finish(l, y)
  PROVE  OfficialInv'
<1>1. PICK none : none = NoLoad
  OBVIOUS
<1>2. /\ loading[l].wire > 0 /\ Tell(l, Outcome(loading[l].read \cup y)) /\ loading' = [loading EXCEPT ![l] = none]
      /\ UNCHANGED <<official, permitted, officialNow, requestTimes, spent>>
  BY <1>1 DEF Finish, LastTask
<1>3. loading[l].read \cup y \in SUBSET Supplied /\ Width[official] \in Nat
  BY <1>2, OnTheWire, BroughtKnown DEF OfficialLoads
<1>4. OutcomeOK(Outcome(loading[l].read \cup y))
  BY <1>3, OutcomeCurrent
<1>5. LoadOK(none) /\ ~StillWanted(none)
  BY <1>1, <1>3 DEF LoadOK, NoLoad, OfficialLoads, StillWanted
<1>6. LoadsInv'
  BY <1>2, <1>4, <1>5, LoadIsTold
<1> QED BY <1>2, <1>6, SpentStays DEF OfficialInv

(* As time goes on fewer requests are of the last hour.                    *)
LEMMA OfficialTickKeeps ==
  ASSUME OfficialInv, OfficialTick
  PROVE  OfficialInv'
<1>1. /\ officialNow < LastHour /\ officialNow' = officialNow + 1 /\ LastHour \in Nat /\ Hour \in Nat
      /\ UNCHANGED <<official, permitted, requestTimes, spent, loading, asking>>
  BY OfficialAssumption DEF OfficialTick
<1>2. officialNow' \in 0..LastHour /\ officialNow \in Nat
  BY <1>1 DEF OfficialInv
<1>3. LoadsInv'
  BY <1>1 DEF OfficialInv, LoadsInv, LoadOK, AnswerCurrent, Waits, Awaited, OnePerKey
<1>4. SpentInv'
  <2>1. /\ spent \in Seq(0..officialNow) /\ requestTimes \subseteq DOMAIN spent
        /\ \A i \in DOMAIN spent : officialNow - spent[i] < Hour => i \in requestTimes
        /\ \A t \in Int : Cardinality(From(spent, t)) <= Budget
    BY DEF OfficialInv, SpentInv
  <2>2. spent \in Seq(0..(officialNow + 1)) /\ \A i \in DOMAIN spent : spent[i] \in Nat
    BY <1>2, <2>1
  <2>3. \A i \in DOMAIN spent : (officialNow + 1) - spent[i] < Hour => i \in requestTimes
    BY <1>1, <1>2, <2>1, <2>2
  <2> QED BY <1>1, <2>1, <2>2, <2>3 DEF SpentInv, From
<1> QED BY <1>1, <1>2, <1>3, <1>4 DEF OfficialInv

LEMMA OfficialInductive == OfficialSpec => []OfficialInv
<1>1. ASSUME OfficialInv, [OfficialNext]_officialVars PROVE OfficialInv'
  <2>1. CASE OfficialNext
    <3>1. ASSUME NEW l \in Loads, NEW y \in Replies(l),
                 NextTask(l, y) \/ WorkerEnds(l, y) \/ Finish(l, y) \/ \E n \in 1..MaxTasks : SecondStage(l, n, y)
          PROVE  OfficialInv'
      BY <1>1, <3>1, NextTaskKeeps, WorkerEndsKeeps, FinishKeeps, SecondStageKeeps
    <3> QED BY <1>1, <2>1, <3>1, AskKeeps, ReplyFailsKeeps, OfficialTickKeeps DEF OfficialNext
  <2>2. CASE UNCHANGED officialVars
    BY <1>1, <2>2 DEF officialVars, OfficialInv, LoadsInv, LoadOK, AnswerCurrent, Waits, Awaited, OnePerKey,
                      SpentInv, From
  <2> QED BY <1>1, <2>1, <2>2
<1> QED BY <1>1, OfficialInitially, PTL DEF OfficialSpec

(* The clock, the budget's requests, loads and answers have their types,   *)
(* and a request waits exactly for a load that is still wanted.            *)
THEOREM OfficialTypeCorrect == OfficialSpec => []OfficialTypeOK
<1>1. ASSUME OfficialInv PROVE OfficialTypeOK
  <2>1. ASSUME NEW l \in Loads
        PROVE  /\ loading[l].wire \in 0..Width[official]
               /\ (\E r \in Requesters : asking[r].state = "waiting" /\ asking[r].load = l)
                  <=> loading[l].stage > 0 /\ ~loading[l].lost
    <3>1. loading[l].wire \in 0..Width[official]
      BY <1>1, OfficialAssumption DEF OfficialInv, LoadsInv, LoadOK, OfficialLoads
    <3>2. StillWanted(loading[l]) => Awaited(l, asking)
      BY <1>1 DEF OfficialInv, LoadsInv
    <3>3. \A r \in Requesters : Waits(asking[r], loading)
      BY <1>1 DEF OfficialInv, LoadsInv
    <3> QED BY <3>1, <3>2, <3>3 DEF StillWanted, Awaited, Waits
  <2>2. \A r \in Requesters :
          asking[r].state \in {"idle", "waiting", "forbidden", "limited", "failed", "stale", "answered"}
    BY <1>1 DEF OfficialInv, LoadsInv, OfficialAnswers
  <2> QED BY <1>1, <2>1, <2>2 DEF OfficialTypeOK, OfficialInv, SpentInv
<1> QED BY <1>1, OfficialInductive, PTL

(* For any areas, loads, requests, widths and budgets: every record was    *)
(* current when it was answered, a request is answered from its own key    *)
(* and shares the one load of it, nothing leaves without permission, and   *)
(* no hour sees more requests than the budget, those of abandoned loads    *)
(* included (coastalConditions.ts:398, operationalHttp.ts).                *)
THEOREM OfficialAlwaysHonest == OfficialSpec => []OfficialHonest
<1>1. ASSUME OfficialInv PROVE OfficialHonest
  <2>1. \A r \in Requesters : AnswerCurrent(asking[r]) /\ Waits(asking[r], loading)
    BY <1>1 DEF OfficialInv, LoadsInv
  <2>2. ASSUME official \in {"tropical", "coastal"}, NEW a \in Areas PROVE Cardinality(InFlight(a)) <= 1
    <3>1. \A l, m \in InFlight(a) : l = m
      BY <1>1, <2>2 DEF OfficialInv, LoadsInv, OnePerKey, InFlight, StillWanted
    <3>2. CASE InFlight(a) = {}
      BY <3>2, FS_EmptySet
    <3>3. CASE InFlight(a) # {}
      <4>1. PICK l : InFlight(a) = {l}
        BY <3>1, <3>3
      <4> QED BY <4>1, FS_Singleton
    <3> QED BY <3>2, <3>3
  <2>3. ~permitted => \A l \in Loads : loading[l] = NoLoad
    BY <1>1 DEF OfficialInv, LoadsInv, LoadOK
  <2>4. \A t \in 0..LastHour : Cardinality({i \in DOMAIN spent : t <= spent[i] /\ spent[i] < t + Hour}) <= Budget
    BY <1>1 DEF OfficialInv, SpentInv, From
  <2> QED BY <2>1, <2>2, <2>3, <2>4 DEF OfficialHonest, AnswerCurrent, Waits
<1> QED BY <1>1, OfficialInductive, PTL

=============================================================================
