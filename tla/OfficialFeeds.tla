---------------------------- MODULE OfficialFeeds ----------------------------
(***************************************************************************)
(* The official operational feeds behind                                   *)
(* apps/server/src/routes/operationalAwareness.ts: NWS alerts, aviation    *)
(* weather, tropical cyclones and coastal conditions (packages/providers   *)
(* nwsAlerts.ts, aviationWeather.ts, tropicalCyclones.ts,                  *)
(* coastalConditions.ts over operationalHttp.ts and provenance.ts).        *)
(*                                                                         *)
(* A load asks upstream in two stages of concurrent requests and then      *)
(* keeps the records that are current.  Two of the feeds share the load of *)
(* an area between the requests for it, areas being told apart by rounded  *)
(* bounds, and one spends an hourly budget.  A record is its product and   *)
(* two times: since when (observed, sent or valid from) and until when.    *)
(***************************************************************************)
EXTENDS Integers, Sequences, FiniteSets, FiniteSetsExt

CONSTANTS
  Requesters,   \* concurrent requests
  Areas,        \* areas of interest, by their exact bounds
  Rounded,      \* area -> normalizedAoiKey
  Loads,        \* loads at a time, those with abandoned requests included
  Firsts,       \* official feed -> requests of its first stage
  Width,        \* official feed -> how many of a load are sent at a time
  MaxTasks,     \* bound on the requests of the second stage
  Supplied,     \* the records upstream may send
  Budget, Hour, \* COOPS_MAX_UPSTREAM_REQUESTS_PER_HOUR and its window
  Early,        \* how far ahead of the clock an observation may be
  MaxAge,       \* how old an observation, and the newest alert, may be
  FreshAge,     \* the feed's fresh_for_seconds
  LastHour      \* bound on the clock

Official == {"alerts", "aviation", "tropical", "coastal"}

ASSUME OfficialAssumption ==
  /\ {MaxTasks, Budget, Hour, Early, MaxAge, FreshAge, LastHour} \subseteq Nat
  /\ DOMAIN Rounded = Areas
  /\ Firsts \in [Official -> Nat \ {0}] /\ Width \in [Official -> Nat \ {0}]

VARIABLES
  official,     \* which of the feeds this behaviour is of
  permitted,    \* enabled, live access, terms and identification are given
  officialNow,  \* the clock
  requestTimes, \* coastal: the requests whose times are kept, by their number
  spent,        \* history: the times of all requests
  loading,      \* load -> its requests and what it has read
  asking        \* request -> what it asked for and was answered

officialVars == <<official, permitted, officialNow, requestTimes, spent, loading, asking>>

NoLoad == [area |-> "none", stage |-> 0, todo |-> 0, wire |-> 0, lost |-> FALSE, read |-> {}]
NoAnswer == [area |-> "none", load |-> "none", state |-> "idle", records |-> {}, at |-> 0,
             health |-> "unknown"]

OfficialInit ==
  /\ official \in Official /\ permitted \in BOOLEAN
  /\ officialNow = 0
  /\ requestTimes = {} /\ spent = <<>>
  /\ loading = [l \in Loads |-> NoLoad]
  /\ asking = [r \in Requesters |-> NoAnswer]

-----------------------------------------------------------------------------
Products ==
  CASE official = "alerts" -> {"alert"}
    [] official = "aviation" -> {"metar", "taf", "sigmet"}
    [] official = "tropical" -> {"advisory"}
    [] official = "coastal" -> {"observation", "prediction"}

Observed(x) == x.from - officialNow <= Early /\ officialNow - x.from <= MaxAge
InForce(x) == x.from <= officialNow /\ officialNow < x.to

(* The records the normalisers keep, by their product.                     *)
CurrentAviation(x) ==
  \/ x.kind = "metar" /\ Observed(x)
  \/ x.kind = "taf" /\ x.to > officialNow
  \/ x.kind = "sigmet" /\ InForce(x)

CurrentCoastal(x) ==
  \/ x.kind = "observation" /\ Observed(x)
  \/ x.kind = "prediction" /\ x.from >= officialNow

CurrentTropical(x) == x.kind = "advisory" /\ InForce(x)

CurrentAlert(x) == x.kind = "alert" /\ x.to > officialNow

Current(x) == CurrentAviation(x) \/ CurrentCoastal(x) \/ CurrentTropical(x) \/ CurrentAlert(x)

Newest(S) == Max({x.from : x \in S})

(* parseNwsAlerts: the alerts read, expired ones too, are too old.         *)
StaleAlerts(read) ==
  official = "alerts" /\ read # {} /\ officialNow - Newest(read) > MaxAge

(* classifyFreshness of a product's observation period: no alert at all    *)
(* counts as seen now, and predictions are not observed.                   *)
FreshProduct(k, read, kept) ==
  LET seen == IF k = "alert" THEN read ELSE {x \in kept : x.kind = k}
  IN IF seen = {} THEN k \in {"alert", "prediction"} ELSE officialNow - Newest(seen) <= FreshAge

(* What the load's requests are answered once everything was read.         *)
(* Mutant of Outcome: alerts and advisories that ended are kept.           *)
OutcomeUnfiltered(read) ==
  [state |-> "answered", records |-> read, at |-> officialNow, health |-> "healthy"]

Outcome(read) ==
  LET kept == {x \in read : Current(x)}
  IN IF StaleAlerts(read)
     THEN [state |-> "stale", records |-> {}, at |-> officialNow, health |-> "unavailable"]
     ELSE [state |-> "answered", records |-> kept, at |-> officialNow,
           health |-> IF \A k \in Products : FreshProduct(k, read, kept)
                      THEN "healthy" ELSE "degraded"]

Failure(why) == [state |-> why, records |-> {}, at |-> officialNow, health |-> "degraded"]

Tell(l, outcome) ==
  asking' = [r \in Requesters |->
    IF asking[r].state = "waiting" /\ asking[r].load = l
    THEN [area |-> asking[r].area, load |-> l, state |-> outcome.state,
          records |-> outcome.records, at |-> outcome.at, health |-> outcome.health]
    ELSE asking[r]]

-----------------------------------------------------------------------------
Least(a, b) == IF a <= b THEN a ELSE b

(* consumeRequestBudget, called n times at once: how many are let through. *)
InHour(requests) == {i \in requests : officialNow - spent[i] < Hour}
Admitted(n) ==
  IF official = "coastal" THEN Least(n, Budget - Cardinality(InHour(requestTimes))) ELSE n
Spend(n) ==
  IF official = "coastal"
  THEN /\ requestTimes' = InHour(requestTimes) \cup ((Len(spent) + 1)..(Len(spent) + n))
       /\ spent' = spent \o [i \in 1..n |-> officialNow]
  ELSE UNCHANGED <<requestTimes, spent>>

(* mapConcurrent and Promise.all: a stage of n tasks begins with as many   *)
(* workers as its width allows.  A worker that is refused ends.            *)
Begun(load, stage, n) ==
  LET workers == Least(Width[official], n)
  IN [load EXCEPT !.stage = stage, !.todo = n - workers, !.wire = Admitted(workers),
                  !.lost = Admitted(workers) < workers]

(* The load is over once its last worker is; it was taken from inFlight    *)
(* when it was answered or lost.                                           *)
Freed(load) == IF load.lost /\ load.wire = 0 THEN NoLoad ELSE load

InFlight(a) ==
  {l \in Loads : /\ official \in {"tropical", "coastal"}
                 /\ loading[l].stage > 0 /\ ~loading[l].lost
                 /\ Rounded[loading[l].area] = Rounded[a]}

AwaitLoad(r, l, a) ==
  asking' = [asking EXCEPT ![r] = [NoAnswer EXCEPT !.area = a, !.load = l, !.state = "waiting"]]

Refuse(r, a, outcome) ==
  asking' = [asking EXCEPT ![r] =
    [area |-> a, load |-> "none", state |-> outcome.state, records |-> {},
     at |-> officialNow, health |-> outcome.health]]

-----------------------------------------------------------------------------
(* getAlerts, getWeather, getAdvisories and getConditions up to their      *)
(* first await: the gates, the load in flight, or a load of one's own.     *)
Forbidden(r, a) ==
  /\ asking[r] = NoAnswer /\ ~permitted
  /\ Refuse(r, a, Failure("forbidden"))
  /\ UNCHANGED <<official, permitted, officialNow, requestTimes, spent, loading>>

Share(r, a) ==
  /\ asking[r] = NoAnswer /\ permitted
  /\ \E l \in InFlight(a) : AwaitLoad(r, l, a)
  /\ UNCHANGED <<official, permitted, officialNow, requestTimes, spent, loading>>

Load(r, a, l) ==
  /\ asking[r] = NoAnswer /\ permitted /\ InFlight(a) = {}
  /\ loading[l] = NoLoad
  /\ LET begun == Begun([NoLoad EXCEPT !.area = a], 1, Firsts[official])
     IN /\ Spend(begun.wire)
        /\ loading' = [loading EXCEPT ![l] = Freed(begun)]
        /\ IF begun.lost THEN Refuse(r, a, Failure("limited")) ELSE AwaitLoad(r, l, a)
  /\ UNCHANGED <<official, permitted, officialNow>>

(* A request of the load fails, or its reply does not parse.  The load's   *)
(* requests are answered at once; its other workers go on.                 *)
ReplyFails(l) ==
  /\ loading[l].wire > 0
  /\ loading' = [loading EXCEPT ![l] = Freed([@ EXCEPT !.wire = loading[l].wire - 1, !.lost = TRUE])]
  /\ Tell(l, Failure("failed"))
  /\ UNCHANGED <<official, permitted, officialNow, requestTimes, spent>>

(* A reply is read and its worker takes the next task.                     *)
NextTask(l, x) ==
  /\ loading[l].wire > 0 /\ loading[l].todo > 0
  /\ Spend(Admitted(1))
  /\ LET load == loading[l]
     IN loading' = [loading EXCEPT ![l] = Freed(
          [load EXCEPT !.todo = load.todo - 1, !.wire = load.wire - 1 + Admitted(1),
                       !.lost = load.lost \/ Admitted(1) = 0, !.read = load.read \cup x])]
  /\ IF Admitted(1) = 0 THEN Tell(l, Failure("limited")) ELSE UNCHANGED asking
  /\ UNCHANGED <<official, permitted, officialNow>>

LastTask(l) == loading[l].wire > 0 /\ loading[l].todo = 0

WorkerEnds(l, x) ==
  /\ LastTask(l) /\ (loading[l].wire > 1 \/ loading[l].lost)
  /\ loading' = [loading EXCEPT ![l] = Freed(
       [@ EXCEPT !.wire = loading[l].wire - 1, !.read = loading[l].read \cup x])]
  /\ UNCHANGED <<official, permitted, officialNow, requestTimes, spent, asking>>

Seconds ==
  CASE official = "alerts" -> {}
    [] official = "aviation" -> {1}
    [] OTHER -> 1..MaxTasks

SecondStage(l, n, x) ==
  /\ LastTask(l) /\ loading[l].wire = 1 /\ ~loading[l].lost
  /\ loading[l].stage = 1 /\ n \in Seconds
  /\ LET begun == Begun([loading[l] EXCEPT !.read = @ \cup x], 2, n)
     IN /\ Spend(begun.wire)
        /\ loading' = [loading EXCEPT ![l] = Freed(begun)]
        /\ IF begun.lost THEN Tell(l, Failure("limited")) ELSE UNCHANGED asking
  /\ UNCHANGED <<official, permitted, officialNow>>

(* Everything was read: an index or the stations may have been empty.      *)
Finish(l, x) ==
  /\ LastTask(l) /\ loading[l].wire = 1 /\ ~loading[l].lost
  /\ loading[l].stage = 2 \/ official # "aviation"
  /\ Tell(l, Outcome(loading[l].read \cup x))
  /\ loading' = [loading EXCEPT ![l] = NoLoad]
  /\ UNCHANGED <<official, permitted, officialNow, requestTimes, spent>>

OfficialTick ==
  /\ officialNow < LastHour
  /\ officialNow' = officialNow + 1
  /\ UNCHANGED <<official, permitted, requestTimes, spent, loading, asking>>

Ask(r) ==
  \E a \in Areas : Forbidden(r, a) \/ Share(r, a) \/ \E l \in Loads : Load(r, a, l)

(* What a reply brings: the first stage of cyclones and coasts is an index *)
(* of what to ask for, and SIGMETs come last.                              *)
Brought(l) ==
  {y \in Supplied : /\ y.kind \in Products
                    /\ loading[l].stage = 2 \/ official \in {"alerts", "aviation"}
                    /\ y.kind = "sigmet" <=> (official = "aviation" /\ loading[l].stage = 2)}
Replies(l) == {{}} \cup {{y} : y \in Brought(l)}

OfficialNext ==
  \/ \E r \in Requesters : Ask(r)
  \/ \E l \in Loads : ReplyFails(l)
  \/ \E l \in Loads : \E x \in Replies(l) :
       \/ NextTask(l, x) \/ WorkerEnds(l, x) \/ Finish(l, x)
       \/ \E n \in 1..MaxTasks : SecondStage(l, n, x)
  \/ OfficialTick

OfficialSpec == OfficialInit /\ [][OfficialNext]_officialVars

-----------------------------------------------------------------------------
(* The types; a request waits exactly for a load that is still wanted.     *)
OfficialTypeOK ==
  /\ official \in Official /\ permitted \in BOOLEAN /\ officialNow \in 0..LastHour
  /\ spent \in Seq(0..officialNow) /\ requestTimes \subseteq DOMAIN spent
  /\ \A l \in Loads :
       /\ loading[l].wire \in 0..Width[official]
       /\ (\E r \in Requesters : asking[r].state = "waiting" /\ asking[r].load = l)
          <=> loading[l].stage > 0 /\ ~loading[l].lost
  /\ \A r \in Requesters :
       asking[r].state \in {"idle", "waiting", "forbidden", "limited", "failed", "stale", "answered"}

(* Loads take time and are shared, and still: what is answered was current *)
(* when it was answered and not only when it was asked for, alerts are not *)
(* silently old, a request is answered from an area with its own key, one  *)
(* load per key is under way, no request leaves without permission, and no *)
(* hour sees more than the budget, abandoned workers included.             *)
OfficialHonest ==
  /\ \A r \in Requesters : asking[r].state = "answered" =>
       \A x \in asking[r].records :
         /\ x.kind # "prediction" => asking[r].at < x.to \/ asking[r].at - x.from <= MaxAge
         /\ x.kind \in {"advisory", "sigmet"} => x.from <= asking[r].at /\ asking[r].at < x.to
         /\ x.kind = "prediction" => asking[r].at <= x.from
         /\ x.kind = "alert" => asking[r].at < x.to
  /\ \A r \in Requesters : asking[r].state = "waiting" =>
       Rounded[asking[r].area] = Rounded[loading[asking[r].load].area]
  /\ official \in {"tropical", "coastal"} => \A a \in Areas : Cardinality(InFlight(a)) <= 1
  /\ ~permitted => \A l \in Loads : loading[l] = NoLoad
  /\ \A t \in 0..LastHour :
       Cardinality({i \in DOMAIN spent : t <= spent[i] /\ spent[i] < t + Hour}) <= Budget

=============================================================================
