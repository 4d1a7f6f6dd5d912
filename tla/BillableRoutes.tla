--------------------------- MODULE BillableRoutes ---------------------------
(***************************************************************************)
(* The cost governor in front of a provider's feed, for one provider and   *)
(* one tenant (apps/server middleware/costGovernor.ts and                  *)
(* costGovernorSettlement.ts), and the seed reload route, the other client *)
(* of the ledger that reserves, waits and settles (routes/seedReload.ts).  *)
(*                                                                         *)
(* A feed request reads the clock, the provider's state and the cached     *)
(* entry once, on arrival; cooldown, cache entry and fallback are decided  *)
(* from those values when the upstream answers.  invalidate() replaces the *)
(* provider's state: whoever came before writes into one nobody reads.     *)
(* The ledger is seen through its calls, each of which may fail.           *)
(***************************************************************************)
EXTENDS Naturals, FiniteSets

CONSTANTS
  Requests,    \* HTTP requests, each served once
  Urls,        \* canonical feed keys
  Operations,  \* idempotency keys
  Ttl, MaxStale, Patience, RetryAfter,  \* durations, in ticks
  MaxEntries,  \* MAX_CACHE_ENTRIES
  LastInstant, \* bound on the clock
  LastEpoch,   \* bound on invalidations and restarts
  Absent       \* no cache entry, no operation, no request

ASSUME RoutesAssumption ==
  /\ {Ttl, MaxStale, Patience, RetryAfter, MaxEntries} \subseteq Nat \ {0}
  /\ {LastInstant, LastEpoch} \subseteq Nat
  /\ Absent \notin Operations \cup ({"feed"} \X Urls) \cup ({"seed"} \X Operations)

VARIABLES
  metered,   \* the provider's tier: whether a fetch costs; never changes
  instant,   \* the clock
  epoch,     \* which provider state is current
  cooldown,  \* its cooldownUntil
  cache,     \* its entry for each key
  operation, \* the ledger's row for each idempotency key
  handling   \* each request: what its handler holds, and its answer

billableVars == <<metered, instant, epoch, cooldown, cache, operation, handling>>
providerVars == <<metered, epoch, cooldown, cache>>

Unserved ==
  [pc |-> "new", url |-> Absent, op |-> Absent, at |-> 0, epoch |-> 0,
   cached |-> Absent, upstream |-> "none", answer |-> "none", age |-> 0]

BillableInit ==
  /\ metered \in BOOLEAN
  /\ instant = 0 /\ epoch = 0 /\ cooldown = 0
  /\ cache = [u \in Urls |-> Absent]
  /\ operation = [o \in Operations |->
                    [state |-> "ABSENT", by |-> Absent, due |-> 0, charged |-> 0]]
  /\ handling = [q \in Requests |-> Unserved]

Standing(q, pc) == handling[q].pc = pc

(* The handler of q ends with an answer, and forgets what it captured; for *)
(* the invariants the age of a hit is kept.                                *)
Reply(q, r, answer) ==
  handling' = [handling EXCEPT ![q] =
    [Unserved EXCEPT !.pc = "answered", !.answer = answer, !.op = r.op,
                     !.age = IF answer = "hit" THEN r.at - r.cached.sampled ELSE 0]]

-----------------------------------------------------------------------------
(* The ledger's calls.                                                     *)

OpenOperation(o, by, state) ==
  operation' = [operation EXCEPT ![o] =
    [state |-> state, by |-> by, due |-> instant + Patience, charged |-> 0]]

(* A row of this key, or an active row with this fingerprint.              *)
Taken(o, by) ==
  \/ operation[o].state # "ABSENT"
  \/ \E other \in Operations :
        /\ operation[other].by = by
        /\ operation[other].state \in {"RESERVED", "EXECUTING", "IN_DOUBT"}

Startable(o) == operation[o].state = "RESERVED" /\ operation[o].due > instant

Close(o, state, charged) ==
  operation' = [operation EXCEPT ![o].state = state, ![o].charged = charged]

(* markInDoubt, whose failure is logged and swallowed.                     *)
Doubt(o) ==
  \/ operation[o].state = "EXECUTING" /\ Close(o, "IN_DOUBT", 0)
  \/ UNCHANGED operation

(* The periodic recovery, of all that is overdue.                          *)
Recover ==
  /\ \E o \in Operations : /\ operation[o].state \in {"RESERVED", "EXECUTING"}
                           /\ operation[o].due <= instant
  /\ operation' = [o \in Operations |->
       IF operation[o].due > instant THEN operation[o]
       ELSE [operation[o] EXCEPT !.state = IF @ = "RESERVED" THEN "REFUNDED"
                                           ELSE IF @ = "EXECUTING" THEN "IN_DOUBT" ELSE @]]
  /\ UNCHANGED <<instant, providerVars, handling>>

-----------------------------------------------------------------------------
(* A feed request arrives.  c is the record of what it captured.           *)
Captured(u, o) ==
  [Unserved EXCEPT !.url = u, !.op = o, !.at = instant, !.epoch = epoch, !.cached = cache[u]]

CacheHit(u) == cache[u] # Absent /\ instant - cache[u].at < Ttl

(* The kill switch, a request without a tenant, the tenant's rate limit:   *)
(* the first two refuse whatever the cache holds, the last only a miss.    *)
FeedRefused(q, u) ==
  /\ Standing(q, "new")
  /\ Reply(q, Captured(u, Absent), "refused")
  /\ UNCHANGED <<instant, providerVars, operation>>

FeedFromCache(q, u) ==
  /\ Standing(q, "new")
  /\ LET c == Captured(u, Absent)
     IN \/ cooldown > instant /\ Reply(q, c, IF cache[u] = Absent THEN "refused" ELSE "stale")
        \/ cooldown <= instant /\ CacheHit(u) /\ Reply(q, c, "hit")
  /\ UNCHANGED <<instant, providerVars, operation>>

FetchUnmetered(q, u) ==
  /\ Standing(q, "new") /\ ~metered
  /\ cooldown <= instant /\ ~CacheHit(u)
  /\ handling' = [handling EXCEPT ![q] = [Captured(u, Absent) EXCEPT !.pc = "fetching"]]
  /\ UNCHANGED <<instant, providerVars, operation>>

(* reserveBillable.  After a reservation startExecution may fail, which    *)
(* leaves it to the recovery, or find it expired, when it is refunded.     *)
FetchMetered(q, u, o) ==
  /\ Standing(q, "new") /\ metered
  /\ cooldown <= instant /\ ~CacheHit(u)
  /\ LET c == Captured(u, o)
         nobodys == [c EXCEPT !.op = Absent]
     IN \/ UNCHANGED operation /\ Reply(q, nobodys, "unavailable")
        \/ /\ Taken(o, <<"feed", u>>)
           /\ UNCHANGED operation
           /\ \/ Reply(q, nobodys, "refused")
              \/ /\ operation[o].by = <<"feed", u>>
                 /\ operation[o].state \in {"SETTLED", "REFUNDED", "DENIED"}
                 /\ Reply(q, nobodys, "replayed")
        \/ /\ ~Taken(o, <<"feed", u>>)
           /\ \/ /\ OpenOperation(o, <<"feed", u>>, "DENIED")
                 /\ Reply(q, c, IF cache[u] = Absent THEN "refused" ELSE "stale")
              \/ /\ OpenOperation(o, <<"feed", u>>, "RESERVED")
                 /\ Reply(q, c, "unavailable")
              \/ /\ OpenOperation(o, <<"feed", u>>, "REFUNDED")
                 /\ Reply(q, c, "refused")
              \/ /\ OpenOperation(o, <<"feed", u>>, "EXECUTING")
                 /\ handling' = [handling EXCEPT ![q] = [c EXCEPT !.pc = "fetching"]]
  /\ UNCHANGED <<instant, providerVars>>

-----------------------------------------------------------------------------
(* The upstream answers: with a body that is JSON, over the ledger's       *)
(* limit, of another type, or (readFeedTerminalResponse's 502) one that    *)
(* breaks off or calls itself JSON and is not; or with an error.           *)
Outcomes == {"json", "large", "binary", "corrupt", "failed", "limited"}

(* The entry of q, whose data the provider read at t.                      *)
Entry(q, t) == [at |-> handling[q].at, sampled |-> t, epoch |-> handling[q].epoch]

(* The caches that may result: the oldest entry makes room, even for a key *)
(* that is in the cache already.                                           *)
Stored(q) ==
  LET held == {u \in Urls : cache[u] # Absent}
      oldest == {u \in held : \A v \in held : cache[u].at <= cache[v].at}
      out == IF Cardinality(held) >= MaxEntries THEN {{u} : u \in oldest} ELSE {{}}
  IN {[u \in Urls |-> IF u = handling[q].url THEN Entry(q, t)
                      ELSE IF u \in S THEN Absent ELSE cache[u]] :
        S \in out, t \in handling[q].at..instant}

(* Mutant of Attached: the state is looked up again by name.               *)
AttachedByName(q) == TRUE

Attached(q) == handling[q].epoch = epoch

FallsBack(q, outcome) ==
  /\ outcome \in {"failed", "limited"}
  /\ handling[q].cached # Absent
  /\ handling[q].at - handling[q].cached.at < MaxStale

UpstreamAnswers(q, outcome) ==
  /\ Standing(q, "fetching")
  /\ cooldown' = IF outcome = "limited" /\ Attached(q) THEN handling[q].at + RetryAfter ELSE cooldown
  /\ \/ outcome \in {"json", "large"} /\ Attached(q) /\ cache' \in Stored(q)
     \/ (outcome = "json" => ~Attached(q)) /\ UNCHANGED cache
  /\ LET c == [handling[q] EXCEPT !.upstream = IF FallsBack(q, outcome) THEN "stale" ELSE outcome]
     IN IF metered
        THEN handling' = [handling EXCEPT ![q] = [c EXCEPT !.pc = "settling"]]
        ELSE Reply(q, c, CASE c.upstream = "stale" -> "stale"
                           [] c.upstream \in {"failed", "limited"} -> "error"
                           [] c.upstream = "corrupt" -> "corrupt"
                           [] OTHER -> "fresh")
  /\ UNCHANGED <<metered, instant, epoch, operation>>

(* The fetch throws, or the timeout fires.                                 *)
UpstreamFails(q) ==
  /\ Standing(q, "fetching")
  /\ IF metered THEN Doubt(handling[q].op) /\ Reply(q, handling[q], "ambiguous")
                        ELSE UNCHANGED operation /\ Reply(q, handling[q], "error")
  /\ UNCHANGED <<instant, providerVars>>

(* settleBillableReservation, after the body was read.  Without a failure  *)
(* of the ledger it leaves the client the response there is, so a body     *)
(* that could not be read is settled for nothing and sent on with its 200. *)
(* Mutant of Settlement: a fallback is settled like any answer.            *)
SettlementOfAll(upstream) ==
  [state |-> IF upstream = "large" THEN "REFUNDED" ELSE "SETTLED",
   charged |-> IF upstream \in {"json", "binary", "stale"} THEN 1 ELSE 0,
   answer |-> CASE upstream = "large" -> "oversized"
                [] upstream = "stale" -> "stale"
                [] upstream \in {"failed", "limited"} -> "error"
                [] upstream = "corrupt" -> "corrupt"
                [] OTHER -> "fresh"]

Settlement(upstream) ==
  [state |-> IF upstream \in {"large", "stale"} THEN "REFUNDED" ELSE "SETTLED",
   charged |-> IF upstream \in {"json", "binary"} THEN 1 ELSE 0,
   answer |-> CASE upstream = "large" -> "oversized"
                [] upstream = "stale" -> "stale"
                [] upstream \in {"failed", "limited"} -> "error"
                [] upstream = "corrupt" -> "corrupt"
                [] OTHER -> "fresh"]

Settle(q) ==
  LET s == Settlement(handling[q].upstream)
  IN /\ Standing(q, "settling")
     /\ operation[handling[q].op].state = "EXECUTING"
     /\ Close(handling[q].op, s.state, s.charged)
     /\ Reply(q, handling[q], s.answer)
     /\ UNCHANGED <<instant, providerVars>>

(* The call fails, because the row moved on or the database did.           *)
SettleFails(q) ==
  /\ Standing(q, "settling")
  /\ Doubt(handling[q].op)
  /\ Reply(q, handling[q], IF handling[q].upstream = "large" THEN "oversized" ELSE "ambiguous")
  /\ UNCHANGED <<instant, providerVars>>

-----------------------------------------------------------------------------
(* Seed reload: reserve, approval, startExecution, fetch, settle.          *)
SeedReserves(q, o) ==
  /\ Standing(q, "new")
  /\ LET c == [Unserved EXCEPT !.op = o, !.at = instant]
         nobodys == [c EXCEPT !.op = Absent]
     IN \/ UNCHANGED operation /\ Reply(q, nobodys, "unavailable")
        \/ /\ Taken(o, <<"seed", o>>)
           /\ UNCHANGED operation
           /\ \/ Reply(q, nobodys, "refused")
              \/ /\ operation[o].by = <<"seed", o>>
                 /\ operation[o].state \in {"SETTLED", "REFUNDED", "DENIED"}
                 /\ Reply(q, nobodys, "replayed")
        \/ /\ ~Taken(o, <<"seed", o>>)
           /\ \/ OpenOperation(o, <<"seed", o>>, "DENIED") /\ Reply(q, c, "refused")
              \/ /\ OpenOperation(o, <<"seed", o>>, "RESERVED")
                 /\ handling' = [handling EXCEPT ![q] = [c EXCEPT !.pc = "approval"]]
  /\ UNCHANGED <<instant, providerVars>>

(* refundBeforeDispatch: without evidence, so not of what is executing.    *)
RefundUndispatched(q) ==
  \/ /\ operation[handling[q].op].state \in {"RESERVED", "REFUNDED"}
     /\ Close(handling[q].op, "REFUNDED", 0)
     /\ Reply(q, handling[q], "refused")
  \/ UNCHANGED operation /\ Reply(q, handling[q], "unavailable")

SeedRefused(q) ==
  /\ Standing(q, "approval")
  /\ RefundUndispatched(q)
  /\ UNCHANGED <<instant, providerVars>>

SeedApproved(q) ==
  /\ Standing(q, "approval")
  /\ \/ /\ Startable(handling[q].op)
        /\ Close(handling[q].op, "EXECUTING", 0)
        /\ handling' = [handling EXCEPT ![q].pc = "reloading"]
     \/ RefundUndispatched(q)
  /\ UNCHANGED <<instant, providerVars>>

SeedReloads(q) ==
  /\ Standing(q, "reloading")
  /\ \/ /\ operation[handling[q].op].state = "EXECUTING"
        /\ Close(handling[q].op, "SETTLED", 1)
        /\ Reply(q, handling[q], "fresh")
     \/ Doubt(handling[q].op) /\ Reply(q, handling[q], "ambiguous")
  /\ UNCHANGED <<instant, providerVars>>

-----------------------------------------------------------------------------
(* set_flag or an activated cable pack: costGovernor.invalidate.           *)
Invalidate ==
  /\ epoch < LastEpoch
  /\ epoch' = epoch + 1
  /\ cooldown' = 0
  /\ cache' = [u \in Urls |-> Absent]
  /\ UNCHANGED <<metered, instant, operation, handling>>

(* The process dies and starts again; only the ledger is durable.          *)
Restart ==
  /\ epoch < LastEpoch
  /\ epoch' = epoch + 1
  /\ cooldown' = 0
  /\ cache' = [u \in Urls |-> Absent]
  /\ handling' = [q \in Requests |->
                IF handling[q].pc \in {"new", "answered"} THEN handling[q]
                ELSE [Unserved EXCEPT !.pc = "answered", !.answer = "lost", !.op = handling[q].op]]
  /\ UNCHANGED <<metered, instant, operation>>

Elapse ==
  /\ instant < LastInstant
  /\ instant' = instant + 1
  /\ UNCHANGED <<providerVars, operation, handling>>

FeedStep(q) ==
  \/ \E u \in Urls : \/ FeedRefused(q, u) \/ FeedFromCache(q, u) \/ FetchUnmetered(q, u)
                     \/ \E o \in Operations : FetchMetered(q, u, o)
  \/ \E outcome \in Outcomes : UpstreamAnswers(q, outcome)
  \/ UpstreamFails(q) \/ Settle(q) \/ SettleFails(q)

SeedStep(q) ==
  \/ \E o \in Operations : SeedReserves(q, o)
  \/ SeedRefused(q) \/ SeedApproved(q) \/ SeedReloads(q)

BillableNext ==
  \/ \E q \in Requests : FeedStep(q) \/ SeedStep(q)
  \/ Recover \/ Invalidate \/ Restart \/ Elapse

BillableSpec == BillableInit /\ [][BillableNext]_billableVars

-----------------------------------------------------------------------------
EntryType == [at : 0..LastInstant, sampled : 0..LastInstant, epoch : 0..LastEpoch] \cup {Absent}

Answers == {"none", "refused", "unavailable", "replayed", "hit", "stale", "fresh", "corrupt",
            "error", "oversized", "ambiguous", "lost"}

(* The types, and that the cache keeps to its size and an operation in the *)
(* table names who opened it.                                              *)
BillableTypeOK ==
  /\ metered \in BOOLEAN /\ instant \in 0..LastInstant /\ epoch \in 0..LastEpoch
  /\ cooldown \in 0..(LastInstant + RetryAfter)
  /\ cache \in [Urls -> EntryType]
  /\ Cardinality({u \in Urls : cache[u] # Absent}) <= MaxEntries
  /\ \A o \in Operations :
       /\ operation[o].state \in {"ABSENT", "RESERVED", "EXECUTING", "SETTLED", "REFUNDED",
                                  "IN_DOUBT", "DENIED"}
       /\ operation[o].by = Absent <=> operation[o].state = "ABSENT"
  /\ \A q \in Requests :
       /\ handling[q].pc \in {"new", "fetching", "settling", "approval", "reloading", "answered"}
       /\ handling[q].answer \in Answers
       /\ handling[q].cached \in EntryType

(* An operation's money follows what its request was told: charged for a   *)
(* result it got that could be read and for nothing else, settled without  *)
(* a charge behind an error or a body that could not, refunded behind a    *)
(* stale or a refused answer, and otherwise in doubt or still to be        *)
(* recovered - whatever recovery, retries and failing ledger calls did     *)
(* meanwhile (settleBillableReservation, readFeedTerminalResponse,         *)
(* refundBeforeDispatch).                                                  *)
AnswerMatchesCharge ==
  \A q \in Requests :
    handling[q].pc = "answered" /\ handling[q].op # Absent =>
      LET op == operation[handling[q].op]
          open == op.state \in {"RESERVED", "EXECUTING", "IN_DOUBT", "REFUNDED"}
      IN /\ handling[q].answer = "fresh" <=> op.charged = 1
         /\ handling[q].answer \in {"error", "corrupt"} => op.state = "SETTLED"
         /\ handling[q].answer \in {"refused", "stale"} => op.state \in {"REFUNDED", "DENIED"}
         /\ handling[q].answer \in {"unavailable", "oversized", "lost"} => open
         /\ handling[q].answer = "ambiguous" => op.state \in {"EXECUTING", "IN_DOUBT"}

(* What is served as a cache hit was current upstream less than a TTL ago  *)
(* and was fetched since the provider was last invalidated, though entries *)
(* are stored by slow answers (the now and state captured by middleware).  *)
CacheTruthful ==
  /\ \A u \in Urls : cache[u] # Absent => cache[u].epoch = epoch
  /\ \A q \in Requests :
       handling[q].answer = "hit" => handling[q].age < Ttl

=============================================================================
