# A TLA+ model of AI TadPole Eye View

This directory models the parts of the repository whose behaviour is more than
a formula or a view: the governance core that decides whether an autonomous
action may run, what it costs and what is recorded about it; the services of the
server around it; the data sources with their caches, budgets and fallbacks; and
the stateful parts of the web client. The modules are checked with TLC on small
instances. The invariants of the governance core, of the services around it, of the
data sources and of the web client, with two refinements, are proved with TLAPS for
every value of the constants; liveness is checked with TLC only.

## 1. The system and its parts

The repository is a monorepo: two applications (`apps/server`, `apps/web`) over
packages `contracts`, `core`, `governance`, `security`, `providers`,
`cesium-kit`, `economic`, `ops-mcp` and `cli`.

| component | state it keeps | operations | hard behaviour |
|---|---|---|---|
| budget ledger (`governance/budgetLedger.ts`, `budgetLedgerStore.ts`) | operation rows, global and tenant budget rows, audit rows | reserve, startExecution, settle, refund, markInDoubt, reconcile, recoverExpired, tenant caps, trips and resumes | several processes on one file, retries, crashes, deadlines, recovery |
| budget governor (`budgetGovernor.ts`) | the same budget rows | check, trip, recordSpend, resume and their tenant forms | second writer of the rows; STASIS against unresolved doubts |
| reserved tool execution (`core/reservedToolExecution.ts`) | one call's progress | reserve, approve, dispatch, settle, refund, doubt | every await races the reaper, the timeout, the caller's signal, a crash |
| tool executor front (`core/toolExecutor.ts`) | registered handlers | execute | unreserved tools: intent and outcome around a handler that may outlive its timeout |
| governance runtime (`runtimeContext.ts`) | the stores' wiring, the reaper's timer | startup recovery, 30 s reaper | recovery errors are swallowed and retried |
| audit chain (`auditChainStore.ts`, `auditSink.ts`, `auditRetention.ts`, `auditChainMigration.ts`) | hash-linked events, anchor, retention receipts | append, verify, prune, migrate | several writers; verification in several statements without a transaction; damage to the file |
| signed approval (`signedApproval.ts`) | consumed nonces, key windows | request, verify | clock read before an await; replay over processes and crashes |
| tenant layer access (`tenantLayerAccessStore.ts`, `layerAccessAdmin.ts`) | credential and terms rows | submit, validate, revoke, delete, accept and revoke terms | a verdict written after an await of seconds |
| audited routes (`opsResume.ts`, `economic.ts`, `layerAccess*.ts`, the executor front) | audit rows of a call | intent, action, outcome | each append may fail, the process may die between any two |
| cost governor and seed reload (`middleware/costGovernor*.ts`, `routes/seedReload.ts`) | cache, cooldown and epoch of a provider | the billable path, invalidation | values read before the upstream call are used after it; settlement may fail |
| MCP HTTP transport (`routes/mcp.ts`, `ops-mcp/httpAdapter.ts`) | leases of a concurrency gate | acquire, seal, abort, finish, close | a lease returned exactly once by whichever of three ends last |
| request guards (`opsAuth.ts`, `identity.ts`, `rateLimiter.ts`) | verified tokens, rate windows | authenticate, authorize, consume | a verifier answers later; tokens run out and are revoked; windows are evicted |
| collaboration (`routes/collab.ts`, `websocketCollab.ts`, `core/collabDoc.ts`, `collab.svelte.ts`) | rooms, peers, documents | join, attach, update, leave, sweep | updates in different orders; joins race evictions |
| voice session (`voice.svelte.ts`, `voiceMachine.ts`, `agentAdapters.ts`) | attempt, adapter, machine | connect, disconnect, type, tool calls | late tokens, sockets, frames and results of dropped attempts |
| feeds on the globe (`feedPolling.ts`, `layers.svelte.ts`, `cesium-kit/baseLayer.ts`) | poll, snapshot, entities, satellite lock | poll, drain, toggle | polls abort each other; the scene is compared by counts |
| satellite catalog (`satellites.ts`) | one cache, one refresh, one back-off | getCatalog | callers join a refresh that fails; stale fallback |
| official feeds (`nwsAlerts.ts`, `aviationWeather.ts`, `tropicalCyclones.ts`, `coastalConditions.ts`) | shared loads, hourly budget | GET of four products | two stages of workers, abandoned loads, records that expire on the way |
| public feeds (flights, quakes, ships, hotspots, bikes, cameras, radio, launches, weather, map queries) | none between requests | fetch, filter, answer | the source publishes again between two fetches; pinned connections |
| evidence providers (LAU, OEWS, ACS, CBP, NRI, NFHL, 3DEP, OSM) | fixtures, a map cache and throttle | query, summarise | gates and refusals, selection, concurrent live calls |
| economic analysis (`packages/economic`, `economicPreview.ts`) | none | parse cells, compare, concentrate | suppressed, missing and zero must not become each other |
| analysis desk (`routes/economic.ts`, `marketAnalysisRoutes.ts`, `workforceAnalysisRoutes.ts`) | rate counts of the minute | five analyses | evidence of the caller, the server and stand-ins mixed over awaits |
| cable packs and registry (`registry.ts`, `cables.ts`, `cablePackActivation.ts`, `index.ts`) | registry, adapter, cache, recorded errors | activate, read, report health, restart | a download between reservation and activation; the ledger outlives the registry |
| operator stream and telemetry (`auditStream.ts`, `telemetry/index.ts`) | listeners, ring buffers | greet, replay, listen, abort | rows are published while the tail is replayed |
| security helpers | none | resolution and pinned fetches, limits of map queries | part of the public feeds |
| governance database, CLI, contracts, web views | see "Not modelled" | | |

How they interact. A client (HTTP, MCP, CLI) passes the request guards and calls
the executor or a route. The executor makes one ledger transaction at a time and
waits for the approval gate and the handler in between; the ledger appends audit
rows in the same transactions and publishes them after commit, which is where the
audit stream listens. The cost governor, the seed reload and the cable activation
are further clients of the ledger. The reaper and the operators act on the same
rows at any time, from the same or another process; the file is shared through
SQLite's `BEGIN IMMEDIATE`, so transactions are serial and the interleaving is
theirs. The data sources keep their state per process and meet the rest at their
routes. The web client polls those routes, and shares a room's document over a
socket and a voice session over another.

What makes each component correct. The ledger never has two active operations of
one request, never charges twice, keeps holds within caps and audits every fate
once; the governor loses no spend and does not resume the platform over an
unresolved doubt; the executor runs a handler at most once, never charges for an effect that
did not return, and tells callers what the ledger will still say later. The chain
links whatever is appended, pruned or migrated, and a verdict about it is true of
the chain. An approval is of this request and used once. A layer is unlocked only
by what is stored and marked valid by a check, which asks the provider where the
server was given a way to. An audited call leaves one true outcome. What a
billable call is told and what it is charged agree. Slots and loads are given back
exactly once. What rooms show converges; one voice session is live; the scene is the latest
snapshot. What a source answers is as old, as allowed and as complete as it claims,
and an analysis claims no more than its evidence.

## 2. Modules

| module | models |
|---|---|
| `Escrow` | what the ledger promises: free, held, running, closed; one charge |
| `BudgetLedger` | every transaction of `SqliteBudgetLedger`; implements `Escrow` |
| `BudgetGovernor` | EXTENDS `BudgetLedger` with the mutations of `CapBudgetGovernor` |
| `ToolExecutor` | EXTENDS `BudgetGovernor` with concurrent calls of `executeReservedTool` |
| `AuditLog` | what the audit store promises: an append-only log with a pruned prefix |
| `AuditChain` | links, anchor, receipts, retention, verification, migration; implements `AuditLog` |
| `LayerAccess` | the rows that unlock a layer and the checks that race their changes |
| `SignedApproval` | gates, envelopes, nonces and key windows |
| `AuditedRoutes` | the six kinds of calls that write their audit rows by hand |
| `BillableRoutes` | the cost governor's cache and cooldown, settlement, seed reload |
| `ExchangeGate` | leases of the MCP route with the adapter's executions |
| `RequestGuards` | authentication with its cache, roles and mounts, the rate limiter |
| `CablePacks` | registry, activation over the ledger, cached catalog reads, health |
| `OperatorStream` | the audit stream's replay and listening, the telemetry's buffers |
| `AnalysisDesk` | admission and evidence of the five analyses |
| `Collaboration`, `VoiceSession`, `FeedPipeline` | the stateful parts of the web client and their server side |
| `SatelliteCatalog`, `OfficialFeeds`, `PublicFeeds`, `EvidenceProviders` | the data sources |
| `EvidenceAnalysis` | the operators of `packages/economic` over bounded inputs |
| `MCBudgetLedger`, `MCBudgetGovernor`, `MCToolExecutor` | values of the constants for TLC |
| `MCServices` | all modules from `AuditChain` on, side by side |
| `MCAnsweredRequests` | the executor and the exchange gate under their fairness |
| `Selections` | what filtering keeps of a sequence, by position; used by the guards, the evidence providers and the analyses |
| `CountingLemmas` | lemmas about sums over finite sets, counting, and what a filtered sequence keeps |
| `BudgetProofs` | theorems about `BudgetLedger`, `BudgetGovernor` and `ToolExecutor` |
| `AuditChainProofs` | theorems about `AuditChain` |
| `ServerProofs` | theorems about `LayerAccess`, `SignedApproval`, `ExchangeGate`, `AuditedRoutes` and `BillableRoutes` |
| `EdgeProofs` | theorems about `RequestGuards`, `PublicFeeds`, `VoiceSession`, `FeedPipeline` and `Collaboration`: what comes in and goes out, and the client |
| `SourceProofs` | theorems about `SatelliteCatalog`, `AnalysisDesk`, `OperatorStream`, `CablePacks` and `OfficialFeeds` |
| `EvidenceProofs` | theorems about `EvidenceProviders` and `EvidenceAnalysis` |
| `ServicesProofs` | theorems about `MCServices`: all of these side by side |

The ledger, the governor and the executor write the same rows, so their modules
extend each other and are checked as one system. The services of `MCServices`
share no state: `focus` picks one of them in the initial state and only that one
moves, so the state space is the union of theirs and not the product. Where a
service calls the ledger (`BillableRoutes`, `CablePacks`) it sees the states of its
own operation, with recovery, another process and failures as choices, which is
what `BudgetLedger` shows of one row.

### State and code

`BudgetLedger`: `state`, `request`, `settled` are columns of
`governance_budget_operations` (an operation without a row is `"ABSENT"`); `due`
is the set of rows whose `deadline_at` has passed, the only thing the code asks of
it; `budget` holds the singleton row (at `Platform`) and the tenants' rows with cap,
spend, STASIS flag and trip code; `intents`, `outcomes` and `resolutions` count the
audit rows written for an operation. A request stands for a fingerprint, which
fixes tenant and estimate. A tenant without a row reads as the row that
`ensureTenantBudget` would insert, which is possible because the global cap never
changes. One action per method; a call that throws is rolled back and a call that
classifies an existing row writes nothing, so both are stuttering steps here and
visible answers in `ToolExecutor`. `Settle` and `Refund` are the two uses of
`finish`. `RecoverBatch` is one recovery pass, a single transaction.

`BudgetGovernor` adds `check`/`checkTenant` (their refusal trips the scope), `trip`,
`recordSpend`/`recordTenantSpend` and `resume`. `direct` is a history variable of
the spend recorded outside settlements.

`ToolExecutor`: `pc` is where a call is; the code between two awaits that touches
no shared state belongs to the step before it, each ledger transaction is its own
step, and so are dispatch, the handler's end, the timeout and cancellation.
`op` is the row the call owns or was answered from, `answer` what it returned,
`handler` the handler it invoked, which may outlive its timeout. Ledger failure is
a choice at each ledger step, a crash a choice anywhere. The terminal results of a
refund before dispatch are one answer, `NOT_RUN`, because no property tells them
apart. `approvals` is a history variable. `Approve` is the end of the await of the
approval gate, whatever the gate does; `Proceed` has the steps a call takes without
waiting for a gate or a handler.

`AuditChain`: a chain hash is the sequence of payloads it commits to, so that a link
holds if and only if nothing before it changed. Each writer's transaction is one
step. A verification is one step per SQL statement (`audit.pc`), each of which reads
the tables as they are then. `Fault` is damage to the file. `retaining` is the call
of retention between its intent and its transaction.

`LayerAccess` has one tenant's row of each table; `validator` says whether the server
was given a way to ask the provider (`startStandaloneServer` gives none). With one,
`StartCheck` and `FinishCheck` are the two halves of `validateCredential`; without,
it is one step that asks nobody (`CheckUnasked`). `raced`, `accepted` (the secrets the
provider accepted), `presumed` (those marked valid unasked) and the last step of the
administrators are history. `SignedApproval`: `envelopes` is what the approval
service may deliver, to any gate and any number of times; a key has a window, `from`
to `until`, and a status. `AuditedRoutes`: `call`
holds where a handler stands, what it did and which rows it left; every append and
action may fail. `BillableRoutes`: a handling carries the clock, the epoch and the
entry it read on arrival, and uses them after its upstream answered. An answer whose
body breaks off or does not parse is settled as a 502 with no charge and still sent on
with its 200 (`"corrupt"`).

`ExchangeGate`: a lease is `held` until it is sealed and finished and its tracked
execution is done. `RequestGuards`: `asked` is the second at which a request was
read; the verifier's answer is judged by it. `known` is the token cache, `windows`
the limiter's map in order of insertion.

`Collaboration`: a document is the set of updates received, of which Yjs shows those
whose predecessors are there (`Shown`); a frame the server cannot take closes the
socket (`ServerRejects`). `VoiceSession`: every
connect is an attempt, and each callback asks whether its attempt is `current`.
`FeedPipeline`: a snapshot has items with and without a position.

`SatelliteCatalog`: one caller leads a refresh and others join it. `OfficialFeeds`:
a load is shared by the requests of a rounded area; its two stages have a bounded
number of workers, which go on after a failure. `PublicFeeds`: an inquiry goes from
its route through resolution, connection and body to its answer while the source
publishes. `EvidenceProviders`: `told` is the last answer; the map calls are
concurrent. `EvidenceAnalysis`: `question` runs over the inputs and `answer` is what
the code's operators make of it. `CablePacks`: `shelf` is the adapter's catalog,
`nth` counts activations, so that a reader can say which one it saw. `OperatorStream`:
rows are numbered as committed. `AnalysisDesk`: `basis` names where each source's
evidence came from.

Definitions introduced by a comment "Mutant of" are faulty variants of the next
definition. Nothing uses them; each shows that some property fails when the
definition is replaced by it.

## 3. What is checked

| run | bounds | what it shows |
|---|---|---|
| `ledger` | 3 operations, a platform request and two of a tenant, cap 3, costs 0 and 2, recovery batch 2 | rows, holds, budgets and audit agree; caps hold; the escrow is implemented |
| `governor` | 2 operations, one tenant, initial spend 1 of cap 3, batch 1, one direct spend per scope | the two writers together; STASIS on caps and doubts |
| `executor` | 3 calls, 2 operations, a dangerous and a plain request | effects at most once, accounted for and truthfully answered |
| `answered_requests` | 2 calls on 2 operations of a dangerous request, batch 1; 2 exchanges over 2 slots | everything reserved ends or is put in doubt; calls return unless a gate or a cancelled handler never does; the MCP transport closes unless a verifier or an execution never ends |
| `services` | the eighteen modules of `MCServices`, see below | the table below |
| `tenant_breach`, `tenant_doubt`, `stasis_dispatch`, `revoked_credential`, `late_approval`, `refused_resume`, `ghost_entity` | as above | disagreements between documents or comments and the code, section 5 |

The properties of `services`, each about one service:

| property | says |
|---|---|
| `ChainIntact`, `ImplementsAuditLog` | writers, prunings and crashes leave one unbroken chain, and the store is an append-only log with recorded prunings |
| `VerdictSound`, `QuietVerdictTrue` | "valid" is answered only of a store that was intact when asked; undisturbed and with the keys, an intact store is never condemned |
| `UnlockJustified`, `DeletedStaysDeleted` | a layer is unlocked by the stored secret, accepted by the provider or, without a validator, marked by a check that asked nobody, and terms in force; a late verdict brings no row back |
| `ApprovedOnce`, `ApprovedMeansSigned`, `PromptDecisionHeeded` | an approval is of this request, by a trusted key in its window, and used once; who answers promptly is heeded |
| `OutcomeForEveryAnswer`, `OutcomesTrue` | an answered call left one outcome, and it is true; nothing is said of the refused offline resume, which leaves none (`refused_resume`) |
| `AnswerMatchesCharge`, `CacheTruthful` | money follows the answer: charged for a result that could be read and only then, a 200 with an unreadable body included as not charged; a cache hit is younger than its TTL and newer than the last invalidation |
| `SlotsHeldWhileWorking` | no slot comes back while work may go on under it |
| `RoomConverges` | once no frame is on its way each peer shows what its room shows, and besides only its own edits from the first unsent one on |
| `OneVoiceSession`, `VoiceInSync` | one socket at most, and the machine shows what there is |
| `DrawnCurrent`, `LockedHidden` | the scene is the latest snapshot; locked satellites are nowhere |
| `GuardsHold` | identities are current and admitted by all policies on the way (`IdentityAdmitted`), the token cache holds what was verified (`CacheVetted`), a client gets less than twice its limit in any window (`RateBounded`) |
| `SourcesHonest` | the eight promises of the next table, each with a mutant and a theorem of its own |

The parts of `SourcesHonest`:

| part | says |
|---|---|
| `CatalogHonest` | satellites: nothing past its day is served, nothing is refreshed while locked, disabled or asked to wait, and the health is that of the last refresh |
| `OfficialHonest` | records are current when told; loads are shared by key, permitted, and within the hourly budget in any span of an hour |
| `FeedsTrue` | an answer of a public feed has what was published inside the box, all of it, with its mode, from a public address |
| `EvidenceHonest` | switches, refusals, selection, floods, elevations, the map's cache and throttle |
| `AnalysesSound` | suppressed and missing estimates never become numbers, disagreements stay, ranks have no gap, features count once |
| `PacksTrue` | what is served is what its manifest pinned; no reading after an activation is of the pack before |
| `WatchedTrue` | a stream tells rows in order and once; listeners are those of live streams or of clients that left too early; buffers keep their bounds |
| `DeskTrue` | quotas count per tenant; what an analysis rests on is known for the caller's, the server's or a stand-in |

Why the bounds suffice. In the ledger an interference is between an operation, a
retry of it under another id and an operation of the other scope, so three
operations and two requests reach every pair and every sum; costs cover zero, the
reservation and an overrun; the cap is reached exactly, missed and exceeded; a batch
of 2 for 3 rows and of 1 for 2 leaves rows behind. In the executor three calls give
an owner, a retry with the same id and a retry under a new one.

In `services` a race is between two actors over one or two things, so there are two
writers, gates, calls, sessions, viewers, requesters and callers (`a1`, `a2`) over
two keys, operations, rooms, items, areas and packs (`b1`, `b2`), with a third actor
where a queue or a reader beside the two matters (three exchanges for two slots, an
area far from the others, a reader of the cable catalog). Limits are small enough
to be reached: two slots, one cache entry, one room, one window, one token, a pruning
of two of at most five events (`MaxEvents`), one fault (`MaxFaults`), one legacy row
(`MaxLegacy`), three attempts of a voice session (`MaxAttempts`) with two tool calls
(`MaxCalls`), two edits (`MaxEdits`), one signed envelope (`MaxSigned`), delivered anywhere (the
theorems about approvals hold for any number of them), a tail of
two of at most three rows (`TailSize`, `MaxRows`), one restart (`MaxStarts`), one
analysis per minute (`Quota`). The clocks (`MaxNow`, `LastTick`, `LastInstant`,
`LastMoment`, `LastHour`, `LastSecond`, `LastMinute`) run past every age and interval
they are compared with; `LastEpoch` and `LastEdition` bound invalidations and
publications, `MaxAsks` a caller's requests. Estimates and evidence range over
available (with 0), suppressed, missing and absent. Actors and things are
interchangeable in every module, which is the symmetry used; `a3` is not symmetric.

Deadlock checking is off everywhere: when every operation is final, every call is
answered and every counter is at its bound the systems have nothing left to do.

### Fairness

`ExecFairness` assumes weak fairness of the reaper (a 30 s interval timer started by
`serverStartup.ts`, which survives its own errors), of the clock passing each
deadline, and of the steps a call takes by itself: ledger calls return (busy timeout)
and the handler's timer fires. Approval gates, handlers, cancellations, retries,
crashes and operators have no fairness. Nothing times the await of the gate
(`reservedToolExecution.ts:256`, `signedApproval.ts:215`), and a call cancelled while
its handler runs waits for the handler (`reservedToolExecution.ts:196`). So
`CallsReturn` says of every call that it is answered or its process dies, or else
that it stays at one of these two awaits for ever: there is no third place where a
call can hang. `NothingHangs` has no such exception: the reaper frees the reservation
of a call that waits for its gate.

`GateFairness` assumes that a body is no longer read once its exchange is aborted, that
the SDK answers when no execution keeps its callback, and that it closes. Nothing is
assumed of clients, which may neither read nor hang up; of the token verifier
(`mcp.ts:369`), which gets no signal and no timeout; or of executions, whose cancelled
handlers are drained without one. `CloseCompletes` therefore says that a close that
began ends, unless one exchange stays with its verifier or with its registered
execution for ever (`HeldUp`): an aborted reader, an unread stream, an unregistered
execution or a lost client never holds the transport open.
The safety runs assume no fairness.

## 4. What is proved

Every theorem is proved from the named assumptions of its module: distinct values
for what is absent, natural bounds, positive caps, batches and limits, a finite
set of exchanges for the gate, and for the guards that the marks of a missing and of
the configured token are no bearer tokens and that claims carry natural times. For the
evidence, fixtures and answers are sequences of well-formed records, elevations are
integers above the provider's mark for "off coverage", and the analyses' questions have
the shapes of their schemas, where a geography's identifier or its county fixes its
state. They hold for every set of operations, requests, tenants, calls, writers,
checks, gates, exchanges, attempts, items, rooms, sessions, clients, tokens, fixtures,
flood maps, elevations and questions that satisfy these.

- `LedgerTypeCorrect`, `LedgerOneActive`, `LedgerAuditComplete`. The inductive
  invariant `LedgerInv` joins the three with `OnlySettledCharge`; type correctness
  needs the trip code of a halted row, and audit completeness needs the state of
  each row before the step. Steps are grouped by what they do to the rows (reserve,
  start, terminal, doubt, recover, operator) and each group has a lemma.
- `LedgerImplementsEscrow`: initial states map to initial states; a reservation or
  denial opens, a dispatch runs, refunds and recovery release a set, a settlement
  pays, and the rest stutters. The invariant enters where a payment requires an
  uncharged operation.
- `GovernorTypeCorrect` and `PlatformDoubtHaltsAlways`: no ledger step clears the
  platform's STASIS, a step that puts a platform operation in doubt sets it, and the
  only governor step that clears it finds nothing in doubt.
- `SpendAtCapHaltsAlways`: of the ledger's steps only a recorded settlement grows a
  spend, and the row it is billed to halts at its cap; so does a direct spend's row.
- `LedgerTotals`, `SpendAlwaysMatches`, `NoSpendLostEver`, `LiabilityStaysWithinCap`.
  The sums are folds over sets, whose recursion the prover cannot unfold.
  `CountingLemmas` gets around it: the fold over one finite set is a function on its
  subsets, and a set of subsets that has the empty one and is closed under adding an
  element has them all (`FS_Induction`'s argument, stated with a set instead of an
  operator); from it follow the sum with one element more, with one value changed and
  of equal values. The invariant `TotalsInv` adds that only finitely many operations
  have a row, which each transaction keeps because it adds at most one. The cap is an
  action property: a reservation stays within the cap it has read, a settlement moves
  the hold into the spend and grows the excess by what it reported above the hold, and
  everything else takes holds away.
- `ExecTypeCorrect`, `ExecDispatchAccounted`, `ExecSettlesReturned`,
  `ExecNoConcurrentEffects`, `ExecTruthfulAnswers`. `ExecInv` adds to the governor's
  invariant what every call knows (`CallInv`): its place fixes its handler (`Shape`),
  the row it owns is reserved, refunded or accounted for (`Owned`), and its answer is
  still true of its row (`Told`); and no two calls own one operation (`SoleOwner`).
  The argument is that of ownership: a step changes a row other than quietly (refund
  before dispatch, doubt, human resolution) only if the row is new or its owner takes
  the step (`Acts`), quiet changes falsify nothing any call knows (`PassiveCall`), and
  each action has a lemma for what its own call knows. `ExecNoConcurrentEffects`
  needs all of it: two unresolved running handlers would have two active operations
  of one fingerprint.
- `ExecImplementsGovernor`: the executor's steps are steps of the ledger or the
  governor, so everything above holds of systems of executor calls.
- `AuditChainIntact`, `AuditTypeCorrect`. `AuditInv` joins the chain with the columns
  of the tables (`WellFormed`), which faults keep while they break the chain. An
  append extends the chain because its link commits to the head's hash, whose length
  is the head's sequence number; a pruning keeps it because the receipt ends with the
  hash the remaining chain begins from. Both are lemmas about the tables
  (`AppendedIntact`, `PrunedIntact`), so a retention is one after the other. The
  migration is the one place where hashes are built from nothing (`LegacyChain`).
- `ValidOnlyIfIntact`: a verification reads the database in several statements while
  writers append, prune and damage it between them. `Traced` says that whatever rows
  are lost or altered, each link, receipt and anchor that is there commits to the
  history as it was written (`Commits`), so that two that fit together are parts of
  one log. `VerdictInv` says of each statement what it has seen: if the store was
  intact when the verification began there is nothing to say, and if it was not, then
  a defect was there (`Defective`) that no append or pruning since has repaired
  (`Later`), and either it is among the rows still to be read (`DefectAhead`) or the
  verification is already on its way to another verdict.
- `QuietVerdictsTrue`: if nothing was committed in between, what was read is what
  there is (`QuietInv`), the walk has found every row so far whole (`WalkedSoFar`), and
  its end compares what `Intact` compares.
  Proving these showed something about the model: a fault used to replace an event by
  any other, so that a second fault could put the first one's event back while a
  verification ran. With one fault, as TLC checks it, this cannot happen; a fault now
  leaves an event that its link does not commit to.
- `AuditImplementsLog`: an append is the log's, a retention its pruning, a fault its
  damage or nothing (a lost link), and a verification stutters. It holds with faults,
  since it says nothing of links.
- `LayerUnlockJustified`, `LayerDeletedStays`, `LayerTypeCorrect`. `LayerInv` says of
  each check that overlapped no change that it is about the stored secret
  (`CheckCurrent`), hence a verdict of it is about the row it is written to. Of a server
  without a validator it says only what is true there, that a check was run of the
  secret (`presumed`); that nobody accepted it is told in section 5.
- `ApprovalOnce`, `ApprovalSigned`, `ApprovalHeeded`, `ApprovalTypeCorrect`.
  `ApprovalInv` counts grants by consumed nonces (`GrantedConsumes`) and knows of each
  gate that the time it read lies between the request and its expiry (`CallsKnown`)
  and of each prompt envelope that it is dated within the skew (`PromptlySigned`);
  that is what makes a prompt decision pass every comparison.
- `GateHoldsSlots`, `GateTypeCorrect`. `Sound` says of one lease where it is held: up
  to its sealing, and from then on while its tracked execution runs. Nothing is
  tracked after the sealing, which is why a slot may be given back then.
- `VoiceOneSession`, `VoiceShowsSession`, `VoiceTypeCorrect`. `SocketsKnown` identifies
  the opening socket with the pending attempt, which is the current one, and the open
  socket with the adapter in use; every late callback finds itself not current.
- `RoutesOutcomes`, `RoutesTrue`, `RoutesTypeCorrect`. `RoutesInv` says of each kind of
  call where its rows are (`NotActed`, `OutcomeDue`, `ToolsRun`, `TrailTrue`): which
  appends have been made is a function of the place and of the kind, except where an
  append failed, and there the answer says so (`AnswerOK`).
- `CacheAlwaysTruthful`, `ChargeAlwaysMatches`, `BillableTypeCorrect`. `CacheInv`
  relates an entry to the epoch and the clock, and a call under way to what it read
  before its upstream call. `RowsInv` says that no two requests own an operation
  (`RowsOwned`) and that a request's place fixes the states its row can be in
  (`RowFollows`) and what it may answer (`AnswerFits`); recovery and another process
  move a row only along states its request's place already allows. A body that could
  not be read is the one 200 that is settled without a charge, and the promise says so.
- `DrawnAlwaysCurrent`, `LockedAlwaysHidden`, `FeedTypeCorrect`. At most one snapshot
  waits (`OneWaits`), which is the latest, and a lock is seen by the drain after it.
- `RoomsConverge`, `CollabTypeCorrect`. `CollabInv` counts every edit: what a session
  has sent is in its room's document or on its way there (`OwnEdits`), and what
  its room has is in its document or on its way to it (`UpToDate`). When no frame is
  on its way the two agree but for what the session has not sent; an edit after an
  unsent one has reached everybody and is shown by nobody else, since Yjs keeps it
  pending, which is why the theorem compares what is shown. The limits of rooms and
  peers and the room's place in the map are conjuncts, because a join attaches to the
  room it has found only if that is still the one in the map.
- `GuardsAlwaysHold`, `GuardTypeCorrect`. Three invariants, of requests, cache and
  windows. A request behind its first policy has a token whose bearer that policy
  admits (`RequestOK`); the second policy's identity is the same one, so the path's
  policies all hold. Cached tokens are vetted, and what made them acceptable in the past
  keeps doing so, but for the expiry, which is compared on each use (`Settled`). The
  rate is the deep one: a window's count says nothing of the requests before it, and
  a span may touch two windows. `Counted` says that a window counts exactly what was
  let through since it began, and that fewer than `Limit` were in any span that
  reaches its beginning from before; `Begun`, that it began with a request that was let
  through, so that a span beginning later misses that one, and a window that has
  ended leaves fewer than `Limit` for the spans which the next can share with it
  (`OverReady`). An eviction ends what is known of its client (`forgotten`).
- `CatalogAlwaysHonest`, `CatalogTypeCorrect`. `CatalogInv` adds that only a live source
  is refreshed or blocked. A refresh has one leader, so the parts of it still awaited
  are there exactly while somebody leads; whoever joins is answered with its result,
  and a catalog is served past its freshness only after comparing its age with the day.
- `DeskAlwaysTrue`, `DeskTypeCorrect`. `Counts` says that a count is the number of the
  requests that passed it, and that it has stayed at the quota since the first refusal
  for it; `Whole` says what an analysis rests on from the moment its body was read:
  the caller's part is there exactly where the caller brought one, and what the server
  asked for is there with its five parts or not at all.
- `StreamAlwaysTrue`, `StreamTypeCorrect`. `StreamOK` says of a stream that what it has
  sent rises, lies before what it still has to replay, and reaches, once it is live,
  from the row after `since` to the last: the replay is read before the stream listens,
  so the row that a listener is told is newer than all it has sent. `Listed` ties the
  listeners to the live streams and to those whose client left too early.
  `TelemetryInv` counts the errors still in the ring of spans, because a push drops the
  oldest span before it adds one.
- `CableAlwaysTrue`, `CableTypeCorrect`. `CacheOK` says that a reading which began with
  the cache's present generation carries the present shelf, so that filling the cache
  from a reading never restores an older pack; `RequestOK` ties a request under way to
  a reserved operation and an answered one to a settled operation; `RegistryOK` keeps
  the registry's entries in step with the configuration, through activation, health
  reports and restarts. `DefinitionsAssumption` states what the registry's schema
  (`contracts/src/providerRegistry.ts:162`) asks of the definitions.
- `OfficialAlwaysHonest`, `OfficialTypeCorrect`. The adapter keeps the times of some
  requests and drops others. `SpentInv` says that all of the last hour are kept and that
  any span of an hour, wherever it begins, holds at most the budget of all requests ever
  made; `LastHourCounted` then shows that what is counted on admission is exactly the
  hour that ends now, so the next request may be admitted only if that hour has room,
  and spans beginning later hold fewer. `Waits` and `OnePerKey` tie requests to loads: a
  load whose waiting requests are gone is no longer shared, though its workers go on.
- `EvidenceDeskKept`, `MapAlwaysKept`. `MapCallOK` says of a caller of the map that waits
  that its turn comes an interval after every request sent before it asked, whoever else
  asked, waits or has been sent meanwhile; two callers whose waits overlap have no such
  promise, as the code does not look again after waiting (section 5).
- `FeedsAlwaysTrue`. `Known` and `Going` say what has been fetched, held and opened in
  each state of a request, `EndsKeeps` that any end of it keeps the promises if the
  answer is `AnswerTrue` and the connections `LeftTrue`; `KeptTrue` is about the filters
  and `AnswerIsTrue` about the joined documents, which may be of two publications.
  `PublicAssumption` says that the fixtures are on the globe and that the default time
  limit of a map query is within bounds (`overpassSanitizer.ts:28`).

- `RecordsAlwaysAsked`, `FloodsAlwaysTrue`, `HeightsAlwaysTrue`, and with the two
  above `EvidenceAlwaysHonest`. `AnswersInv` keeps that the flood map and the
  elevations a provider holds are ones it was given. What an answer lists is a
  filtered sequence: it is written by the positions that stay (`Selections`), and the
  lemmas of `CountingLemmas` say that every entry kept was one of the fixture's that
  passed, and that every one that passed is kept (`SelectKnown`). The summary of a
  flood map goes through its zones one by one (`SummaryOf`): were it false of some
  prefix there would be a shortest one, which is not the empty one, and one zone more
  does not make it false (`SummaryStep`). The elevation is that of a least distance,
  which a finite set of natural numbers has (`NearestKnown`).
- `AnalysesAlwaysSound`, `AnalysisTypeCorrect`. A step answers one question of one
  family (`OneQuestion`), and each family has a lemma: shares and margins, derived
  locations, previews and footprints, ranks, concentration, disagreements. The
  rounding is integer division, whose bounds the lemmas carry through the quotients;
  an estimate without evidence stays absent through each formula that uses it. A rank
  counts the estimates that come before it (larger ones, and equal ones listed
  earlier), so ranks are distinct and, by counting them, without a gap; totals are
  sums of a function over a finite set, bounded and split by the lemmas about sums.
- `ServicesRefine`, `ServicesTypeCorrect`, `ServicesHonest`, `ServicesKeepPromises`. A step of
  the services is, for every one of them, a step of it or leaves it alone
  (`ServerSteps`, `ClientSteps`, `SourceSteps`, `OperatorSteps`); hence the specification
  of all implies that of each, what was proved of each holds of all side by side, and
  the choice of `focus`, which keeps the checked state space small, is no assumption of
  the proofs of the single services. `ServicesHonest` joins the eight promises of the
  data sources and the desk, `ServicesKeepPromises` those of the server and the client.

One module holds the proofs of several components where these share nothing; its
sections are independent. Some definitions were written in the form the proofs can
use, which computes what they did before: filtering by positions rather than
by `SelectSeq`, whose recursion cannot be unfolded, the flood summary as a recursive
function, sums with `SumFunction`.

Only model-checked: liveness (`NothingHangs`, `CallsReturn`, `CloseCompletes`), which with
fairness is outside the prover's reach, and the seven disagreements of section 5, which
are counterexamples. Every other property that a run checks is also a theorem.

## 5. Where documents and code disagree

With a run that shows it:

- `GlobalBreachIsPlatforms`: a platform reservation counts what tenants hold and
  spent, so tenants within their caps can make it trip the global STASIS, which halts
  every tenant; the runbook says a tenant's exhaustion leaves the others alone.
- `DoubtHaltsScope`: `resumeTenant` does not look for doubts; the runbook and ADR 0043
  say resume refuses while there are any.
- `NoDispatchInStasis`: STASIS is not read at dispatch; the security policy says all
  autonomous execution halts.
- `OutcomeWhateverTheResult`: the port says an outcome must follow whatever the result;
  the command line's offline resume leaves none when the governor refuses it.
- `RevokedStaysLocked`: a check that awaited the provider while its credential was
  revoked writes `valid` over the revocation; the plan says revocation relocks.
- `ApprovedBeforeExpiry`: the expiry is compared with a time read before the decision
  was awaited; ADR 0042 says no grace is added.
- `AbsentRemoved`: entities absent from a snapshot are looked for only if a count
  changed, so one item without a position hides one that is gone.

Met while modelling, and part of the models as the code has it:

- *Approval.* `contracts/src/ports.ts:120` says of the expiry of a request "Gates must
  not linger unanswered", but neither the executor nor the signed gate has a timer
  beside its await, and the expiry is looked at only once an answer came.
- *Executor.* An overdue reservation is answered "The original operation requires human
  reconciliation" (`reservedToolExecution.ts:134`) and then refunded by recovery; `TruthfulAnswers`
  speaks of that answer only where the call's own handler ran.
- *Layer access.* Without a validator, which is how `startStandaloneServer`
  (`serverStartup.ts:10`) builds the server, a check marks any stored secret valid
  (`tenantLayerAccessStore.ts:149`); `PLAN.md:234` says a status endpoint or one bounded
  request validates it.
- *Cost governor.* During a cooldown or without budget the cache is served at any
  age; a slow 429 can shorten a newer cooldown; a slow older answer overwrites a newer
  entry; an oversized answer is refused and cached all the same; a 200 whose body is
  not the JSON it claims is recorded as a 502 without a charge and sent on as it is
  (`billableFeedResult.ts:84`, `costGovernorSettlement.ts:176`).
- *Audit.* Retention prunes rows it has not verified (`auditRetention.ts:361`); the
  command line inspects without keys and calls a chain invalid after a retention
  (`cli/commands/audit.ts:48`).
- *Audit stream.* Rows committed while the tail is replayed are sent by no one; a
  client that goes before `onAbort` is registered leaves its listener behind.
- *Cable packs.* An activation may be displaced by another or lost by a restart, and
  its replay is then answered `PACK_VALIDATION_FAILED`; the MCP runtime keeps the
  registry it was started with (`index.ts:226`); in live mode no pack can be activated
  while the adapter still serves its seed.
- *Request guards.* Verified tokens stay in the cache after a revocation until they
  expire; one that expires while its verifier is awaited is accepted; an evicted
  window starts afresh; the tenant limiter is never mounted.
- *Collaboration and voice.* Edits made before the socket opens are never sent, and
  the session's later ones stay pending at everybody else;
  overlapping joins of rooms may end in the older one, and the close of an old socket
  shows a connected client as gone; a full server's refusal is thrown in an async
  upgrade handler. The voice panel shows a running tool as an error, keeps its name
  after a barge-in, and a late result of one call ends the next.
- *Layer access panel.* An aborted first load leaves it loading; overlapping loads may
  show the older answer.
- *Feeds.* A source slower than the poll interval is aborted for ever; counts are those
  of the fetch and not of the drain. Every feed but flights ignores invalid boxes; a
  magnitude that is no number disables its filter.
- *Satellites and official feeds.* Callers that joined a failed refresh get the raw
  error without the stale fallback; a failed group refetches the others after a
  minute although ADR 0034 (lines 66-67) says otherwise. Workers of an abandoned
  coastal load go on beside a new one, more than the four of
  `docs/data-sources/coastal-conditions.md:40`; areas whose bounds round alike share
  an answer.
- *Map queries and pinned fetches.* A caller's box replaces the statement's without the
  check of its span, and several boxes become the first; an upstream failure is
  answered 400; an agent stays open when a body is not read or breaks off.
- *Bikes, radio, cameras.* The newer of two times is claimed for both documents, a
  station without status has no bikes; a stream's failure is passed on as 200; one
  branch of the cameras' health check cannot be reached.
- *Evidence providers.* Blank cells become 0 and available in six providers and blank
  margins 0, although the dictionaries say "NEVER coerced to 0"
  (`blsOewsDictionary.ts:330`): the empty cell is tested for before the trim. So
  `AnalysesSound` speaks of publication codes and missing cells and not of blanks; the LAU period filter matches digits of ids; fixtures
  are served by geography outside seed mode; requested vintages are checked and not
  used; unknown flood zones count as minimal; two map calls may pass the throttle.
- *Economic analysis.* A population of 0 makes a density no schema accepts; a
  suppressed reason is hard-coded; the competition falls back to a record of any
  metric; the workforce total is the first of any occupation; the preview shows an
  hourly wage under an annual label; shift-share effects are rounded apart.
- *Analysis desk.* A missing footprint is replaced by Austin's
  (`marketAnalysisRoutes.ts:243`), places and zip codes get Travis county's
  unemployment and any place called "austin" its occupations
  (`workforceAnalysisRoutes.ts:222`), unlabelled among the caller's evidence; an
  analysis admitted before STASIS computes during it.
- *Telemetry.* Nothing in the server uses `withSpan`.

## 6. Plan and what is not modelled

What is modelled is checked, and but for liveness proved. What would add most now is
more of the system: the rows a power loss can take from a database that commits
without syncing (the first item below), and the gap between a lease and the executions
that register with it late (`httpAdapter.ts:256`), which needs the MCP SDK's dispatch.

Not modelled:

- the governance database beneath the transactions. A commit is durable here; with
  WAL and `synchronous = NORMAL` a power loss may drop the last ones, which then are
  dropped in order and together with what depended on them inside the file, but not
  outside it;
- the views of the web application, rendering, charts, audio, and the layers whose
  shape is that of the three modelled ones;
- wording: prompt protection and sanitising of texts, logging, headers, the registry's
  Markdown, and the parsing of live statistics beyond the choice of their records;
- the types of the contracts that carry no refinement; the command line's readers;
- libraries: cryptography, Yjs's merge, the MCP SDK, hono, SQLite, which appear by
  what the code asks of them and are marked external in the map.

Hashes and fingerprints are taken as collision free, signatures as unforgeable, and
range checks of micro-USD amounts (which throw and roll back) as stuttering.
