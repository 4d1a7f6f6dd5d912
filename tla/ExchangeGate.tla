---------------------------- MODULE ExchangeGate -----------------------------
(***************************************************************************)
(* The HTTP face of the MCP server: ExchangeGate and the route that leases *)
(* its slots (apps/server/src/routes/mcp.ts), with the adapter that starts *)
(* tool executions and registers them (packages/ops-mcp httpAdapter.ts).   *)
(*                                                                         *)
(* A slot is given back when three things hold in whatever order they come *)
(* about: no more work will be registered (sealed), the response is over   *)
(* or the client gone (finished), and the registered execution has ended.  *)
(* The protocol SDK between fetch and the tool's callback is external: it  *)
(* may answer before the callback runs.                                    *)
(***************************************************************************)
EXTENDS Naturals, FiniteSets

CONSTANTS
  Exchanges,  \* POST requests, each one exchange
  Maximum     \* maxActiveRequests

ASSUME GateAssumption == Maximum \in Nat \ {0} /\ IsFiniteSet(Exchanges)

VARIABLES
  exchange,   \* exchange -> where its handler stands and its lease
  closing     \* how far close() has come

gateVars == <<exchange, closing>>

Unopened == [pc |-> "new", held |-> FALSE, aborted |-> FALSE, sealed |-> FALSE,
             finished |-> FALSE, execution |-> "none", tracked |-> FALSE]

GateInit ==
  /\ exchange = [x \in Exchanges |-> Unopened]
  /\ closing = "open"

HeldSlots == {x \in Exchanges : exchange[x].held}

-----------------------------------------------------------------------------
(* finishIfIdle                                                            *)
(* Mutant of FinishIfIdle: the registered work is not waited for.          *)
FinishIgnoringWork(r) ==
  IF r.held /\ r.sealed /\ r.finished
  THEN [r EXCEPT !.held = FALSE]
  ELSE r

FinishIfIdle(r) ==
  IF r.held /\ r.sealed /\ r.finished /\ ~(r.tracked /\ r.execution = "running")
  THEN [r EXCEPT !.held = FALSE]
  ELSE r

(* seal, release, and relayAbort, which is also what abortAll does to each.*)
Sealed(r) == FinishIfIdle([r EXCEPT !.sealed = TRUE])

Released(r) == FinishIfIdle([r EXCEPT !.sealed = TRUE, !.finished = TRUE])

Aborted(r) == FinishIfIdle([r EXCEPT !.aborted = TRUE, !.finished = TRUE])

Step(x, r) == exchange' = [exchange EXCEPT ![x] = r] /\ UNCHANGED closing

AtPc(x, pc) == exchange[x].pc = pc

-----------------------------------------------------------------------------
(* acquire, or the 503 of a closed gate and the 429 of a full one.         *)
Acquire(x) ==
  /\ AtPc(x, "new")
  /\ IF closing # "open" \/ Cardinality(HeldSlots) >= Maximum
     THEN Step(x, [exchange[x] EXCEPT !.pc = "answered"])
     ELSE Step(x, [exchange[x] EXCEPT !.pc = "authorizing", !.held = TRUE])

(* The bearer token is verified and the scopes compared, or not.           *)
Authorize(x, accepted) ==
  /\ AtPc(x, "authorizing")
  /\ Step(x, IF accepted /\ ~exchange[x].aborted
             THEN [exchange[x] EXCEPT !.pc = "reading"]
             ELSE Released([exchange[x] EXCEPT !.pc = "answered"]))

(* readBoundedRequest: an abort ends the read.                             *)
ReadBody(x, complete) ==
  /\ AtPc(x, "reading")
  /\ Step(x, IF complete /\ ~exchange[x].aborted
             THEN [exchange[x] EXCEPT !.pc = "dispatched"]
             ELSE Released([exchange[x] EXCEPT !.pc = "answered"]))

(* The tool's callback: the execution starts first and is registered then. *)
(* Registering throws when the lease is sealed; the execution goes on.     *)
ExecuteRequest(x) ==
  /\ AtPc(x, "dispatched") \/ AtPc(x, "streaming")
  /\ exchange[x].execution = "none"
  /\ Step(x, [exchange[x] EXCEPT !.execution = "running", !.tracked = ~exchange[x].sealed])

EndExecution(x) ==
  /\ exchange[x].execution = "running"
  /\ Step(x, FinishIfIdle([exchange[x] EXCEPT !.execution = "done"]))

(* handler.fetch settles: the adapter seals, then responseWithLease wraps  *)
(* the body; without a body, or after an error, the lease is released.     *)
Respond(x, body) ==
  /\ AtPc(x, "dispatched")
  /\ Step(x, IF body THEN Sealed([exchange[x] EXCEPT !.pc = "streaming"])
                     ELSE Released([exchange[x] EXCEPT !.pc = "answered"]))

(* The body ends or fails, or the client cancels it.                       *)
EndStream(x, cancelled) ==
  /\ AtPc(x, "streaming")
  /\ Step(x, Released([exchange[x] EXCEPT !.pc = "answered",
                                          !.aborted = @ \/ cancelled]))

(* The client goes away; the listener is there as long as the slot is.     *)
ClientAborts(x) ==
  /\ exchange[x].held /\ ~exchange[x].aborted
  /\ Step(x, Aborted(exchange[x]))

-----------------------------------------------------------------------------
(* close: abortAll, then the SDK's close, then waitForIdle.                *)
(* Mutant of CloseBegins: abortAll aborts the signals only.                *)
CloseSignalsOnly ==
  /\ closing = "open"
  /\ closing' = "handler"
  /\ exchange' = [x \in Exchanges |->
                    IF exchange[x].held THEN [exchange[x] EXCEPT !.aborted = TRUE]
                                        ELSE exchange[x]]

CloseBegins ==
  /\ closing = "open"
  /\ closing' = "handler"
  /\ exchange' = [x \in Exchanges |->
                    IF exchange[x].held THEN Aborted(exchange[x]) ELSE exchange[x]]

HandlerClosed ==
  /\ closing = "handler"
  /\ closing' = "waiting"
  /\ UNCHANGED exchange

(* Nothing is acquired meanwhile, so the slots held now are the ones that  *)
(* waitForIdle found.                                                      *)
CloseEnds ==
  /\ closing = "waiting"
  /\ HeldSlots = {}
  /\ closing' = "closed"
  /\ UNCHANGED exchange

ServerSide(x) ==
  \/ \E b \in BOOLEAN : Authorize(x, b) \/ ReadBody(x, b) \/ Respond(x, b)
  \/ EndExecution(x)

ClientSide(x) ==
  \/ Acquire(x)
  \/ ExecuteRequest(x)
  \/ \E b \in BOOLEAN : EndStream(x, b)
  \/ ClientAborts(x)

GateNext ==
  \/ \E x \in Exchanges : ServerSide(x) \/ ClientSide(x)
  \/ CloseBegins \/ HandlerClosed \/ CloseEnds

(* What no one can hold up: the read of a body, which the abort cancels,   *)
(* and the SDK, which answers when no execution keeps its callback.        *)
Prompt(x) ==
  \E b \in BOOLEAN :
    \/ exchange[x].aborted /\ ReadBody(x, b)
    \/ exchange[x].execution # "running" /\ Respond(x, b)

(* Only that and the SDK's own close are assumed: nothing of the client,   *)
(* nothing of the verifier, which sees no abort and no timeout, and        *)
(* nothing of executions, for a cancelled handler is drained without one.  *)
GateFairness ==
  /\ \A x \in Exchanges : WF_gateVars(Prompt(x))
  /\ WF_gateVars(HandlerClosed) /\ WF_gateVars(CloseEnds)

GateSpec == GateInit /\ [][GateNext]_gateVars

FairGateSpec == GateSpec /\ GateFairness

-----------------------------------------------------------------------------
(* A lease is held from acquire on, and an execution is registered only    *)
(* after it started.                                                       *)
GateTypeOK ==
  /\ closing \in {"open", "handler", "waiting", "closed"}
  /\ exchange \in [Exchanges ->
       [pc : {"new", "authorizing", "reading", "dispatched", "streaming", "answered"},
        held : BOOLEAN, aborted : BOOLEAN, sealed : BOOLEAN, finished : BOOLEAN,
        execution : {"none", "running", "done"}, tracked : BOOLEAN]]
  /\ \A x \in Exchanges : exchange[x].tracked => exchange[x].execution # "none"

(* No more slots than the maximum are out; one is not given back while a   *)
(* registered execution or a handler that could start one still runs, and  *)
(* close has not ended while either does (ExchangeGate.finishIfIdle).      *)
SlotsHeldWhileWorking ==
  /\ Cardinality(HeldSlots) <= Maximum
  /\ \A x \in Exchanges :
       \/ exchange[x].pc \in {"authorizing", "reading", "dispatched"}
       \/ exchange[x].tracked /\ exchange[x].execution = "running"
       => exchange[x].held
  /\ closing = "closed" => HeldSlots = {}

(* An exchange waits for the verifier or for the execution it registered.  *)
HeldUp(x) ==
  \/ AtPc(x, "authorizing")
  \/ exchange[x].tracked /\ exchange[x].execution = "running"

(* close completes, though clients neither read nor hang up, unless one    *)
(* verifier never answers or one registered execution never ends: nothing  *)
(* else holds a slot (close, abortAll, waitForIdle).                       *)
CloseCompletes ==
  closing = "handler" ~> closing = "closed" \/ \E x \in Exchanges : [](HeldUp(x))

=============================================================================
