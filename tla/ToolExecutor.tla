---------------------------- MODULE ToolExecutor ----------------------------
(***************************************************************************)
(* executeReservedTool (packages/core/src/reservedToolExecution.ts): the   *)
(* calls that reserve an operation in the ledger, ask for approval, invoke *)
(* the tool's handler and settle, refund or put the operation in doubt.    *)
(*                                                                         *)
(* A call is one invocation.  Several are in flight at once, in one event  *)
(* loop or in different processes (server, MCP, CLI) over one ledger file, *)
(* so every ledger transaction and every await is a step of its own.  What *)
(* runs between two of them without touching the ledger belongs to the     *)
(* step before it.  The abort signal is read after the reservation and at  *)
(* each await, where it is a choice of the environment.                    *)
(*                                                                         *)
(* An answer keeps what its caller learns of the operation's fate: the     *)
(* terminal results of a refund before dispatch are all "NOT_RUN".         *)
(***************************************************************************)
EXTENDS BudgetGovernor

CONSTANTS
  Calls,      \* invocations of the executor
  Dangerous   \* the requests whose tool needs approval

NoOp == "none"
NoAnswer == "none"

ASSUME ExecutorAssumption ==
  /\ NoOp \notin Ops
  /\ Dangerous \subseteq Requests
  /\ \A r \in Requests : Estimate[r] \in Costs

VARIABLES
  pc,        \* where each call is
  op,        \* the operation row the call owns or was answered from
  answer,    \* what the call returned
  handler,   \* the handler the call invoked
  approvals  \* history: operations the approval gate approved

callVars == <<pc, op, answer, handler, approvals>>
execVars == <<govVars, callVars>>

Places == {"idle", "approving", "refunding", "starting", "dispatching", "running",
           "settling", "doubting", "cancelling", "draining", "answered", "crashed"}
Answers == {"OK", "NOT_RUN", "BUDGET_DENIED", "OPERATION_RECONCILED", "OPERATION_IN_PROGRESS",
            "OPERATION_IN_DOUBT", "IDEMPOTENCY_CONFLICT", "LEDGER_UNAVAILABLE"}

Invoked(o) == {c \in Calls : op[c] = o /\ handler[c] # "none"}

Goto(c, place) == pc' = [pc EXCEPT ![c] = place]
Reply(c, a) == Goto(c, "answered") /\ answer' = [answer EXCEPT ![c] = a]

(* Mutant of StoredResult: a denial stores no result.                      *)
StoredTerminal(o) ==
  IF resolutions[o] > 0 THEN "OPERATION_RECONCILED"
  ELSE CASE state[o] = "SETTLED" -> "OK"
         [] state[o] = "REFUNDED" -> "NOT_RUN"
         [] OTHER -> NoAnswer

(* The terminal result stored with an operation that ended.                *)
StoredResult(o) ==
  IF resolutions[o] > 0 THEN "OPERATION_RECONCILED"
  ELSE CASE state[o] = "SETTLED" -> "OK"
         [] state[o] = "REFUNDED" -> "NOT_RUN"
         [] OTHER -> "BUDGET_DENIED"

-----------------------------------------------------------------------------
(* reserve and what is decided on its answer.                              *)

AfterReserve(r) == {"refunding", IF r \in Dangerous THEN "approving" ELSE "starting"}

CallReserved(c, o, r) ==
  /\ pc[c] = "idle"
  /\ ReserveGranted(o, r, FALSE)
  /\ \E place \in AfterReserve(r) : Goto(c, place)
  /\ op' = [op EXCEPT ![c] = o]
  /\ UNCHANGED <<direct, answer, handler, approvals>>

CallDenied(c, o, r) ==
  /\ pc[c] = "idle"
  /\ ReserveDenied(o, r)
  /\ Reply(c, "BUDGET_DENIED")
  /\ op' = [op EXCEPT ![c] = o]
  /\ UNCHANGED <<direct, handler, approvals>>

(* A retry, or the same request under a new id: answered from the row.     *)
AnswerFor(o, r) ==
  CASE Classify(o, r) = "conflict" -> "IDEMPOTENCY_CONFLICT"
    [] Classify(o, r) = "in_doubt" -> "OPERATION_IN_DOUBT"
    [] Classify(o, r) = "in_progress" -> "OPERATION_IN_PROGRESS"
    [] OTHER -> StoredResult(o)

CallKnown(c, o, r) ==
  /\ pc[c] = "idle"
  /\ \E p \in IF state[o] = "ABSENT" THEN Siblings(r) ELSE {o} :
       /\ Reply(c, AnswerFor(p, r))
       /\ op' = [op EXCEPT ![c] = p]
  /\ UNCHANGED <<govVars, handler, approvals>>

CallUnavailable(c) ==
  /\ pc[c] = "idle"
  /\ Reply(c, "LEDGER_UNAVAILABLE")
  /\ UNCHANGED <<govVars, op, handler, approvals>>

-----------------------------------------------------------------------------
(* Approval, refund before dispatch, and dispatch.                         *)

(* The gate approves, and the call was not cancelled meanwhile; or it      *)
(* rejects, fails, or the caller cancels.  No timer runs beside the await, *)
(* and the expiry in the request is the gate's to look at.                 *)
Approve(c) ==
  /\ pc[c] = "approving"
  /\ \/ approvals' = approvals \cup {op[c]} /\ Goto(c, "starting")
     \/ UNCHANGED approvals /\ Goto(c, "refunding")
  /\ UNCHANGED <<govVars, op, answer, handler>>

(* Mutant of RefundReserved: a refund that fails answers as if it had not. *)
RefundOptimistic(c) ==
  LET o == op[c]
  IN /\ pc[c] = "refunding"
     /\ (Refund(o, request[o], FALSE) /\ UNCHANGED direct) \/ UNCHANGED govVars
     /\ Reply(c, "NOT_RUN")
     /\ UNCHANGED <<op, handler, approvals>>

(* refundReserved: no evidence is ever given, so an operation that was     *)
(* dispatched is not refunded; one already refunded answers its result.    *)
RefundReserved(c) ==
  LET o == op[c]
  IN /\ pc[c] = "refunding"
     /\ \/ Refund(o, request[o], FALSE) /\ UNCHANGED direct /\ Reply(c, "NOT_RUN")
        \/ state[o] = "REFUNDED" /\ UNCHANGED govVars /\ Reply(c, StoredResult(o))
        \/ UNCHANGED govVars /\ Reply(c, "LEDGER_UNAVAILABLE")
     /\ UNCHANGED <<op, handler, approvals>>

(* Mutant of Start: the handler is invoked though the transition failed.   *)
StartAnyway(c) ==
  LET o == op[c]
  IN /\ pc[c] = "starting"
     /\ (StartExecution(o, request[o]) /\ UNCHANGED direct) \/ UNCHANGED govVars
     /\ Goto(c, "dispatching")
     /\ UNCHANGED <<op, answer, handler, approvals>>

(* startExecution throws when the row is not RESERVED any more, when its   *)
(* deadline has passed and when the ledger cannot be written.              *)
Start(c) ==
  LET o == op[c]
  IN /\ pc[c] = "starting"
     /\ \/ StartExecution(o, request[o]) /\ UNCHANGED direct /\ Goto(c, "dispatching")
        \/ UNCHANGED govVars /\ Goto(c, "refunding")
     /\ UNCHANGED <<op, answer, handler, approvals>>

Dispatch(c) ==
  /\ pc[c] = "dispatching"
  /\ Goto(c, "running")
  /\ handler' = [handler EXCEPT ![c] = "running"]
  /\ UNCHANGED <<govVars, op, answer, approvals>>

-----------------------------------------------------------------------------
(* The handler, and the race with its timeout and the caller's signal.     *)

(* Mutant of HandlerEnds: a rejection is settled like a result.            *)
HandlerEndsSettling(c, how) ==
  /\ handler[c] = "running"
  /\ handler' = [handler EXCEPT ![c] = how]
  /\ CASE pc[c] = "running" -> Goto(c, "settling")
       [] pc[c] = "draining" -> Goto(c, "answered")
       [] OTHER -> UNCHANGED pc
  /\ UNCHANGED <<govVars, op, answer, approvals>>

(* The handler's promise settles; when the call gave up on it nobody       *)
(* listens, except a cancelled call, which waits for it before it answers. *)
HandlerEnds(c, how) ==
  /\ handler[c] = "running"
  /\ handler' = [handler EXCEPT ![c] = how]
  /\ CASE pc[c] = "running" -> Goto(c, IF how = "returned" THEN "settling" ELSE "doubting")
       [] pc[c] = "draining" -> Goto(c, "answered")
       [] OTHER -> UNCHANGED pc
  /\ UNCHANGED <<govVars, op, answer, approvals>>

(* Mutant of TimeOut: the timer starts when the handler has ended.         *)
TimeOutLate(c) ==
  /\ pc[c] = "running"
  /\ handler[c] # "running"
  /\ Goto(c, "doubting")
  /\ UNCHANGED <<govVars, op, answer, handler, approvals>>

TimeOut(c) ==
  /\ pc[c] = "running"
  /\ Goto(c, "doubting")
  /\ UNCHANGED <<govVars, op, answer, handler, approvals>>

CancelRunning(c) ==
  /\ pc[c] = "running"
  /\ Goto(c, "cancelling")
  /\ UNCHANGED <<govVars, op, answer, handler, approvals>>

-----------------------------------------------------------------------------
(* The end of a dispatched operation.                                      *)

(* settleReserved: the declared maximum is charged whatever the handler    *)
(* returned, valid or not.  A settlement that fails is put in doubt.       *)
SettleReserved(c) ==
  LET o == op[c]
  IN /\ pc[c] = "settling"
     /\ \/ /\ Settle(o, request[o], Estimate[request[o]])
           /\ UNCHANGED direct
           /\ Reply(c, "OK")
        \/ state[o] = "SETTLED" /\ UNCHANGED govVars /\ Reply(c, StoredResult(o))
        \/ UNCHANGED <<govVars, answer>> /\ Goto(c, "doubting")
     /\ UNCHANGED <<op, handler, approvals>>

(* markExecutionInDoubt and the fallback of settleReserved: an operation   *)
(* in doubt already is answered as it is, any other state is refused.      *)
MarkedInDoubt(o) ==
  \/ MarkInDoubt(o, request[o]) /\ UNCHANGED direct
  \/ state[o] = "IN_DOUBT" /\ UNCHANGED govVars

MarkExecutionInDoubt(c) ==
  /\ pc[c] \in {"doubting", "cancelling"}
  /\ \/ MarkedInDoubt(op[c]) /\ answer' = [answer EXCEPT ![c] = "OPERATION_IN_DOUBT"]
     \/ UNCHANGED govVars /\ answer' = [answer EXCEPT ![c] = "LEDGER_UNAVAILABLE"]
  /\ Goto(c, IF pc[c] = "cancelling" /\ handler[c] = "running" THEN "draining" ELSE "answered")
  /\ UNCHANGED <<op, handler, approvals>>

(* The process dies, and with it the call and a handler that still runs.   *)
Crash(c) ==
  /\ pc[c] \notin {"idle", "crashed"}
  /\ pc[c] = "answered" => handler[c] = "running"
  /\ Goto(c, "crashed")
  /\ handler' = [handler EXCEPT ![c] = IF @ = "running" THEN "lost" ELSE @]
  /\ UNCHANGED <<govVars, op, answer, approvals>>

-----------------------------------------------------------------------------
(* The rest of the system: the reaper, the clock and the human operator.   *)
(* Tenant budgets are left to the ledger's own model.                      *)
Reap == RecoverExpired /\ UNCHANGED <<direct, callVars>>
Tick(o) == PassDeadline(o) /\ UNCHANGED <<direct, callVars>>

Operator ==
  /\ \/ Resume
     \/ Trip("LOGIC_BLOCKER")
     \/ /\ \E o \in Ops : Reconcile(o, "REFUNDED", 0) \/ \E actual \in Costs : Reconcile(o, "SETTLED", actual)
        /\ UNCHANGED direct
  /\ UNCHANGED callVars

ExecInit ==
  /\ GovernorInit
  /\ pc = [c \in Calls |-> "idle"]
  /\ op = [c \in Calls |-> NoOp]
  /\ answer = [c \in Calls |-> NoAnswer]
  /\ handler = [c \in Calls |-> "none"]
  /\ approvals = {}

(* The steps a call takes without waiting for the gate or the handler.     *)
Proceed(c) ==
  \/ RefundReserved(c)
  \/ Start(c)
  \/ Dispatch(c)
  \/ TimeOut(c)
  \/ SettleReserved(c)
  \/ MarkExecutionInDoubt(c)

ExecNext ==
  \/ \E c \in Calls, o \in Ops, r \in Requests :
       CallReserved(c, o, r) \/ CallDenied(c, o, r) \/ CallKnown(c, o, r)
  \/ \E c \in Calls : CallUnavailable(c) \/ Approve(c) \/ Proceed(c) \/ CancelRunning(c) \/ Crash(c)
  \/ \E c \in Calls, how \in {"returned", "threw"} : HandlerEnds(c, how)
  \/ \E o \in Ops : Tick(o)
  \/ Reap
  \/ Operator

ExecSpec == ExecInit /\ [][ExecNext]_execVars

(* The reaper's interval timer and the clock go on, ledger calls are       *)
(* synchronous, and the handler's timer fires.  Nothing is assumed of      *)
(* approval gates, handlers, callers and operators.                        *)
ExecFairness ==
  /\ WF_execVars(Reap)
  /\ \A o \in Ops : WF_execVars(Tick(o))
  /\ \A c \in Calls : WF_execVars(Proceed(c))

FairExecSpec == ExecSpec /\ ExecFairness

-----------------------------------------------------------------------------
(* Properties.                                                             *)

(* Every variable has its type, and a call that returned has an answer.    *)
ExecTypeOK ==
  /\ pc \in [Calls -> Places]
  /\ op \in [Calls -> Ops \cup {NoOp}]
  /\ answer \in [Calls -> Answers \cup {NoAnswer}]
  /\ handler \in [Calls -> {"none", "running", "returned", "threw", "lost"}]
  /\ approvals \subseteq Ops
  /\ \A c \in Calls : pc[c] = "answered" => answer[c] \in Answers

(* Effects are accounted for: a handler runs at most once for an           *)
(* operation, only with the approval it needs, and from then on the ledger *)
(* keeps the operation executing, settled or in doubt until a human        *)
(* resolves it, whatever is retried, reaped, cancelled or crashed.         *)
DispatchAccounted ==
  \A o \in Ops : Invoked(o) # {} =>
    /\ Cardinality(Invoked(o)) = 1
    /\ request[o] \in Dangerous => o \in approvals
    /\ state[o] \in {"EXECUTING", "SETTLED", "IN_DOUBT"} \/ resolutions[o] = 1

(* An operation is settled only by a human or after its handler returned:  *)
(* a failed, lost or unfinished effect is never charged as done.           *)
SettledMeansReturned ==
  \A o \in Ops : state[o] = "SETTLED" /\ resolutions[o] = 0 =>
    \E c \in Invoked(o) : handler[c] = "returned"

(* Two handlers of the same request run together only after a human        *)
(* resolved one of the operations: a timeout, a retry under a new id or a  *)
(* recovery pass never repeats an effect that may still be under way.      *)
NoConcurrentEffects ==
  \A c, d \in Calls :
    /\ c # d
    /\ handler[c] = "running" /\ handler[d] = "running"
    /\ request[op[c]] = request[op[d]]
    => resolutions[op[c]] + resolutions[op[d]] > 0

(* A caller is told the truth, and what it was told stays true: a result   *)
(* is settled, "not run" never ran and never will, a denial is final, and  *)
(* the ambiguous end of a call's own handler waits for a human.            *)
TruthfulAnswers ==
  \A c \in Calls :
    LET o == op[c]
    IN CASE answer[c] = "OK" -> state[o] = "SETTLED" /\ resolutions[o] = 0
         [] answer[c] = "NOT_RUN" -> state[o] = "REFUNDED" /\ Invoked(o) = {}
         [] answer[c] = "BUDGET_DENIED" -> state[o] = "DENIED" /\ Invoked(o) = {}
         [] answer[c] = "OPERATION_RECONCILED" -> resolutions[o] = 1
         [] answer[c] = "OPERATION_IN_DOUBT" /\ handler[c] # "none" ->
              state[o] = "IN_DOUBT" \/ resolutions[o] = 1
         [] OTHER -> TRUE

(* Nothing is held forever without a human being told: every reservation   *)
(* and execution ends, or is put in doubt, though calls crash and the      *)
(* ledger fails.                                                           *)
NothingHangs ==
  \A o \in Ops :
    state[o] \in {"RESERVED", "EXECUTING"} ~> state[o] \in FinalStates \cup {"IN_DOUBT"}

(* Every call is answered unless its process dies, and only two others can *)
(* keep it waiting: a gate that never decides, and, once its caller        *)
(* cancelled it, a handler that never ends (executeReservedTool).          *)
CallsReturn ==
  \A c \in Calls : op[c] # NoOp ~>
    \/ pc[c] \in {"answered", "crashed"}
    \/ [](pc[c] = "approving")
    \/ [](pc[c] = "draining" /\ handler[c] = "running")

-----------------------------------------------------------------------------
(* What the documents say and the code does otherwise.                     *)

(* SECURITY.md: in STASIS all autonomous execution halts.                  *)
NoDispatchInStasis ==
  [][\A o \in Ops : state[o] = "RESERVED" /\ state'[o] = "EXECUTING" => ~Halted(ScopeOf(o))]_execVars

=============================================================================
