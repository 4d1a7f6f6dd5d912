---------------------------- MODULE BudgetLedger ----------------------------
(***************************************************************************)
(* The durable M3 budget ledger (packages/governance/src/budgetLedger.ts   *)
(* and budgetLedgerStore.ts): the rows of governance_budget_operations,    *)
(* governance_budget_state and governance_tenant_budgets, with the audit   *)
(* rows that the same transactions append.                                 *)
(*                                                                         *)
(* Every public call of SqliteBudgetLedger is one BEGIN IMMEDIATE          *)
(* transaction over one SQLite file shared by the server, the CLI and the  *)
(* MCP process, so a call that commits is one action here.  A call that    *)
(* throws rolls back, and a call that only classifies an existing row      *)
(* writes nothing: both are stuttering steps.                              *)
(*                                                                         *)
(* A request stands for a request fingerprint: it fixes the tenant and the *)
(* reserved amount.  A deadline is reduced to the one fact the code asks   *)
(* of it, whether deadline_at <= now.                                      *)
(***************************************************************************)
EXTENDS Integers, FiniteSets, FiniteSetsExt, Functions

CONSTANTS
  Ops,         \* operation ids
  Requests,    \* request fingerprints
  NoRequest,   \* the fingerprint of an operation that has no row
  Tenants,     \* tenant ids
  Platform,    \* the scope of a request whose tenant_id is null
  TenantOf,    \* the scope each request is billed to
  Estimate,    \* the micro-USD each request reserves
  GlobalCap,   \* cap_microusd of the singleton row
  InitialSpend,\* spent_microusd the singleton row starts with
  Costs,       \* actual costs a settlement may report
  Caps,        \* caps an operator may give a tenant
  BatchSize    \* the row limit of one recovery pass

Scopes == Tenants \cup {Platform}

ASSUME LedgerAssumption ==
  /\ NoRequest \notin Requests
  /\ Platform \notin Tenants
  /\ TenantOf \in [Requests -> Scopes]
  /\ Estimate \in [Requests -> Nat]
  /\ GlobalCap \in Nat \ {0}
  /\ InitialSpend \in Nat
  /\ Costs \subseteq Nat
  /\ Caps \subseteq Nat \ {0}
  /\ BatchSize \in Nat \ {0}

VARIABLES
  state,       \* state column of each operation, "ABSENT" when it has no row
  request,     \* request_fingerprint of each operation
  settled,     \* settled_microusd of each operation
  due,         \* operations whose deadline_at has passed
  budget,      \* the global row (at Platform) and the tenants' rows
  intents,     \* operations whose audit intent is in the chain
  outcomes,    \* number of audit outcomes each operation has
  resolutions  \* number of human resolutions each operation has

opVars == <<state, request, settled, due>>
auditVars == <<intents, outcomes, resolutions>>
ledgerVars == <<opVars, budget, auditVars>>

ActiveStates == {"RESERVED", "EXECUTING", "IN_DOUBT"}
FinalStates == {"SETTLED", "REFUNDED", "DENIED"}
States == {"ABSENT"} \cup ActiveStates \cup FinalStates
NoTrip == "NONE"
TripCodes == {"BUDGET_BREACH", "COMPLIANCE_DRIFT", "LOGIC_BLOCKER"}

(* A tenant without a row reads as the row ensureTenantBudget would insert. *)
BudgetRow ==
  [cap : Nat \ {0}, spent : Nat, stasis : BOOLEAN, trip : TripCodes \cup {NoTrip}]

-----------------------------------------------------------------------------
(* What the transactions read.                                             *)

ScopeOf(o) == TenantOf[request[o]]
Active(o) == state[o] \in ActiveStates

(* Mutant of HeldOps: a doubt releases its reservation.                    *)
HeldUntilDoubt(s) ==
  {o \in Ops : state[o] \in {"RESERVED", "EXECUTING"} /\ s \in {Platform, ScopeOf(o)}}

(* Global holds count every active operation, those of tenants included.   *)
HeldOps(s) == {o \in Ops : Active(o) /\ s \in {Platform, ScopeOf(o)}}
Hold == [o \in Ops |-> IF Active(o) THEN Estimate[request[o]] ELSE 0]
Held(s) == SumFunctionOnSet(Hold, HeldOps(s))
Available(s) == Max({0, budget[s].cap - budget[s].spent - Held(s)})

(* Mutant of Siblings: an overdue operation no longer blocks its retry.    *)
TimelySiblings(r) == {o \in Ops \ due : Active(o) /\ request[o] = r}

Siblings(r) == {o \in Ops : Active(o) /\ request[o] = r}
Halted(s) == budget[Platform].stasis \/ budget[s].stasis
(* Mutants of Overdue: doubts are recovered too; only reservations are.    *)
OverdueActive == {o \in due : Active(o)}
OverdueReserved == {o \in due : state[o] = "RESERVED"}

Overdue == {o \in due : state[o] \in {"RESERVED", "EXECUTING"}}
AnyInDoubt == \E o \in Ops : state[o] = "IN_DOUBT"

-----------------------------------------------------------------------------
(* What they write.                                                        *)

(* Mutant of Tripped: the trip code is not written.                        *)
HaltedOnly(row, code) == [row EXCEPT !.stasis = TRUE]

Tripped(row, code) == [row EXCEPT !.stasis = TRUE, !.trip = code]
WriteTrip(s, code) == budget' = [budget EXCEPT ![s] = Tripped(@, code)]

AppendOutcome(o) == outcomes' = [outcomes EXCEPT ![o] = @ + 1]

(* Mutant of AfterSettlement: the cap itself may be spent.                 *)
AfterLaxSettlement(row, actual, reserved, billed) ==
  LET spent == row.spent + actual
      code == IF billed /\ spent > row.cap THEN "BUDGET_BREACH"
              ELSE IF actual > reserved THEN "COMPLIANCE_DRIFT"
              ELSE NoTrip
  IN [row EXCEPT !.spent = spent,
                 !.stasis = @ \/ code # NoTrip,
                 !.trip = IF code = NoTrip THEN @ ELSE code]

(* The row a settlement leaves: the spend always grows, a breach is looked *)
(* for only in the scope the operation is billed to and outranks drift.    *)
AfterSettlement(row, actual, reserved, billed) ==
  LET spent == row.spent + actual
      code == IF billed /\ spent >= row.cap THEN "BUDGET_BREACH"
              ELSE IF actual > reserved THEN "COMPLIANCE_DRIFT"
              ELSE NoTrip
  IN [row EXCEPT !.spent = spent,
                 !.stasis = @ \/ code # NoTrip,
                 !.trip = IF code = NoTrip THEN @ ELSE code]

(* Mutant of RecordSettlement: a tenant's spend is kept from the global row.*)
RecordOwnSettlement(o, actual) ==
  budget' = [budget EXCEPT ![ScopeOf(o)] = AfterSettlement(@, actual, Estimate[request[o]], TRUE)]

RecordSettlement(o, actual) ==
  budget' = [s \in Scopes |->
               IF s \in {Platform, ScopeOf(o)}
               THEN AfterSettlement(budget[s], actual, Estimate[request[o]], s = ScopeOf(o))
               ELSE budget[s]]

(* applyTerminal: the row, then the budgets when money was settled.        *)
ApplyTerminal(o, final, actual) ==
  /\ state' = [state EXCEPT ![o] = final]
  /\ settled' = [settled EXCEPT ![o] = actual]
  /\ IF final = "SETTLED" THEN RecordSettlement(o, actual) ELSE UNCHANGED budget
  /\ UNCHANGED <<request, due>>

InsertOperation(o, r, initial, late) ==
  /\ state' = [state EXCEPT ![o] = initial]
  /\ request' = [request EXCEPT ![o] = r]
  /\ due' = IF late THEN due \cup {o} ELSE due
  /\ intents' = intents \cup {o}
  /\ UNCHANGED <<settled, resolutions>>

-----------------------------------------------------------------------------
(* reserve.  The answer to a request that already has a row, or an active  *)
(* row with the same fingerprint, is read off that row.                    *)

Classify(o, r) ==
  IF request[o] # r THEN "conflict"
  ELSE IF state[o] = "IN_DOUBT" THEN "in_doubt"
  ELSE IF state[o] \in {"RESERVED", "EXECUTING"}
       THEN IF o \in due THEN "in_doubt" ELSE "in_progress"
  ELSE "replay"

(* Mutant of Fresh: only the operation id is looked up.                    *)
FreshId(o, r) == state[o] = "ABSENT"

Fresh(o, r) == state[o] = "ABSENT" /\ Siblings(r) = {}

ReserveGranted(o, r, late) ==
  /\ Fresh(o, r)
  /\ ~Halted(TenantOf[r])
  /\ Estimate[r] <= Available(TenantOf[r])
  /\ InsertOperation(o, r, "RESERVED", late)
  /\ UNCHANGED <<budget, outcomes>>

ReserveDenied(o, r) ==
  /\ Fresh(o, r)
  /\ \/ Halted(TenantOf[r]) /\ UNCHANGED budget
     \/ /\ ~Halted(TenantOf[r])
        /\ Estimate[r] > Available(TenantOf[r])
        /\ WriteTrip(TenantOf[r], "BUDGET_BREACH")
  /\ InsertOperation(o, r, "DENIED", FALSE)
  /\ AppendOutcome(o)

-----------------------------------------------------------------------------
(* The calls on an operation that has a row.                               *)

(* startExecution looks at the row only: STASIS is not read here.          *)
StartExecution(o, r) ==
  /\ state[o] = "RESERVED"
  /\ request[o] = r
  /\ o \notin due
  /\ state' = [state EXCEPT ![o] = "EXECUTING"]
  /\ UNCHANGED <<request, settled, due, budget, auditVars>>

(* Mutant of Settle: an operation is settled that was never dispatched.    *)
SettleActive(o, r, actual) ==
  /\ state[o] \in {"RESERVED", "EXECUTING"}
  /\ request[o] = r
  /\ ApplyTerminal(o, "SETTLED", actual)
  /\ AppendOutcome(o)
  /\ UNCHANGED <<intents, resolutions>>

Settle(o, r, actual) ==
  /\ state[o] = "EXECUTING"
  /\ request[o] = r
  /\ ApplyTerminal(o, "SETTLED", actual)
  /\ AppendOutcome(o)
  /\ UNCHANGED <<intents, resolutions>>

(* An operation that was dispatched is refunded only against evidence.     *)
Refund(o, r, evidence) ==
  /\ state[o] = "RESERVED" \/ (state[o] = "EXECUTING" /\ evidence)
  /\ request[o] = r
  /\ ApplyTerminal(o, "REFUNDED", 0)
  /\ AppendOutcome(o)
  /\ UNCHANGED <<intents, resolutions>>

MarkInDoubt(o, r) ==
  /\ state[o] = "EXECUTING"
  /\ request[o] = r
  /\ state' = [state EXCEPT ![o] = "IN_DOUBT"]
  /\ WriteTrip(ScopeOf(o), "COMPLIANCE_DRIFT")
  /\ AppendOutcome(o)
  /\ UNCHANGED <<request, settled, due, intents, resolutions>>

(* A human resolves a doubt; the resolution is audited under an intent of  *)
(* its own and leaves STASIS as it is.                                     *)
Reconcile(o, final, actual) ==
  /\ state[o] = "IN_DOUBT"
  /\ final = "REFUNDED" => actual = 0
  /\ ApplyTerminal(o, final, actual)
  /\ resolutions' = [resolutions EXCEPT ![o] = @ + 1]
  /\ UNCHANGED <<intents, outcomes>>

(* One pass, in one transaction, over the overdue rows, oldest first, up   *)
(* to the limit.  Creation order is not kept, so a full batch is any of    *)
(* that size.                                                              *)
RecoverBatch(batch) ==
  LET lost == {o \in batch : state[o] = "EXECUTING"}
  IN /\ state' = [o \in Ops |-> IF o \in lost THEN "IN_DOUBT"
                                ELSE IF o \in batch THEN "REFUNDED"
                                ELSE state[o]]
     /\ budget' = [s \in Scopes |-> IF \E o \in lost : ScopeOf(o) = s
                                    THEN Tripped(budget[s], "COMPLIANCE_DRIFT")
                                    ELSE budget[s]]
     /\ outcomes' = [o \in Ops |-> IF o \in batch THEN outcomes[o] + 1 ELSE outcomes[o]]
     /\ UNCHANGED <<request, settled, due, intents, resolutions>>

RecoverExpired ==
  \E batch \in SUBSET Overdue :
    /\ batch # {}
    /\ batch = Overdue \/ Cardinality(batch) = BatchSize
    /\ Cardinality(batch) <= BatchSize
    /\ RecoverBatch(batch)

-----------------------------------------------------------------------------
(* Operators of a tenant's budget, and time.                               *)

SetTenantCap(t, cap) ==
  /\ budget' = [budget EXCEPT ![t].cap = cap]
  /\ UNCHANGED <<opVars, auditVars>>

ResumeTenant(t) ==
  /\ budget' = [budget EXCEPT ![t].stasis = FALSE]
  /\ UNCHANGED <<opVars, auditVars>>

TripTenant(t, code) ==
  /\ WriteTrip(t, code)
  /\ UNCHANGED <<opVars, auditVars>>

(* The clock passes the deadline of an operation that has a row.           *)
PassDeadline(o) ==
  /\ state[o] \in {"RESERVED", "EXECUTING"}
  /\ o \notin due
  /\ due' = due \cup {o}
  /\ UNCHANGED <<state, request, settled, budget, auditVars>>

-----------------------------------------------------------------------------
LedgerInit ==
  /\ state = [o \in Ops |-> "ABSENT"]
  /\ request = [o \in Ops |-> NoRequest]
  /\ settled = [o \in Ops |-> 0]
  /\ due = {}
  /\ budget = [s \in Scopes |->
                 IF s = Platform /\ InitialSpend >= GlobalCap
                 THEN [cap |-> GlobalCap, spent |-> InitialSpend, stasis |-> TRUE, trip |-> "BUDGET_BREACH"]
                 ELSE [cap |-> GlobalCap, spent |-> IF s = Platform THEN InitialSpend ELSE 0,
                       stasis |-> FALSE, trip |-> NoTrip]]
  /\ intents = {}
  /\ outcomes = [o \in Ops |-> 0]
  /\ resolutions = [o \in Ops |-> 0]

LedgerNext ==
  \/ \E o \in Ops, r \in Requests, late \in BOOLEAN : ReserveGranted(o, r, late)
  \/ \E o \in Ops, r \in Requests : ReserveDenied(o, r) \/ StartExecution(o, r) \/ MarkInDoubt(o, r)
  \/ \E o \in Ops, r \in Requests, actual \in Costs : Settle(o, r, actual)
  \/ \E o \in Ops, r \in Requests, evidence \in BOOLEAN : Refund(o, r, evidence)
  \/ \E o \in Ops, actual \in Costs : Reconcile(o, "SETTLED", actual)
  \/ \E o \in Ops : Reconcile(o, "REFUNDED", 0) \/ PassDeadline(o)
  \/ \E t \in Tenants, cap \in Caps : SetTenantCap(t, cap)
  \/ \E t \in Tenants : ResumeTenant(t)
  \/ \E t \in Tenants, code \in {"BUDGET_BREACH", "COMPLIANCE_DRIFT"} : TripTenant(t, code)
  \/ RecoverExpired

LedgerSpec == LedgerInit /\ [][LedgerNext]_ledgerVars

-----------------------------------------------------------------------------
(* Properties.                                                             *)

(* Every variable has its type, and a scope in STASIS has a trip code (the *)
(* CHECK constraint of both budget tables).                                *)
LedgerTypeOK ==
  /\ state \in [Ops -> States]
  /\ request \in [Ops -> Requests \cup {NoRequest}]
  /\ \A o \in Ops : request[o] = NoRequest <=> state[o] = "ABSENT"
  /\ settled \in [Ops -> Nat]
  /\ due \subseteq Ops
  /\ budget \in [Scopes -> BudgetRow]
  /\ \A s \in Scopes : budget[s].stasis => budget[s].trip # NoTrip
  /\ intents \subseteq Ops
  /\ outcomes \in [Ops -> Nat]
  /\ resolutions \in [Ops -> Nat]

(* Two operations with the same fingerprint are never active together: a   *)
(* retry under a new id is answered from the first one's row.              *)
OneActivePerRequest ==
  \A o, p \in Ops : Active(o) /\ Active(p) /\ request[o] = request[p] => o = p

(* The audit trail and the rows agree whatever the order of calls, retries *)
(* and recovery passes: every row has its intent, exactly one outcome once *)
(* its fate is known or in doubt, none before, and at most one resolution, *)
(* only of an operation that ended.                                        *)
OneOutcomePerOperation ==
  \A o \in Ops :
    /\ o \in intents <=> state[o] # "ABSENT"
    /\ outcomes[o] = IF state[o] \in {"ABSENT", "RESERVED", "EXECUTING"} THEN 0 ELSE 1
    /\ resolutions[o] <= IF state[o] \in {"SETTLED", "REFUNDED"} THEN 1 ELSE 0

(* Money is charged by settled operations only.                            *)
OnlySettledCharge == \A o \in Ops : settled[o] # 0 => state[o] = "SETTLED"

OpsOf(s) == {o \in Ops : state[o] # "ABSENT" /\ s \in {Platform, ScopeOf(o)}}
SettledOf(s) == SumFunctionOnSet(settled, OpsOf(s))

(* Every budget row's spend is the sum of its settled operations: nothing  *)
(* is charged twice, dropped or charged to a stranger.                     *)
SpendMatchesSettlements ==
  \A s \in Scopes :
    budget[s].spent = SettledOf(s) + (IF s = Platform THEN InitialSpend ELSE 0)

(* What a scope's own operations have spent or may still spend, and by how *)
(* much settlements have gone over their reservations.                     *)
Own(s) == {o \in Ops : state[o] # "ABSENT" /\ ScopeOf(o) = s}
Owing == [o \in Ops |-> IF Active(o) THEN Estimate[request[o]] ELSE settled[o]]
Liability(s) == SumFunctionOnSet(Owing, Own(s))
Excess == [o \in Ops |-> Max({0, settled[o] - Estimate[request[o]]})]
Overrun(s) == SumFunctionOnSet(Excess, Own(s))

(* A scope's liability passes its cap only by what a settlement reported   *)
(* above its reservation, whatever was reserved concurrently and however   *)
(* the cap was moved.                                                      *)
LiabilityWithinCap ==
  [][\A s \in Scopes :
       Liability(s)' <= Max({Liability(s), budget'[s].cap}) + Overrun(s)' - Overrun(s)]_ledgerVars

(* One operation of the ledger seen by its caller: Escrow.                 *)
Phase(o) ==
  CASE state[o] = "ABSENT" -> "free"
    [] state[o] = "RESERVED" -> "held"
    [] state[o] \in {"EXECUTING", "IN_DOUBT"} -> "running"
    [] OTHER -> "closed"

Account == INSTANCE Escrow WITH
  Accounts <- Scopes,
  Nobody <- NoRequest,
  phase <- [o \in Ops |-> Phase(o)],
  owner <- [o \in Ops |-> IF state[o] = "ABSENT" THEN NoRequest ELSE ScopeOf(o)],
  charge <- settled,
  paid <- [s \in Scopes |-> budget[s].spent]

(* The ledger implements the abstract escrow: an operation is paid for at  *)
(* most once, after dispatch, into its owner's account and the platform's. *)
ImplementsEscrow == Account!Spec

-----------------------------------------------------------------------------
(* What the documents say and the code does otherwise.                     *)

(* RUNBOOK.md: the exhaustion of one tenant trips no global STASIS and     *)
(* other tenants operate normally.  So a global BUDGET_BREACH should come  *)
(* of what the platform's own operations spent or asked for.               *)
GlobalBreachIsPlatforms ==
  budget[Platform].trip = "BUDGET_BREACH" =>
    LET claims == [o \in Own(Platform) |-> Max({settled[o], Estimate[request[o]]})]
    IN  InitialSpend + SumFunction(claims) >= budget[Platform].cap

(* ADR 0043: an operation in doubt trips STASIS, and resume refuses while  *)
(* any is unresolved.  So the scope of an operation in doubt is halted.    *)
DoubtHaltsScope == \A o \in Ops : state[o] = "IN_DOUBT" => Halted(ScopeOf(o))

=============================================================================
