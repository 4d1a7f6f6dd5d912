---------------------------- MODULE BudgetProofs ----------------------------
(***************************************************************************)
(* Proofs about the money, for every set of operations, requests, tenants, *)
(* calls and costs, a section each: the ledger on its own, its rows and    *)
(* audit trail, the escrow it implements and the totals over its rows; the *)
(* ledger and the governor writing the same rows; and concurrent executor  *)
(* calls, clients of the ledger that invoke a handler at most once per     *)
(* operation and tell their callers the truth.                             *)
(***************************************************************************)
EXTENDS ToolExecutor, CountingLemmas

-----------------------------------------------------------------------------
(* The inductive invariant of the ledger.                                  *)
LedgerInv ==
  /\ LedgerTypeOK
  /\ OneActivePerRequest
  /\ OneOutcomePerOperation
  /\ OnlySettledCharge

-----------------------------------------------------------------------------
(* What the budget-row helpers preserve.                                   *)

(* A tripped row is a row, and it has a trip code.                         *)
LEMMA TrippedRow ==
  ASSUME NEW row \in BudgetRow, NEW code \in TripCodes
  PROVE  /\ Tripped(row, code) \in BudgetRow
         /\ Tripped(row, code).trip # NoTrip
         /\ Tripped(row, code).spent = row.spent
         /\ Tripped(row, code).stasis
  BY DEF Tripped, BudgetRow, TripCodes, NoTrip

(* recordSettlement leaves a row that halts only with a code, never clears *)
(* STASIS, grows the spend by exactly the settled amount and, in the scope *)
(* the operation is billed to, halts at the cap.                           *)
LEMMA SettlementRow ==
  ASSUME NEW row \in BudgetRow, row.stasis => row.trip # NoTrip,
         NEW actual \in Nat, NEW reserved \in Nat, NEW billed
  PROVE  /\ AfterSettlement(row, actual, reserved, billed) \in BudgetRow
         /\ AfterSettlement(row, actual, reserved, billed).stasis =>
              AfterSettlement(row, actual, reserved, billed).trip # NoTrip
         /\ row.stasis => AfterSettlement(row, actual, reserved, billed).stasis
         /\ AfterSettlement(row, actual, reserved, billed).spent = row.spent + actual
         /\ billed /\ row.spent + actual >= row.cap =>
              AfterSettlement(row, actual, reserved, billed).stasis
         /\ AfterSettlement(row, actual, reserved, billed).cap = row.cap
<1> DEFINE code == IF billed /\ row.spent + actual >= row.cap THEN "BUDGET_BREACH"
                   ELSE IF actual > reserved THEN "COMPLIANCE_DRIFT"
                   ELSE NoTrip
           stasis == row.stasis \/ code # NoTrip
           trip == IF code = NoTrip THEN row.trip ELSE code
<1>1. AfterSettlement(row, actual, reserved, billed) =
        [row EXCEPT !.spent = row.spent + actual, !.stasis = stasis, !.trip = trip]
  BY DEF AfterSettlement
<1>2. /\ row.cap \in Nat \ {0} /\ row.spent + actual \in Nat /\ row.stasis \in BOOLEAN
      /\ row = [cap |-> row.cap, spent |-> row.spent, stasis |-> row.stasis, trip |-> row.trip]
  BY DEF BudgetRow
<1>3. /\ stasis \in BOOLEAN /\ trip \in TripCodes \cup {NoTrip}
      /\ stasis => trip # NoTrip
      /\ row.stasis => stasis
      /\ billed /\ row.spent + actual >= row.cap => stasis
  BY <1>2 DEF BudgetRow, TripCodes, NoTrip
<1> HIDE DEF code, stasis, trip
<1>4. AfterSettlement(row, actual, reserved, billed) =
        [cap |-> row.cap, spent |-> row.spent + actual, stasis |-> stasis, trip |-> trip]
  BY <1>1, <1>2
<1> QED
  BY <1>2, <1>3, <1>4 DEF BudgetRow

(* The scope of an operation that has a row is a scope.                    *)
LEMMA ScopeType ==
  ASSUME LedgerTypeOK, NEW o \in Ops, state[o] # "ABSENT"
  PROVE  request[o] \in Requests /\ ScopeOf(o) \in Scopes /\ Estimate[request[o]] \in Nat
  BY LedgerAssumption DEF LedgerTypeOK, ScopeOf

(* Writing a trip keeps every row well typed and clears no STASIS.         *)
LEMMA WriteTripType ==
  ASSUME LedgerTypeOK, NEW s \in Scopes, NEW code \in TripCodes, WriteTrip(s, code)
  PROVE  /\ budget' \in [Scopes -> BudgetRow]
         /\ \A x \in Scopes : budget'[x].stasis => budget'[x].trip # NoTrip
         /\ \A x \in Scopes : budget[x].stasis => budget'[x].stasis
         /\ budget'[s].stasis
         /\ \A x \in Scopes : budget'[x].spent = budget[x].spent
<1>1. budget' = [budget EXCEPT ![s] = Tripped(budget[s], code)]
  BY DEF WriteTrip
<1>2. budget[s] \in BudgetRow
  BY DEF LedgerTypeOK
<1> QED
  BY <1>1, <1>2, TrippedRow DEF LedgerTypeOK

(* So does recording a settlement.                                         *)
LEMMA RecordSettlementType ==
  ASSUME LedgerTypeOK, NEW o \in Ops, state[o] # "ABSENT", NEW actual \in Nat,
         RecordSettlement(o, actual)
  PROVE  /\ budget' \in [Scopes -> BudgetRow]
         /\ \A x \in Scopes : budget'[x].stasis => budget'[x].trip # NoTrip
         /\ \A x \in Scopes : budget[x].stasis => budget'[x].stasis
         /\ \A x \in Scopes :
              budget'[x].spent =
                IF x \in {Platform, ScopeOf(o)} THEN budget[x].spent + actual ELSE budget[x].spent
         /\ \A x \in Scopes :
              x = ScopeOf(o) /\ budget'[x].spent >= budget'[x].cap => budget'[x].stasis
<1>1. Estimate[request[o]] \in Nat
  BY ScopeType
<1>2. ASSUME NEW x \in Scopes
      PROVE  /\ budget'[x] \in BudgetRow
             /\ budget'[x].stasis => budget'[x].trip # NoTrip
             /\ budget[x].stasis => budget'[x].stasis
             /\ budget'[x].spent =
                  IF x \in {Platform, ScopeOf(o)} THEN budget[x].spent + actual ELSE budget[x].spent
             /\ x = ScopeOf(o) /\ budget'[x].spent >= budget'[x].cap => budget'[x].stasis
  <2>1. budget[x] \in BudgetRow /\ (budget[x].stasis => budget[x].trip # NoTrip)
    BY DEF LedgerTypeOK
  <2>2. budget'[x] = IF x \in {Platform, ScopeOf(o)}
                     THEN AfterSettlement(budget[x], actual, Estimate[request[o]], x = ScopeOf(o))
                     ELSE budget[x]
    BY DEF RecordSettlement
  <2>3. CASE x \in {Platform, ScopeOf(o)}
    <3>1. budget'[x] = AfterSettlement(budget[x], actual, Estimate[request[o]], x = ScopeOf(o))
      BY <2>2, <2>3
    <3>2. /\ budget'[x] \in BudgetRow
          /\ budget'[x].stasis => budget'[x].trip # NoTrip
          /\ budget[x].stasis => budget'[x].stasis
          /\ budget'[x].spent = budget[x].spent + actual
          /\ x = ScopeOf(o) /\ budget'[x].spent >= budget'[x].cap => budget'[x].stasis
      <4> DEFINE billed == x = ScopeOf(o)
      <4>1. budget'[x] = AfterSettlement(budget[x], actual, Estimate[request[o]], billed)
        BY <3>1
      <4>2. x = ScopeOf(o) => billed
        OBVIOUS
      <4> HIDE DEF billed
      <4> QED BY <1>1, <2>1, <4>1, <4>2, SettlementRow
    <3> QED BY <2>3, <3>2
  <2>4. CASE x \notin {Platform, ScopeOf(o)}
    BY <2>1, <2>2, <2>4
  <2> QED BY <2>3, <2>4
<1>3. DOMAIN budget' = Scopes /\ budget' = [x \in Scopes |-> budget'[x]]
  BY DEF RecordSettlement
<1> QED BY <1>2, <1>3

-----------------------------------------------------------------------------
(* Preservation of the invariant, one lemma per kind of write.             *)

(* Inserting a row: the only step that makes an operation active, and it   *)
(* is taken only when no active operation has the same fingerprint.        *)
LEMMA ReserveStep ==
  ASSUME LedgerInv, NEW o \in Ops, NEW r \in Requests, NEW late \in BOOLEAN,
         ReserveGranted(o, r, late) \/ ReserveDenied(o, r)
  PROVE  LedgerInv'
<1> USE DEF LedgerInv
<1>1. TenantOf[r] \in Scopes
  BY LedgerAssumption
<1>2. /\ Fresh(o, r)
      /\ \/ /\ state' = [state EXCEPT ![o] = "RESERVED"]
            /\ outcomes' = outcomes
         \/ /\ state' = [state EXCEPT ![o] = "DENIED"]
            /\ outcomes' = [outcomes EXCEPT ![o] = @ + 1]
      /\ request' = [request EXCEPT ![o] = r]
      /\ due' \subseteq due \cup {o}
      /\ intents' = intents \cup {o}
      /\ settled' = settled /\ resolutions' = resolutions
  BY DEF ReserveGranted, ReserveDenied, InsertOperation, AppendOutcome
<1>3. /\ budget' \in [Scopes -> BudgetRow]
      /\ \A s \in Scopes : budget'[s].stasis => budget'[s].trip # NoTrip
  <2>1. CASE UNCHANGED budget
    BY <2>1 DEF LedgerTypeOK
  <2>2. CASE WriteTrip(TenantOf[r], "BUDGET_BREACH")
    BY <1>1, <2>2, WriteTripType DEF TripCodes
  <2> QED BY <2>1, <2>2 DEF ReserveGranted, ReserveDenied
<1>4. LedgerTypeOK'
  BY <1>2, <1>3, LedgerAssumption DEF LedgerTypeOK, Fresh, States, ActiveStates, FinalStates
<1>5. OneActivePerRequest'
  BY <1>2 DEF LedgerTypeOK, OneActivePerRequest, Active, ActiveStates, Fresh, Siblings
<1>6. OneOutcomePerOperation'
  BY <1>2 DEF LedgerTypeOK, OneOutcomePerOperation, Fresh
<1>7. OnlySettledCharge'
  BY <1>2 DEF LedgerTypeOK, OnlySettledCharge, Fresh
<1> QED BY <1>4, <1>5, <1>6, <1>7

(* Dispatch.                                                               *)
LEMMA StartStep ==
  ASSUME LedgerInv, NEW o \in Ops, NEW r \in Requests, StartExecution(o, r)
  PROVE  LedgerInv'
<1> USE DEF LedgerInv, StartExecution, opVars, auditVars
<1>1. LedgerTypeOK'
  BY DEF LedgerTypeOK, States, ActiveStates, FinalStates
<1>2. OneActivePerRequest'
  BY DEF LedgerTypeOK, OneActivePerRequest, Active, ActiveStates
<1>3. OneOutcomePerOperation'
  BY DEF LedgerTypeOK, OneOutcomePerOperation
<1>4. OnlySettledCharge'
  BY DEF LedgerTypeOK, OnlySettledCharge
<1> QED BY <1>1, <1>2, <1>3, <1>4

(* Ending an operation: by its caller (one more outcome) or by a human     *)
(* after a doubt (one more resolution).                                    *)
LEMMA TerminalStep ==
  ASSUME LedgerInv, NEW o \in Ops, NEW final \in {"SETTLED", "REFUNDED"}, NEW actual \in Nat,
         final = "REFUNDED" => actual = 0,
         ApplyTerminal(o, final, actual),
         intents' = intents,
         \/ /\ state[o] \in {"RESERVED", "EXECUTING"}
            /\ AppendOutcome(o)
            /\ resolutions' = resolutions
         \/ /\ state[o] = "IN_DOUBT"
            /\ outcomes' = outcomes
            /\ resolutions' = [resolutions EXCEPT ![o] = @ + 1]
  PROVE  LedgerInv'
<1> USE DEF LedgerInv
<1>1. /\ state' = [state EXCEPT ![o] = final]
      /\ settled' = [settled EXCEPT ![o] = actual]
      /\ request' = request /\ due' = due
      /\ RecordSettlement(o, actual) \/ budget' = budget
  BY DEF ApplyTerminal
<1>2. /\ budget' \in [Scopes -> BudgetRow]
      /\ \A s \in Scopes : budget'[s].stasis => budget'[s].trip # NoTrip
  BY <1>1, RecordSettlementType DEF LedgerTypeOK
<1>3. LedgerTypeOK'
  BY <1>1, <1>2 DEF LedgerTypeOK, States, ActiveStates, FinalStates, AppendOutcome
<1>4. OneActivePerRequest'
  BY <1>1 DEF LedgerTypeOK, OneActivePerRequest, Active, ActiveStates
<1>5. OneOutcomePerOperation'
  BY <1>1 DEF LedgerTypeOK, OneOutcomePerOperation, AppendOutcome
<1>6. OnlySettledCharge'
  BY <1>1 DEF LedgerTypeOK, OnlySettledCharge
<1> QED BY <1>3, <1>4, <1>5, <1>6

(* A dispatched operation whose outcome is unknown.                        *)
LEMMA DoubtStep ==
  ASSUME LedgerInv, NEW o \in Ops, NEW r \in Requests, MarkInDoubt(o, r)
  PROVE  LedgerInv'
<1> USE DEF LedgerInv, MarkInDoubt, AppendOutcome
<1>1. ScopeOf(o) \in Scopes
  BY ScopeType
<1>2. /\ budget' \in [Scopes -> BudgetRow]
      /\ \A s \in Scopes : budget'[s].stasis => budget'[s].trip # NoTrip
  BY <1>1, WriteTripType DEF TripCodes
<1>3. LedgerTypeOK'
  BY <1>2 DEF LedgerTypeOK, States, ActiveStates, FinalStates
<1>4. OneActivePerRequest'
  BY DEF LedgerTypeOK, OneActivePerRequest, Active, ActiveStates
<1>5. OneOutcomePerOperation'
  BY DEF LedgerTypeOK, OneOutcomePerOperation
<1>6. OnlySettledCharge'
  BY DEF LedgerTypeOK, OnlySettledCharge
<1> QED BY <1>3, <1>4, <1>5, <1>6

(* A recovery pass over any set of overdue operations.                     *)
LEMMA RecoverStep ==
  ASSUME LedgerInv, RecoverExpired
  PROVE  LedgerInv'
<1> USE DEF LedgerInv
<1>1. PICK batch \in SUBSET Overdue : RecoverBatch(batch)
  BY DEF RecoverExpired
<1> DEFINE lost == {o \in batch : state[o] = "EXECUTING"}
<1>2. /\ batch \subseteq Ops
      /\ \A o \in batch : state[o] \in {"RESERVED", "EXECUTING"}
  BY DEF Overdue, LedgerTypeOK
<1>3. /\ state' = [o \in Ops |-> IF o \in lost THEN "IN_DOUBT"
                                 ELSE IF o \in batch THEN "REFUNDED" ELSE state[o]]
      /\ outcomes' = [o \in Ops |-> IF o \in batch THEN outcomes[o] + 1 ELSE outcomes[o]]
      /\ UNCHANGED <<request, settled, due, intents, resolutions>>
  BY <1>1 DEF RecoverBatch
<1>4. /\ budget' \in [Scopes -> BudgetRow]
      /\ \A s \in Scopes : budget'[s].stasis => budget'[s].trip # NoTrip
  <2>1. budget' = [s \in Scopes |-> IF \E o \in lost : ScopeOf(o) = s
                                    THEN Tripped(budget[s], "COMPLIANCE_DRIFT")
                                    ELSE budget[s]]
    BY <1>1 DEF RecoverBatch
  <2> HIDE DEF lost
  <2>2. \A s \in Scopes : /\ Tripped(budget[s], "COMPLIANCE_DRIFT") \in BudgetRow
                          /\ Tripped(budget[s], "COMPLIANCE_DRIFT").trip # NoTrip
    BY TrippedRow DEF LedgerTypeOK, TripCodes
  <2> QED BY <2>1, <2>2 DEF LedgerTypeOK
<1>5. LedgerTypeOK'
  BY <1>2, <1>3, <1>4 DEF LedgerTypeOK, States, ActiveStates, FinalStates
<1>6. OneActivePerRequest'
  BY <1>2, <1>3 DEF LedgerTypeOK, OneActivePerRequest, Active, ActiveStates
<1>7. OneOutcomePerOperation'
  BY <1>2, <1>3 DEF LedgerTypeOK, OneOutcomePerOperation
<1>8. OnlySettledCharge'
  BY <1>2, <1>3 DEF LedgerTypeOK, OnlySettledCharge
<1> QED BY <1>5, <1>6, <1>7, <1>8

(* A write of one budget row by an operator leaves the invariant.          *)
LEMMA OperatorStep ==
  ASSUME LedgerInv, UNCHANGED <<opVars, auditVars>>,
         budget' \in [Scopes -> BudgetRow],
         \A s \in Scopes : budget'[s].stasis => budget'[s].trip # NoTrip
  PROVE  LedgerInv'
  BY DEF LedgerInv, opVars, auditVars, LedgerTypeOK, OneActivePerRequest, Active,
         OneOutcomePerOperation, OnlySettledCharge

-----------------------------------------------------------------------------
(* The invariance theorem.                                                 *)

(* Empty tables satisfy the invariant.                                     *)
LEMMA LedgerInitInv == LedgerInit => LedgerInv
<1> SUFFICES ASSUME LedgerInit PROVE LedgerInv
  OBVIOUS
<1>1. budget \in [Scopes -> BudgetRow] /\ \A s \in Scopes : budget[s].stasis => budget[s].trip # NoTrip
  BY LedgerAssumption DEF LedgerInit, BudgetRow, TripCodes, NoTrip
<1>2. LedgerTypeOK
  BY <1>1, LedgerAssumption DEF LedgerInit, LedgerTypeOK, States
<1> QED
  BY <1>2 DEF LedgerInit, LedgerInv, OneActivePerRequest, Active, ActiveStates,
              OneOutcomePerOperation, OnlySettledCharge

(* Every call that commits preserves it.                                   *)
LEMMA LedgerStepInv == LedgerInv /\ [LedgerNext]_ledgerVars => LedgerInv'
<1> SUFFICES ASSUME LedgerInv, [LedgerNext]_ledgerVars PROVE LedgerInv'
  OBVIOUS
<1>1. ASSUME NEW o \in Ops, NEW r \in Requests, NEW late \in BOOLEAN, ReserveGranted(o, r, late)
      PROVE  LedgerInv'
  BY <1>1, ReserveStep
<1>2. ASSUME NEW o \in Ops, NEW r \in Requests, ReserveDenied(o, r)
      PROVE  LedgerInv'
  BY <1>2, ReserveStep
<1>3. ASSUME NEW o \in Ops, NEW r \in Requests, StartExecution(o, r)
      PROVE  LedgerInv'
  BY <1>3, StartStep
<1>4. ASSUME NEW o \in Ops, NEW r \in Requests, MarkInDoubt(o, r)
      PROVE  LedgerInv'
  BY <1>4, DoubtStep
<1>5. ASSUME NEW o \in Ops, NEW r \in Requests, NEW actual \in Costs, Settle(o, r, actual)
      PROVE  LedgerInv'
  BY <1>5, TerminalStep, LedgerAssumption DEF Settle
<1>6. ASSUME NEW o \in Ops, NEW r \in Requests, NEW evidence \in BOOLEAN, Refund(o, r, evidence)
      PROVE  LedgerInv'
  BY <1>6, TerminalStep DEF Refund
<1>7. ASSUME NEW o \in Ops, NEW actual \in Costs, Reconcile(o, "SETTLED", actual)
      PROVE  LedgerInv'
  BY <1>7, TerminalStep, LedgerAssumption DEF Reconcile
<1>8. ASSUME NEW o \in Ops, Reconcile(o, "REFUNDED", 0)
      PROVE  LedgerInv'
  BY <1>8, TerminalStep DEF Reconcile
<1>9. ASSUME NEW o \in Ops, PassDeadline(o)
      PROVE  LedgerInv'
  BY <1>9 DEF PassDeadline, auditVars, LedgerInv, LedgerTypeOK, OneActivePerRequest, Active,
              OneOutcomePerOperation, OnlySettledCharge
<1>10. ASSUME NEW t \in Tenants, NEW cap \in Caps, SetTenantCap(t, cap)
       PROVE  LedgerInv'
  <2>1. /\ budget' = [budget EXCEPT ![t].cap = cap]
        /\ t \in Scopes /\ cap \in Nat \ {0} /\ UNCHANGED <<opVars, auditVars>>
    BY <1>10, LedgerAssumption DEF SetTenantCap, Scopes
  <2>2. /\ budget' \in [Scopes -> BudgetRow]
        /\ \A s \in Scopes : budget'[s].stasis => budget'[s].trip # NoTrip
    BY <2>1 DEF LedgerInv, LedgerTypeOK, BudgetRow
  <2> QED BY <2>1, <2>2, OperatorStep
<1>11. ASSUME NEW t \in Tenants, ResumeTenant(t)
       PROVE  LedgerInv'
  <2>1. /\ budget' = [budget EXCEPT ![t].stasis = FALSE]
        /\ t \in Scopes /\ UNCHANGED <<opVars, auditVars>>
    BY <1>11 DEF ResumeTenant, Scopes
  <2>2. /\ budget' \in [Scopes -> BudgetRow]
        /\ \A s \in Scopes : budget'[s].stasis => budget'[s].trip # NoTrip
    BY <2>1 DEF LedgerInv, LedgerTypeOK, BudgetRow
  <2> QED BY <2>1, <2>2, OperatorStep
<1>12. ASSUME NEW t \in Tenants, NEW code \in {"BUDGET_BREACH", "COMPLIANCE_DRIFT"}, TripTenant(t, code)
       PROVE  LedgerInv'
  <2>1. t \in Scopes /\ code \in TripCodes
    BY DEF Scopes, TripCodes
  <2> QED BY <1>12, <2>1, WriteTripType, OperatorStep DEF TripTenant, LedgerInv
<1>13. CASE RecoverExpired
  BY <1>13, RecoverStep
<1>14. CASE UNCHANGED ledgerVars
  BY <1>14, OperatorStep DEF ledgerVars, LedgerInv, LedgerTypeOK
<1> QED
  BY <1>1, <1>2, <1>3, <1>4, <1>5, <1>6, <1>7, <1>8, <1>9, <1>10, <1>11, <1>12, <1>13, <1>14
  DEF LedgerNext

(* So it holds of every behaviour of the ledger.                           *)
THEOREM LedgerInvariant == LedgerSpec => []LedgerInv
  BY LedgerInitInv, LedgerStepInv, PTL DEF LedgerSpec

(* Type correctness of the ledger.                                         *)
THEOREM LedgerTypeCorrect == LedgerSpec => []LedgerTypeOK
  BY LedgerInvariant, PTL DEF LedgerInv

(* Idempotency of reservation: one active operation per fingerprint.       *)
THEOREM LedgerOneActive == LedgerSpec => []OneActivePerRequest
  BY LedgerInvariant, PTL DEF LedgerInv

(* Audit completeness: one outcome per operation whose fate is known.      *)
THEOREM LedgerAuditComplete == LedgerSpec => []OneOutcomePerOperation
  BY LedgerInvariant, PTL DEF LedgerInv

-----------------------------------------------------------------------------
(* Refinement: the ledger implements Escrow.                               *)

(* Empty tables are an escrow with every operation free.                   *)
LEMMA EscrowInit == LedgerInit => Account!Init
  BY LedgerAssumption DEF LedgerInit, Account!Init, Phase, Scopes

(* How a row's state reads from outside.                                   *)
LEMMA PhaseOf ==
  ASSUME LedgerTypeOK, NEW o \in Ops
  PROVE  /\ state[o] = "ABSENT" <=> Phase(o) = "free"
         /\ state[o] = "RESERVED" <=> Phase(o) = "held"
         /\ state[o] \in {"EXECUTING", "IN_DOUBT"} <=> Phase(o) = "running"
         /\ state[o] \in {"SETTLED", "REFUNDED", "DENIED"} <=> Phase(o) = "closed"
  BY DEF LedgerTypeOK, Phase, States, ActiveStates, FinalStates

(* Steps of the ledger that a caller cannot see.                           *)
LEMMA HiddenStep ==
  ASSUME LedgerInv, LedgerInv',
         \A o \in Ops : Phase(o)' = Phase(o), request' = request, settled' = settled,
         \A s \in Scopes : budget'[s].spent = budget[s].spent
  PROVE  UNCHANGED Account!vars
<1>1. \A o \in Ops : state[o] = "ABSENT" <=> state'[o] = "ABSENT"
  BY DEF LedgerInv, LedgerTypeOK
<1> QED
  BY <1>1 DEF Account!vars, ScopeOf

(* Letting a set of operations go without charging anybody.                *)
LEMMA ReleaseStep ==
  ASSUME LedgerInv, LedgerInv', NEW S \in SUBSET Ops,
         \A o \in S : Phase(o) \in {"held", "running"} /\ Phase(o)' = "closed",
         \A o \in Ops \ S : Phase(o)' = Phase(o),
         request' = request, settled' = settled,
         \A s \in Scopes : budget'[s].spent = budget[s].spent
  PROVE  Account!Release(S)
<1>1. \A o \in Ops : state[o] = "ABSENT" <=> state'[o] = "ABSENT"
  BY DEF LedgerInv, LedgerTypeOK
<1>2. \A o \in S : o \in Ops
  OBVIOUS
<1> QED
  BY <1>1, <1>2 DEF Account!Release, ScopeOf

(* A settlement is the abstract payment into the two accounts.             *)
LEMMA PayStep ==
  ASSUME LedgerInv, LedgerInv', NEW o \in Ops, NEW actual \in Costs,
         state[o] \in {"EXECUTING", "IN_DOUBT"}, ApplyTerminal(o, "SETTLED", actual)
  PROVE  Account!Pay(o, actual)
<1>1. /\ state' = [state EXCEPT ![o] = "SETTLED"]
      /\ settled' = [settled EXCEPT ![o] = actual]
      /\ request' = request
      /\ RecordSettlement(o, actual)
  BY DEF ApplyTerminal
<1>2. Phase(o) = "running" /\ state[o] # "ABSENT"
  BY PhaseOf DEF LedgerInv
<1>3. Phase(o)' = "closed" /\ \A p \in Ops \ {o} : Phase(p)' = Phase(p)
  BY <1>1 DEF LedgerInv, LedgerTypeOK, Phase
<1>4. \A p \in Ops : state[p] = "ABSENT" <=> state'[p] = "ABSENT"
  BY <1>1 DEF LedgerInv, LedgerTypeOK
<1>5. \A s \in Scopes :
        budget'[s].spent = IF s \in {Platform, ScopeOf(o)} THEN budget[s].spent + actual ELSE budget[s].spent
  BY <1>1, <1>2, RecordSettlementType, LedgerAssumption DEF LedgerInv
<1>6. [p \in Ops |-> Phase(p)'] = [[p \in Ops |-> Phase(p)] EXCEPT ![o] = "closed"]
  BY <1>3
<1>7. UNCHANGED [p \in Ops |-> IF state[p] = "ABSENT" THEN NoRequest ELSE ScopeOf(p)]
  BY <1>1, <1>4 DEF ScopeOf
<1>8. [s \in Scopes |-> budget[s].spent]' =
        [s \in Scopes |-> IF s \in {Platform, [p \in Ops |-> IF state[p] = "ABSENT" THEN NoRequest ELSE ScopeOf(p)][o]}
                          THEN [x \in Scopes |-> budget[x].spent][s] + actual
                          ELSE [x \in Scopes |-> budget[x].spent][s]]
  BY <1>2, <1>5
<1> QED
  BY <1>1, <1>2, <1>6, <1>7, <1>8 DEF Account!Pay

(* Every call is a step of the escrow or is not seen by it.                *)
LEMMA EscrowStep ==
  LedgerInv /\ LedgerInv' /\ [LedgerNext]_ledgerVars => [Account!Next]_(Account!vars)
<1> SUFFICES ASSUME LedgerInv, LedgerInv', [LedgerNext]_ledgerVars
             PROVE  Account!Next \/ UNCHANGED Account!vars
  OBVIOUS
<1> USE DEF LedgerInv
<1>1. ASSUME NEW o \in Ops, NEW r \in Requests, NEW late \in BOOLEAN,
             ReserveGranted(o, r, late) \/ ReserveDenied(o, r)
      PROVE  Account!Next
  <2>1. TenantOf[r] \in Scopes
    BY LedgerAssumption
  <2>2. /\ state[o] = "ABSENT"
        /\ state' = [state EXCEPT ![o] = "RESERVED"] \/ state' = [state EXCEPT ![o] = "DENIED"]
        /\ request' = [request EXCEPT ![o] = r] /\ settled' = settled
    BY <1>1 DEF ReserveGranted, ReserveDenied, InsertOperation, Fresh
  <2>3. \A s \in Scopes : budget'[s].spent = budget[s].spent
    BY <1>1, <2>1, WriteTripType DEF ReserveGranted, ReserveDenied, TripCodes
  <2>4. Phase(o) = "free" /\ \A p \in Ops \ {o} : Phase(p)' = Phase(p)
    BY <2>2 DEF LedgerTypeOK, Phase
  <2>5. Phase(o)' \in {"held", "closed"}
    BY <2>2 DEF LedgerTypeOK, Phase
  <2>6. [p \in Ops |-> Phase(p)'] = [[p \in Ops |-> Phase(p)] EXCEPT ![o] = Phase(o)']
    BY <2>4
  <2>7. [p \in Ops |-> IF state[p] = "ABSENT" THEN NoRequest ELSE ScopeOf(p)]' =
          [[p \in Ops |-> IF state[p] = "ABSENT" THEN NoRequest ELSE ScopeOf(p)] EXCEPT ![o] = TenantOf[r]]
    BY <2>2 DEF LedgerTypeOK, ScopeOf
  <2>8. Account!Open(o, TenantOf[r])
    BY <2>2, <2>3, <2>4, <2>5, <2>6, <2>7 DEF Account!Open
  <2> QED BY <2>1, <2>8 DEF Account!Next
<1>2. ASSUME NEW o \in Ops, NEW r \in Requests, StartExecution(o, r)
      PROVE  Account!Next
  <2>1. /\ state[o] = "RESERVED" /\ state' = [state EXCEPT ![o] = "EXECUTING"]
        /\ UNCHANGED <<request, settled, budget>>
    BY <1>2 DEF StartExecution
  <2>2. /\ Phase(o) = "held" /\ Phase(o)' = "running"
        /\ \A p \in Ops \ {o} : Phase(p)' = Phase(p)
        /\ \A p \in Ops : state[p] = "ABSENT" <=> state'[p] = "ABSENT"
    BY <2>1 DEF LedgerTypeOK, Phase
  <2>3. Account!Run(o)
    BY <2>1, <2>2 DEF Account!Run, ScopeOf
  <2> QED BY <2>3 DEF Account!Next
<1>3. ASSUME NEW o \in Ops, NEW r \in Requests, MarkInDoubt(o, r)
      PROVE  UNCHANGED Account!vars
  <2>1. ScopeOf(o) \in Scopes
    BY <1>3, ScopeType DEF MarkInDoubt
  <2>2. \A s \in Scopes : budget'[s].spent = budget[s].spent
    BY <1>3, <2>1, WriteTripType DEF MarkInDoubt, TripCodes
  <2>3. \A p \in Ops : Phase(p)' = Phase(p)
    BY <1>3 DEF MarkInDoubt, LedgerTypeOK, Phase
  <2> QED BY <1>3, <2>2, <2>3, HiddenStep DEF MarkInDoubt
<1>4. ASSUME NEW o \in Ops, NEW actual \in Costs,
             Reconcile(o, "SETTLED", actual) \/ \E r \in Requests : Settle(o, r, actual)
      PROVE  Account!Next
  BY <1>4, PayStep DEF Reconcile, Settle, Account!Next
<1>5. ASSUME NEW o \in Ops,
             \/ Reconcile(o, "REFUNDED", 0)
             \/ \E r \in Requests, evidence \in BOOLEAN : Refund(o, r, evidence)
      PROVE  Account!Next
  <2>1. /\ state[o] \in ActiveStates /\ state' = [state EXCEPT ![o] = "REFUNDED"]
        /\ settled' = [settled EXCEPT ![o] = 0] /\ UNCHANGED <<request, budget>>
    BY <1>5 DEF Reconcile, Refund, ApplyTerminal, ActiveStates
  <2>2. settled' = settled
    BY <2>1 DEF OnlySettledCharge, LedgerTypeOK, ActiveStates
  <2>3. /\ Phase(o) \in {"held", "running"} /\ Phase(o)' = "closed"
        /\ \A p \in Ops \ {o} : Phase(p)' = Phase(p)
    BY <2>1 DEF LedgerTypeOK, Phase, ActiveStates
  <2>4. Account!Release({o})
    BY <2>1, <2>2, <2>3, ReleaseStep
  <2> QED BY <2>4 DEF Account!Next
<1>6. CASE RecoverExpired
  <2>1. PICK batch \in SUBSET Overdue : RecoverBatch(batch)
    BY <1>6 DEF RecoverExpired
  <2> DEFINE lost == {o \in batch : state[o] = "EXECUTING"}
             let == batch \ lost
  <2>2. /\ batch \subseteq Ops /\ let \subseteq Ops
        /\ \A o \in batch : state[o] \in {"RESERVED", "EXECUTING"}
    BY DEF Overdue, LedgerTypeOK
  <2>3. state' = [o \in Ops |-> IF o \in lost THEN "IN_DOUBT"
                                ELSE IF o \in batch THEN "REFUNDED" ELSE state[o]]
    BY <2>1 DEF RecoverBatch
  <2>4. \A o \in let : Phase(o) \in {"held", "running"} /\ Phase(o)' = "closed"
    BY <2>2, <2>3 DEF Phase
  <2>5. \A o \in Ops \ let : Phase(o)' = Phase(o)
    BY <2>2, <2>3 DEF Phase
  <2>6. \A s \in Scopes : budget'[s].spent = budget[s].spent
    <3>1. \A s \in Scopes : Tripped(budget[s], "COMPLIANCE_DRIFT").spent = budget[s].spent
      BY TrippedRow DEF LedgerTypeOK, TripCodes
    <3>2. budget' = [s \in Scopes |-> IF \E o \in lost : ScopeOf(o) = s
                                      THEN Tripped(budget[s], "COMPLIANCE_DRIFT")
                                      ELSE budget[s]]
      BY <2>1 DEF RecoverBatch
    <3> HIDE DEF lost
    <3> QED BY <3>1, <3>2
  <2>7. request' = request /\ settled' = settled
    BY <2>1 DEF RecoverBatch
  <2> HIDE DEF let
  <2>8. Account!Release(let)
    BY <2>2, <2>4, <2>5, <2>6, <2>7, ReleaseStep
  <2> QED BY <2>2, <2>8 DEF Account!Next
<1>7. ASSUME UNCHANGED opVars, \A s \in Scopes : budget'[s].spent = budget[s].spent
      PROVE  UNCHANGED Account!vars
  BY <1>7, HiddenStep DEF opVars, Phase
<1>8. ASSUME NEW t \in Tenants,
             \/ \E cap \in Caps : SetTenantCap(t, cap)
             \/ ResumeTenant(t)
             \/ \E code \in {"BUDGET_BREACH", "COMPLIANCE_DRIFT"} : TripTenant(t, code)
      PROVE  UNCHANGED Account!vars
  <2>1. t \in Scopes
    BY DEF Scopes
  <2>2. \A s \in Scopes : budget'[s].spent = budget[s].spent
    BY <1>8, <2>1, WriteTripType
    DEF SetTenantCap, ResumeTenant, TripTenant, TripCodes, LedgerTypeOK, BudgetRow
  <2>3. UNCHANGED opVars
    BY <1>8 DEF SetTenantCap, ResumeTenant, TripTenant
  <2> QED BY <1>7, <2>2, <2>3
<1>9. ASSUME NEW o \in Ops, PassDeadline(o)
      PROVE  UNCHANGED Account!vars
  BY <1>9, HiddenStep DEF PassDeadline, Phase
<1>10. CASE UNCHANGED ledgerVars
  BY <1>10, <1>7 DEF ledgerVars
<1> QED
  BY <1>1, <1>2, <1>3, <1>4, <1>5, <1>6, <1>8, <1>9, <1>10 DEF LedgerNext

(* The ledger implements the escrow its callers rely on: at most one       *)
(* charge per operation, after dispatch, into the right accounts.          *)
THEOREM LedgerImplementsEscrow == LedgerSpec => ImplementsEscrow
  BY LedgerInitInv, LedgerInvariant, EscrowInit, EscrowStep, PTL
  DEF LedgerSpec, ImplementsEscrow, Account!Spec

-----------------------------------------------------------------------------
(* Totals.  Only finitely many operations ever have a row, so the sums     *)
(* over them are defined whatever the set of operation ids.                *)

(* The operations that have a row.                                         *)
Rows == {o \in Ops : state[o] # "ABSENT"}

(* What any step of the ledger does to the money: it settles one operation *)
(* or leaves every spend and settlement as it was, adding at most one row. *)
LEMMA LedgerMoney ==
  ASSUME LedgerInv, [LedgerNext]_ledgerVars
  PROVE  \/ /\ \A s \in Scopes : budget'[s].spent = budget[s].spent
            /\ settled' = settled
            /\ \A o \in Rows : o \in Rows' /\ request'[o] = request[o]
            /\ \E x : Rows' \subseteq Rows \cup {x}
         \/ \E o \in Ops, actual \in Costs :
              state[o] \in {"EXECUTING", "IN_DOUBT"} /\ ApplyTerminal(o, "SETTLED", actual)
<1> USE DEF LedgerInv
<1> DEFINE Same == \A s \in Scopes : budget'[s].spent = budget[s].spent
           Quiet == /\ settled' = settled
                    /\ \A o \in Rows : o \in Rows' /\ request'[o] = request[o]
                    /\ \E x : Rows' \subseteq Rows \cup {x}
           Settles == \E o \in Ops, actual \in Costs :
                        state[o] \in {"EXECUTING", "IN_DOUBT"} /\ ApplyTerminal(o, "SETTLED", actual)
<1>1. ASSUME NEW s \in Scopes, NEW code \in TripCodes, WriteTrip(s, code) PROVE Same
  BY <1>1, WriteTripType
<1>2. ASSUME UNCHANGED budget PROVE Same
  BY <1>2
<1>3. ASSUME NEW o \in Ops, NEW r \in Requests,
             (\E late \in BOOLEAN : ReserveGranted(o, r, late)) \/ ReserveDenied(o, r)
      PROVE  Same /\ Quiet
  <2>1. Same
    BY <1>1, <1>2, <1>3, LedgerAssumption DEF ReserveGranted, ReserveDenied, TripCodes
  <2>2. /\ state[o] = "ABSENT"
        /\ state' = [state EXCEPT ![o] = "RESERVED"] \/ state' = [state EXCEPT ![o] = "DENIED"]
        /\ request' = [request EXCEPT ![o] = r] /\ settled' = settled
    BY <1>3 DEF ReserveGranted, ReserveDenied, InsertOperation, Fresh
  <2>3. Quiet
    BY <2>2 DEF Rows, LedgerTypeOK
  <2> QED BY <2>1, <2>3
<1>4. ASSUME NEW o \in Ops, NEW final \in States \ {"ABSENT"}, state[o] # "ABSENT",
             state' = [state EXCEPT ![o] = final], UNCHANGED <<request, settled>>
      PROVE  Quiet
  BY <1>4 DEF Rows, LedgerTypeOK
<1>5. ASSUME NEW o \in Ops, NEW r \in Requests, StartExecution(o, r) \/ MarkInDoubt(o, r)
      PROVE  Same /\ Quiet
  <2>1. Quiet
    BY <1>4, <1>5 DEF StartExecution, MarkInDoubt, States, ActiveStates
  <2>2. Same
    BY <1>1, <1>2, <1>5, ScopeType DEF StartExecution, MarkInDoubt, TripCodes
  <2> QED BY <2>1, <2>2
<1>6. ASSUME NEW o \in Ops, NEW actual \in Costs,
             Reconcile(o, "SETTLED", actual) \/ \E r \in Requests : Settle(o, r, actual)
      PROVE  Settles
  BY <1>6 DEF Reconcile, Settle
<1>7. ASSUME NEW o \in Ops,
             \/ Reconcile(o, "REFUNDED", 0)
             \/ \E r \in Requests, evidence \in BOOLEAN : Refund(o, r, evidence)
      PROVE  Same /\ Quiet
  <2>1. /\ state[o] \in ActiveStates /\ state' = [state EXCEPT ![o] = "REFUNDED"]
        /\ settled' = [settled EXCEPT ![o] = 0] /\ UNCHANGED <<request, budget>>
    BY <1>7 DEF Reconcile, Refund, ApplyTerminal, ActiveStates
  <2>2. settled' = settled
    BY <2>1 DEF OnlySettledCharge, LedgerTypeOK, ActiveStates
  <2> QED BY <1>2, <1>4, <2>1, <2>2 DEF States, ActiveStates, FinalStates
<1>8. ASSUME UNCHANGED opVars PROVE Quiet
  BY <1>8 DEF opVars, Rows
<1>9. ASSUME NEW t \in Tenants,
             \/ \E cap \in Caps : SetTenantCap(t, cap)
             \/ ResumeTenant(t)
             \/ \E code \in {"BUDGET_BREACH", "COMPLIANCE_DRIFT"} : TripTenant(t, code)
      PROVE  Same /\ Quiet
  <2>1. t \in Scopes
    BY DEF Scopes
  <2>2. Same
    BY <1>1, <1>9, <2>1 DEF SetTenantCap, ResumeTenant, TripTenant, TripCodes, LedgerTypeOK, BudgetRow
  <2> QED BY <1>8, <1>9, <2>2 DEF SetTenantCap, ResumeTenant, TripTenant
<1>10. ASSUME RecoverExpired PROVE Same /\ Quiet
  <2>1. PICK batch \in SUBSET Overdue : RecoverBatch(batch)
    BY <1>10 DEF RecoverExpired
  <2>2. \A s \in Scopes : budget'[s] \in {budget[s], Tripped(budget[s], "COMPLIANCE_DRIFT")}
    BY <2>1 DEF RecoverBatch
  <2>3. Same
    BY <2>2, TrippedRow DEF LedgerTypeOK, TripCodes
  <2>4. batch \subseteq Rows
    BY DEF Overdue, LedgerTypeOK, Rows
  <2>5. /\ \A o \in Ops : state'[o] = "ABSENT" <=> state[o] = "ABSENT"
        /\ UNCHANGED <<request, settled>>
    BY <2>1, <2>4 DEF RecoverBatch, Rows
  <2>6. Quiet
    BY <2>5 DEF Rows
  <2> QED BY <2>3, <2>6
<1>11. ASSUME NEW o \in Ops, PassDeadline(o) PROVE Same /\ Quiet
  BY <1>2, <1>11 DEF PassDeadline, Rows
<1>12. ASSUME UNCHANGED ledgerVars PROVE Same /\ Quiet
  BY <1>2, <1>8, <1>12 DEF ledgerVars
<1> HIDE DEF Same, Quiet, Settles
<1>13. (Same /\ Quiet) \/ Settles
  BY <1>3, <1>5, <1>6, <1>7, <1>9, <1>10, <1>11, <1>12 DEF LedgerNext
<1> QED BY <1>13 DEF Same, Quiet, Settles

-----------------------------------------------------------------------------
(* Spend.                                                                  *)

(* The inductive invariant of the totals: finitely many rows, and every    *)
(* spend the sum of the settlements billed to it.                          *)
TotalsInv == LedgerInv /\ IsFiniteSet(Rows) /\ SpendMatchesSettlements

(* The rows a total is taken over are among finitely many.                 *)
LEMMA ParticipantsFinite ==
  ASSUME IsFiniteSet(Rows), NEW s
  PROVE  /\ IsFiniteSet(OpsOf(s)) /\ IsFiniteSet(Own(s)) /\ IsFiniteSet(HeldOps(s) \cap Rows)
         /\ OpsOf(s) \subseteq Rows /\ Own(s) \subseteq Rows
<1>1. OpsOf(s) \subseteq Rows /\ Own(s) \subseteq Rows
  BY DEF OpsOf, Own, Rows
<1>2. HeldOps(s) \cap Rows \subseteq Rows
  OBVIOUS
<1> QED BY <1>1, <1>2, FS_Subset

(* A step grows the settled total of a scope by what it adds to the        *)
(* scope's spend, and keeps the rows finite in number.                     *)
LEMMA SpendStep ==
  ASSUME LedgerInv, IsFiniteSet(Rows), [LedgerNext]_ledgerVars
  PROVE  /\ IsFiniteSet(Rows')
         /\ \A s \in Scopes : /\ SettledOf(s) \in Nat /\ SettledOf(s)' \in Nat
                              /\ budget'[s].spent + SettledOf(s) = budget[s].spent + SettledOf(s)'
<1>0. LedgerInv'
  BY LedgerStepInv
<1>1. /\ \A o \in Rows : settled[o] \in Nat
      /\ \A s \in Scopes : budget[s].spent \in Nat
      /\ \A o \in Ops \ Rows : settled[o] = 0
  BY DEF LedgerInv, LedgerTypeOK, BudgetRow, OnlySettledCharge, Rows
<1>1a. \A o \in Rows' : settled'[o] \in Nat
  BY <1>0 DEF LedgerInv, LedgerTypeOK, Rows
<1>2. CASE /\ \A s \in Scopes : budget'[s].spent = budget[s].spent
           /\ settled' = settled
           /\ \A o \in Rows : o \in Rows' /\ request'[o] = request[o]
           /\ \E x : Rows' \subseteq Rows \cup {x}
  <2>1. IsFiniteSet(Rows')
    <3>1. PICK x : Rows' \subseteq Rows \cup {x}
      BY <1>2
    <3>2. IsFiniteSet(Rows \cup {x})
      BY FS_AddElement
    <3> HIDE DEF Rows
    <3> QED BY <3>1, <3>2, FS_Subset
  <2>2. ASSUME NEW s \in Scopes
        PROVE  SettledOf(s) \in Nat /\ SettledOf(s)' = SettledOf(s)
    <3>1. IsFiniteSet(OpsOf(s)) /\ IsFiniteSet(OpsOf(s)')
      BY <2>1, ParticipantsFinite, FS_Subset DEF OpsOf, Rows
    <3>2. OpsOf(s) \subseteq OpsOf(s)'
      BY <1>2 DEF OpsOf, Rows, ScopeOf
    <3>3. \A o \in OpsOf(s)' \ OpsOf(s) : o \in Ops \ Rows
      BY <1>2 DEF OpsOf, Rows, ScopeOf
    <3>4. \A o \in OpsOf(s)' : settled[o] \in Nat
      BY <1>1, <3>3 DEF OpsOf, Rows
    <3>5. SumFunctionOnSet(settled, OpsOf(s)') = SumFunctionOnSet(settled, OpsOf(s))
      BY <1>1, <3>1, <3>2, <3>3, <3>4, SumSupport
    <3>6. SumFunctionOnSet(settled, OpsOf(s)) \in Nat
      BY <3>1, <3>2, <3>4, SumType
    <3> QED BY <1>2, <3>5, <3>6 DEF SettledOf
  <2> QED BY <1>2, <2>1, <2>2, <1>1
<1>3. ASSUME NEW o \in Ops, NEW actual \in Costs,
             state[o] \in {"EXECUTING", "IN_DOUBT"}, ApplyTerminal(o, "SETTLED", actual)
      PROVE  /\ IsFiniteSet(Rows')
             /\ \A s \in Scopes : /\ SettledOf(s) \in Nat /\ SettledOf(s)' \in Nat
                                  /\ budget'[s].spent + SettledOf(s) = budget[s].spent + SettledOf(s)'
  <2>1. /\ state' = [state EXCEPT ![o] = "SETTLED"]
        /\ settled' = [settled EXCEPT ![o] = actual]
        /\ request' = request
        /\ RecordSettlement(o, actual)
    BY <1>3 DEF ApplyTerminal
  <2>2. o \in Rows /\ settled[o] = 0 /\ actual \in Nat
    BY <1>3, LedgerAssumption DEF Rows, LedgerInv, OnlySettledCharge
  <2>3. Rows' = Rows
    BY <2>1, <2>2 DEF Rows, LedgerInv, LedgerTypeOK
  <2>4. ASSUME NEW s \in Scopes
        PROVE  /\ SettledOf(s) \in Nat /\ SettledOf(s)' \in Nat
               /\ budget'[s].spent + SettledOf(s) = budget[s].spent + SettledOf(s)'
    <3>1. OpsOf(s)' = OpsOf(s)
      BY <2>1, <2>3 DEF OpsOf, ScopeOf, Rows, LedgerInv, LedgerTypeOK
    <3>2. IsFiniteSet(OpsOf(s)) /\ OpsOf(s) \subseteq Rows
      BY ParticipantsFinite
    <3>3. /\ \A p \in OpsOf(s) : settled[p] \in Nat /\ settled'[p] \in Nat
          /\ \A p \in OpsOf(s) \ {o} : settled[p] = settled'[p]
          /\ settled'[o] = actual
      BY <1>1, <1>1a, <2>1, <2>3, <3>2 DEF Rows, LedgerInv, LedgerTypeOK
    <3>4. SumFunctionOnSet(settled, OpsOf(s)) \in Nat /\ SumFunctionOnSet(settled', OpsOf(s)) \in Nat
      BY <3>2, <3>3, SumType
    <3>5. SumFunctionOnSet(settled', OpsOf(s)) = SumFunctionOnSet(settled, OpsOf(s)) +
            IF s \in {Platform, ScopeOf(o)} THEN actual ELSE 0
      <4>1. CASE s \in {Platform, ScopeOf(o)}
        <5>1. o \in OpsOf(s)
          BY <2>2, <4>1 DEF OpsOf, Rows
        <5>2. SumFunctionOnSet(settled', OpsOf(s)) + settled[o] = SumFunctionOnSet(settled, OpsOf(s)) + settled'[o]
          BY <3>2, <3>3, <5>1, SumChange
        <5> QED BY <2>2, <3>3, <3>4, <4>1, <5>2
      <4>2. CASE s \notin {Platform, ScopeOf(o)}
        <5>1. o \notin OpsOf(s)
          BY <4>2 DEF OpsOf
        <5>2. SumFunctionOnSet(settled', OpsOf(s)) = SumFunctionOnSet(settled, OpsOf(s))
          BY <3>2, <3>3, <5>1, SumEqual
        <5> QED BY <3>4, <4>2, <5>2
      <4> QED BY <4>1, <4>2
    <3>6. budget'[s].spent = IF s \in {Platform, ScopeOf(o)} THEN budget[s].spent + actual ELSE budget[s].spent
      BY <1>3, <2>1, <2>2, RecordSettlementType DEF LedgerInv
    <3>7. SettledOf(s) = SumFunctionOnSet(settled, OpsOf(s)) /\ SettledOf(s)' = SumFunctionOnSet(settled', OpsOf(s))
      BY <3>1 DEF SettledOf
    <3>8. budget[s].spent \in Nat
      BY <1>1
    <3> QED BY <2>2, <3>4, <3>5, <3>6, <3>7, <3>8
  <2> QED BY <2>3, <2>4
<1> QED BY <1>2, <1>3, LedgerMoney

(* Empty tables have empty totals.                                         *)
LEMMA TotalsInit == LedgerInit => TotalsInv
<1> SUFFICES ASSUME LedgerInit PROVE TotalsInv
  OBVIOUS
<1>1. Rows = {} /\ \A s : OpsOf(s) = {}
  BY DEF LedgerInit, Rows, OpsOf
<1>2. \A s : SettledOf(s) = 0
  BY <1>1, FS_EmptySet, SumUnfolds DEF SettledOf
<1>3. \A s \in Scopes : budget[s].spent = IF s = Platform THEN InitialSpend ELSE 0
  BY DEF LedgerInit
<1> QED
  BY <1>1, <1>2, <1>3, FS_EmptySet, LedgerInitInv, LedgerAssumption DEF TotalsInv, SpendMatchesSettlements

(* Every step keeps the totals.                                            *)
LEMMA TotalsStep == TotalsInv /\ [LedgerNext]_ledgerVars => TotalsInv'
<1> SUFFICES ASSUME TotalsInv, [LedgerNext]_ledgerVars PROVE TotalsInv'
  OBVIOUS
<1>1. LedgerInv' /\ IsFiniteSet(Rows')
  BY LedgerStepInv, SpendStep DEF TotalsInv
<1>2. ASSUME NEW s \in Scopes
      PROVE  budget'[s].spent = SettledOf(s)' + (IF s = Platform THEN InitialSpend ELSE 0)
  <2>1. /\ SettledOf(s) \in Nat /\ SettledOf(s)' \in Nat
        /\ budget'[s].spent + SettledOf(s) = budget[s].spent + SettledOf(s)'
    BY SpendStep DEF TotalsInv
  <2>2. budget[s].spent = SettledOf(s) + (IF s = Platform THEN InitialSpend ELSE 0)
    BY DEF TotalsInv, SpendMatchesSettlements
  <2>3. budget'[s].spent \in Nat
    BY <1>1 DEF LedgerInv, LedgerTypeOK, BudgetRow
  <2> QED BY <2>1, <2>2, <2>3, LedgerAssumption
<1> QED BY <1>1, <1>2 DEF TotalsInv, SpendMatchesSettlements

(* So they hold of every behaviour of the ledger.                          *)
THEOREM LedgerTotals == LedgerSpec => []TotalsInv
  BY TotalsInit, TotalsStep, PTL DEF LedgerSpec

(* Every spend is the sum of the settlements billed to it: nothing is      *)
(* charged twice, dropped or charged to a stranger, whatever the calls.    *)
THEOREM SpendAlwaysMatches == LedgerSpec => []SpendMatchesSettlements
  BY LedgerTotals, PTL DEF TotalsInv

-----------------------------------------------------------------------------
(* Liability.                                                              *)

(* The larger of two integers.                                             *)
LEMMA MaxOfTwo ==
  ASSUME NEW a \in Int, NEW b \in Int
  PROVE  Max({a, b}) = IF a >= b THEN a ELSE b
<1>1. \A x, y \in {a, b} : x >= y /\ y >= x => x = y
  OBVIOUS
<1>2. \E x \in {a, b} : \A y \in {a, b} : x >= y
  OBVIOUS
<1> QED BY <1>1, <1>2 DEF Max

(* What an operation with a row owes is what it holds and what it settled; *)
(* all are amounts.                                                        *)
LEMMA RowAmounts ==
  ASSUME LedgerInv
  PROVE  \A o \in Rows : /\ Hold[o] \in Nat /\ settled[o] \in Nat /\ Owing[o] = Hold[o] + settled[o]
                         /\ Owing[o] \in Nat /\ Excess[o] \in Nat
                         /\ ~Active(o) => Hold[o] = 0
<1> SUFFICES ASSUME NEW o \in Rows
             PROVE  /\ Hold[o] \in Nat /\ settled[o] \in Nat /\ Owing[o] = Hold[o] + settled[o]
                    /\ Owing[o] \in Nat /\ Excess[o] \in Nat
                    /\ ~Active(o) => Hold[o] = 0
  OBVIOUS
<1>1. o \in Ops /\ state[o] # "ABSENT" /\ Estimate[request[o]] \in Nat /\ settled[o] \in Nat
  BY ScopeType DEF Rows, LedgerInv, LedgerTypeOK
<1>2. Active(o) => settled[o] = 0
  BY <1>1 DEF LedgerInv, OnlySettledCharge, Active, ActiveStates
<1>3. Excess[o] = Max({0, settled[o] - Estimate[request[o]]})
  BY <1>1 DEF Excess
<1>4. Excess[o] \in Nat
  BY <1>1, <1>3, MaxOfTwo
<1> QED BY <1>1, <1>2, <1>4 DEF Hold, Owing

(* The same after a step.                                                  *)
LEMMA RowAmountsNext ==
  LedgerInv' => \A o \in Rows' : Owing'[o] \in Nat /\ Excess'[o] \in Nat
<1> DEFINE RowsOK == \A o \in Rows : Owing[o] \in Nat /\ Excess[o] \in Nat
<1>1. LedgerInv => RowsOK
  BY RowAmounts
<1> HIDE DEF RowsOK
<1>2. LedgerInv' => RowsOK'
  BY <1>1, PTL
<1> QED BY <1>2 DEF RowsOK

(* What a scope's own operations owe is covered by its spend and by what   *)
(* Available counts as held.                                               *)
LEMMA LiabilityCovered ==
  ASSUME TotalsInv, NEW s \in Scopes
  PROVE  /\ Liability(s) \in Nat /\ Held(s) \in Nat
         /\ Liability(s) <= budget[s].spent + Held(s)
<1>1. /\ IsFiniteSet(OpsOf(s)) /\ IsFiniteSet(Own(s))
      /\ OpsOf(s) \subseteq Rows /\ Own(s) \subseteq Rows
  BY ParticipantsFinite DEF TotalsInv
<1>2. /\ Own(s) \subseteq OpsOf(s)
      /\ HeldOps(s) \subseteq OpsOf(s)
      /\ \A o \in OpsOf(s) \ HeldOps(s) : ~Active(o)
  BY DEF Own, OpsOf, HeldOps, Active, ActiveStates
<1>3. \A o \in Rows : /\ Hold[o] \in Nat /\ settled[o] \in Nat /\ Owing[o] = Hold[o] + settled[o]
                      /\ ~Active(o) => Hold[o] = 0
  BY RowAmounts DEF TotalsInv
<1>4. Liability(s) = SumFunctionOnSet(Hold, Own(s)) + SumFunctionOnSet(settled, Own(s))
  BY <1>1, <1>3, SumAdd DEF Liability
<1>5. SumFunctionOnSet(Hold, Own(s)) <= SumFunctionOnSet(Hold, OpsOf(s))
  BY <1>1, <1>2, <1>3, SumSubset
<1>6. SumFunctionOnSet(settled, Own(s)) <= SumFunctionOnSet(settled, OpsOf(s))
  BY <1>1, <1>2, <1>3, SumSubset
<1>7. Held(s) = SumFunctionOnSet(Hold, OpsOf(s))
  <2>1. SumFunctionOnSet(Hold, OpsOf(s)) = SumFunctionOnSet(Hold, HeldOps(s))
    BY <1>1, <1>2, <1>3, SumSupport
  <2> QED BY <2>1 DEF Held
<1>8. /\ SumFunctionOnSet(Hold, Own(s)) \in Nat /\ SumFunctionOnSet(settled, Own(s)) \in Nat
      /\ SumFunctionOnSet(Hold, OpsOf(s)) \in Nat /\ SumFunctionOnSet(settled, OpsOf(s)) \in Nat
  BY <1>1, <1>3, SumType
<1>9. budget[s].spent = SumFunctionOnSet(settled, OpsOf(s)) + (IF s = Platform THEN InitialSpend ELSE 0)
  BY DEF TotalsInv, SpendMatchesSettlements, SettledOf
<1> QED BY <1>4, <1>5, <1>6, <1>7, <1>8, <1>9, LedgerAssumption

(* The bound one step keeps, in one scope.                                 *)
Bounded(s) == Liability(s)' <= Max({Liability(s), budget'[s].cap}) + Overrun(s)' - Overrun(s)

(* Totals of a well-typed state are amounts.                               *)
LEMMA TotalsType ==
  ASSUME TotalsInv, NEW s \in Scopes
  PROVE  Liability(s) \in Nat /\ Overrun(s) \in Nat /\ budget[s].cap \in Nat
<1>1. IsFiniteSet(Own(s)) /\ Own(s) \subseteq Rows
  BY ParticipantsFinite DEF TotalsInv
<1>2. \A o \in Own(s) : Owing[o] \in Nat /\ Excess[o] \in Nat
  BY <1>1, RowAmounts DEF TotalsInv
<1>3. Liability(s) \in Nat /\ Overrun(s) \in Nat
  BY <1>1, <1>2, SumType DEF Liability, Overrun
<1> QED BY <1>3 DEF TotalsInv, LedgerInv, LedgerTypeOK, BudgetRow

(* A step after which no row owes more, no settlement has gone further     *)
(* over, and new rows owe nothing.                                         *)
LEMMA LiabilityFalls ==
  ASSUME TotalsInv, TotalsInv', NEW s \in Scopes,
         \A o \in Rows : o \in Rows' /\ request'[o] = request[o],
         \A o \in Rows : Owing'[o] <= Owing[o] /\ Excess'[o] = Excess[o],
         \A o \in Rows' \ Rows : Owing'[o] = 0 /\ Excess'[o] = 0
  PROVE  Bounded(s)
<1>1. /\ IsFiniteSet(Own(s)) /\ Own(s) \subseteq Rows
      /\ IsFiniteSet(Own(s)') /\ Own(s)' \subseteq Rows'
  <2>1. IsFiniteSet(Own(s)) /\ Own(s) \subseteq Rows
    BY ParticipantsFinite DEF TotalsInv
  <2>2. Own(s)' \subseteq Rows'
    BY DEF Own, Rows
  <2>3. IsFiniteSet(Rows')
    BY DEF TotalsInv
  <2> QED BY <2>1, <2>2, <2>3, FS_Subset
<1>2. Own(s) \subseteq Own(s)' /\ Own(s)' \ Own(s) \subseteq Rows' \ Rows
  BY DEF Own, Rows, ScopeOf
<1>3. \A o \in Rows : Owing[o] \in Nat /\ Excess[o] \in Nat
  BY RowAmounts DEF TotalsInv
<1>4. \A o \in Rows' : Owing'[o] \in Nat /\ Excess'[o] \in Nat
  BY RowAmountsNext DEF TotalsInv
<1>5. SumFunctionOnSet(Owing', Own(s)') = SumFunctionOnSet(Owing', Own(s))
  BY <1>1, <1>2, <1>4, SumSupport
<1>6. SumFunctionOnSet(Excess', Own(s)') = SumFunctionOnSet(Excess', Own(s))
  BY <1>1, <1>2, <1>4, SumSupport
<1>7. SumFunctionOnSet(Owing', Own(s)) <= SumFunctionOnSet(Owing, Own(s))
  BY <1>1, <1>3, <1>4, SumMonotone
<1>8. SumFunctionOnSet(Excess', Own(s)) = SumFunctionOnSet(Excess, Own(s))
  BY <1>1, <1>3, <1>4, SumEqual
<1>9. Liability(s)' <= Liability(s) /\ Overrun(s)' = Overrun(s)
  BY <1>5, <1>6, <1>7, <1>8 DEF Liability, Overrun
<1>10. Liability(s) \in Nat /\ Overrun(s) \in Nat /\ Liability(s)' \in Nat /\ budget'[s].cap \in Nat
  <2>1. Liability(s) \in Nat /\ Overrun(s) \in Nat
    BY TotalsType
  <2>2. SumFunctionOnSet(Owing', Own(s)') \in Nat
    BY <1>1, <1>4, SumType
  <2>3. budget'[s].cap \in Nat
    BY DEF TotalsInv, LedgerInv, LedgerTypeOK, BudgetRow
  <2> QED BY <2>1, <2>2, <2>3 DEF Liability
<1>11. Max({Liability(s), budget'[s].cap}) >= Liability(s) /\ Max({Liability(s), budget'[s].cap}) \in Int
  BY <1>10, MaxOfTwo
<1> QED BY <1>9, <1>10, <1>11 DEF Bounded

(* A reservation is granted only within what the scope has available.      *)
LEMMA LiabilityReserves ==
  ASSUME TotalsInv, TotalsInv', NEW s \in Scopes,
         NEW o \in Ops, NEW r \in Requests, NEW late \in BOOLEAN, ReserveGranted(o, r, late)
  PROVE  Bounded(s)
<1>1. /\ state[o] = "ABSENT" /\ state' = [state EXCEPT ![o] = "RESERVED"]
      /\ request' = [request EXCEPT ![o] = r] /\ settled' = settled
      /\ budget' = budget /\ Estimate[r] <= Available(TenantOf[r])
  BY DEF ReserveGranted, InsertOperation, Fresh
<1>2. /\ Estimate[r] \in Nat /\ TenantOf[r] \in Scopes /\ settled[o] = 0
      /\ Rows' = Rows \cup {o} /\ o \notin Rows
  BY <1>1, LedgerAssumption DEF TotalsInv, LedgerInv, LedgerTypeOK, OnlySettledCharge, Rows
<1>3. \A p \in Rows : request'[p] = request[p] /\ Owing'[p] = Owing[p] /\ Excess'[p] = Excess[p]
  BY <1>1, <1>2 DEF Rows, TotalsInv, LedgerInv, LedgerTypeOK, Owing, Excess, Active
<1>4. Owing'[o] = Estimate[r] /\ Excess'[o] = 0
  <2>1. Owing'[o] = Estimate[r] /\ Excess'[o] = Max({0, 0 - Estimate[r]})
    BY <1>1, <1>2 DEF TotalsInv, LedgerInv, LedgerTypeOK, Owing, Excess, Active, ActiveStates
  <2>2. 0 - Estimate[r] \in Int /\ (0 >= 0 - Estimate[r])
    BY <1>2
  <2>3. Max({0, 0 - Estimate[r]}) = 0
    BY <2>2, MaxOfTwo
  <2> QED BY <2>1, <2>3
<1>5. CASE s # TenantOf[r]
  <2>1. Own(s)' = Own(s)
    BY <1>1, <1>5 DEF Own, ScopeOf, TotalsInv, LedgerInv, LedgerTypeOK
  <2>2. IsFiniteSet(Own(s)) /\ Own(s) \subseteq Rows /\ \A p \in Rows : Owing[p] \in Nat /\ Excess[p] \in Nat
    BY ParticipantsFinite, RowAmounts DEF TotalsInv
  <2>3. /\ SumFunctionOnSet(Owing', Own(s)) = SumFunctionOnSet(Owing, Own(s))
        /\ SumFunctionOnSet(Excess', Own(s)) = SumFunctionOnSet(Excess, Own(s))
    BY <1>3, <2>2, SumEqual
  <2>4. Liability(s)' = Liability(s) /\ Overrun(s)' = Overrun(s)
    BY <2>1, <2>3 DEF Liability, Overrun
  <2>5. Liability(s) \in Nat /\ Overrun(s) \in Nat /\ budget'[s].cap \in Nat
    BY <1>1, TotalsType
  <2>6. Max({Liability(s), budget'[s].cap}) >= Liability(s) /\ Max({Liability(s), budget'[s].cap}) \in Int
    BY <2>5, MaxOfTwo
  <2> QED BY <2>4, <2>5, <2>6 DEF Bounded
<1>6. CASE s = TenantOf[r]
  <2>1. Own(s)' = Own(s) \cup {o} /\ o \notin Own(s)
    BY <1>1, <1>6 DEF Own, ScopeOf, TotalsInv, LedgerInv, LedgerTypeOK
  <2>2. IsFiniteSet(Own(s)) /\ Own(s) \subseteq Rows /\ \A p \in Rows : Owing[p] \in Nat /\ Excess[p] \in Nat
    BY ParticipantsFinite, RowAmounts DEF TotalsInv
  <2>3. IsFiniteSet(Own(s) \cup {o}) /\ (Own(s) \cup {o}) \ {o} = Own(s) /\ o \in Own(s) \cup {o}
    BY <2>1, <2>2, FS_AddElement
  <2>4. \A p \in Own(s) \cup {o} : Owing'[p] \in Nat /\ Excess'[p] \in Nat
    BY <1>2, <1>3, <1>4, <2>2
  <2>5. /\ SumFunctionOnSet(Owing', Own(s) \cup {o}) = Owing'[o] + SumFunctionOnSet(Owing', Own(s))
        /\ SumFunctionOnSet(Excess', Own(s) \cup {o}) = Excess'[o] + SumFunctionOnSet(Excess', Own(s))
    BY <2>3, <2>4, SumRemove
  <2>6. /\ SumFunctionOnSet(Owing', Own(s)) = SumFunctionOnSet(Owing, Own(s))
        /\ SumFunctionOnSet(Excess', Own(s)) = SumFunctionOnSet(Excess, Own(s))
    BY <1>3, <2>2, SumEqual
  <2>7. Liability(s) \in Nat /\ Overrun(s) \in Nat /\ budget[s].cap \in Nat
    BY TotalsType
  <2>8. Liability(s)' = Estimate[r] + Liability(s) /\ Overrun(s)' = Overrun(s)
    BY <1>4, <2>1, <2>5, <2>6, <2>7 DEF Liability, Overrun
  <2>9. Held(s) \in Nat /\ Liability(s) <= budget[s].spent + Held(s) /\ budget[s].spent \in Nat
    BY LiabilityCovered DEF TotalsInv, LedgerInv, LedgerTypeOK, BudgetRow
  <2>10. Estimate[r] = 0 \/ Estimate[r] <= budget[s].cap - budget[s].spent - Held(s)
    <3>1. Estimate[r] <= Max({0, budget[s].cap - budget[s].spent - Held(s)})
      BY <1>1, <1>6 DEF Available
    <3>2. budget[s].cap - budget[s].spent - Held(s) \in Int
      BY <2>7, <2>9
    <3> QED BY <1>2, <2>7, <2>9, <3>1, <3>2, MaxOfTwo
  <2>11. Max({Liability(s), budget'[s].cap}) = IF Liability(s) >= budget[s].cap THEN Liability(s) ELSE budget[s].cap
    BY <1>1, <2>7, MaxOfTwo
  <2> QED BY <1>2, <2>7, <2>8, <2>9, <2>10, <2>11 DEF Bounded
<1> QED BY <1>5, <1>6

(* A settlement replaces what was reserved by what was reported.           *)
LEMMA LiabilitySettles ==
  ASSUME TotalsInv, TotalsInv', NEW s \in Scopes, NEW o \in Ops, NEW actual \in Costs,
         state[o] \in {"EXECUTING", "IN_DOUBT"}, ApplyTerminal(o, "SETTLED", actual)
  PROVE  Bounded(s)
<1> DEFINE estimate == Estimate[request[o]]
           over == IF actual > estimate THEN actual - estimate ELSE 0
<1>1. /\ state' = [state EXCEPT ![o] = "SETTLED"]
      /\ settled' = [settled EXCEPT ![o] = actual] /\ request' = request
  BY DEF ApplyTerminal
<1>2. o \in Rows /\ settled[o] = 0 /\ actual \in Nat /\ estimate \in Nat /\ Rows' = Rows
  BY <1>1, ScopeType, LedgerAssumption DEF Rows, TotalsInv, LedgerInv, LedgerTypeOK, OnlySettledCharge
<1>3. Own(s)' = Own(s)
  BY <1>1, <1>2 DEF Own, ScopeOf, TotalsInv, LedgerInv, LedgerTypeOK, Rows
<1>4. /\ IsFiniteSet(Own(s)) /\ Own(s) \subseteq Rows
      /\ \A p \in Rows : Owing[p] \in Nat /\ Excess[p] \in Nat
      /\ \A p \in Rows : Owing'[p] \in Nat /\ Excess'[p] \in Nat
  BY <1>2, ParticipantsFinite, RowAmounts, RowAmountsNext DEF TotalsInv
<1>5. \A p \in Rows \ {o} : Owing'[p] = Owing[p] /\ Excess'[p] = Excess[p]
  BY <1>1 DEF Rows, TotalsInv, LedgerInv, LedgerTypeOK, Owing, Excess, Active
<1>6. Owing[o] = estimate /\ Owing'[o] = actual /\ Excess[o] = 0 /\ Excess'[o] = over
  <2>1. /\ Owing[o] = estimate /\ Owing'[o] = actual
        /\ Excess[o] = Max({0, 0 - estimate}) /\ Excess'[o] = Max({0, actual - estimate})
    BY <1>1, <1>2 DEF TotalsInv, LedgerInv, LedgerTypeOK, Owing, Excess, Active, ActiveStates
  <2>2. 0 - estimate \in Int /\ actual - estimate \in Int
    BY <1>2
  <2> HIDE DEF estimate
  <2> QED BY <1>2, <2>1, <2>2, MaxOfTwo
<1> HIDE DEF estimate, over
<1>7. Liability(s) \in Nat /\ Overrun(s) \in Nat /\ budget'[s].cap \in Nat
  BY TotalsType DEF TotalsInv, LedgerInv, LedgerTypeOK, BudgetRow
<1>8. /\ Liability(s)' = SumFunctionOnSet(Owing', Own(s)) /\ Overrun(s)' = SumFunctionOnSet(Excess', Own(s))
      /\ Liability(s)' \in Nat /\ Overrun(s)' \in Nat
  <2>1. SumFunctionOnSet(Owing', Own(s)) \in Nat /\ SumFunctionOnSet(Excess', Own(s)) \in Nat
    BY <1>4, SumType
  <2> QED BY <1>3, <2>1 DEF Liability, Overrun
<1>9. CASE o \in Own(s)
  <2>1. /\ SumFunctionOnSet(Owing', Own(s)) + Owing[o] = SumFunctionOnSet(Owing, Own(s)) + Owing'[o]
        /\ SumFunctionOnSet(Excess', Own(s)) + Excess[o] = SumFunctionOnSet(Excess, Own(s)) + Excess'[o]
    BY <1>4, <1>5, <1>9, SumChange
  <2>2. Liability(s)' + estimate = Liability(s) + actual /\ Overrun(s)' = Overrun(s) + over
    BY <1>2, <1>6, <1>7, <1>8, <2>1 DEF Liability, Overrun
  <2>3. Max({Liability(s), budget'[s].cap}) >= Liability(s) /\ Max({Liability(s), budget'[s].cap}) \in Int
    BY <1>7, MaxOfTwo
  <2> QED BY <1>2, <1>7, <1>8, <2>2, <2>3 DEF Bounded, over
<1>10. CASE o \notin Own(s)
  <2>1. /\ SumFunctionOnSet(Owing', Own(s)) = SumFunctionOnSet(Owing, Own(s))
        /\ SumFunctionOnSet(Excess', Own(s)) = SumFunctionOnSet(Excess, Own(s))
    BY <1>4, <1>5, <1>10, SumEqual
  <2>2. Liability(s)' = Liability(s) /\ Overrun(s)' = Overrun(s)
    BY <1>8, <2>1 DEF Liability, Overrun
  <2>3. Max({Liability(s), budget'[s].cap}) >= Liability(s) /\ Max({Liability(s), budget'[s].cap}) \in Int
    BY <1>7, MaxOfTwo
  <2> QED BY <1>7, <2>2, <2>3 DEF Bounded
<1> QED BY <1>9, <1>10

(* Every other step moves no money and lets no row owe more.               *)
LEMMA LiabilityQuiet ==
  ASSUME TotalsInv, TotalsInv', NEW s \in Scopes, settled' = settled,
         \A o \in Rows : o \in Rows' /\ request'[o] = request[o] /\ (Active(o)' => Active(o)),
         \A o \in Rows' \ Rows : state'[o] = "DENIED"
  PROVE  Bounded(s)
<1>1. \A o \in Rows : Hold[o] \in Nat /\ settled[o] \in Nat /\ Owing[o] = Hold[o] + settled[o]
  BY RowAmounts DEF TotalsInv
<1>2. \A o \in Rows : Owing'[o] <= Owing[o] /\ Excess'[o] = Excess[o]
  <2> SUFFICES ASSUME NEW o \in Rows PROVE Owing'[o] <= Owing[o] /\ Excess'[o] = Excess[o]
    OBVIOUS
  <2>1. o \in Ops /\ request'[o] = request[o] /\ (Active(o)' => Active(o))
    BY DEF Rows
  <2>2. Owing'[o] = IF Active(o)' THEN Estimate[request[o]] ELSE settled[o]
    BY <2>1 DEF Owing
  <2>3. Owing[o] = IF Active(o) THEN Estimate[request[o]] ELSE settled[o]
    BY <2>1 DEF Owing
  <2>4. Excess'[o] = Excess[o]
    BY <2>1 DEF Excess
  <2>5. Hold[o] \in Nat /\ settled[o] \in Nat /\ Owing[o] = Hold[o] + settled[o]
    BY <1>1
  <2> QED BY <2>1, <2>2, <2>3, <2>4, <2>5
<1>3. \A o \in Rows' \ Rows : Owing'[o] = 0 /\ Excess'[o] = 0
  <2> SUFFICES ASSUME NEW o \in Rows' \ Rows PROVE Owing'[o] = 0 /\ Excess'[o] = 0
    OBVIOUS
  <2>1. o \in Ops /\ state'[o] = "DENIED" /\ settled'[o] = 0 /\ Estimate[request'[o]] \in Nat
    BY LedgerAssumption DEF Rows, TotalsInv, LedgerInv, LedgerTypeOK, OnlySettledCharge
  <2>2. Owing'[o] = 0 /\ Excess'[o] = Max({0, 0 - Estimate[request'[o]]})
    BY <2>1 DEF Owing, Excess, Active, ActiveStates
  <2> QED BY <2>1, <2>2, MaxOfTwo
<1> QED BY <1>2, <1>3, LiabilityFalls

(* Every step keeps the bound in every scope.                              *)
LEMMA LiabilityStep ==
  ASSUME TotalsInv, TotalsInv', [LedgerNext]_ledgerVars, NEW s \in Scopes
  PROVE  Bounded(s)
<1> DEFINE Quiet == /\ settled' = settled
                    /\ \A o \in Rows : o \in Rows' /\ request'[o] = request[o] /\ (Active(o)' => Active(o))
                    /\ \A o \in Rows' \ Rows : state'[o] = "DENIED"
<1>1. ASSUME NEW o \in Ops, NEW r \in Requests, ReserveDenied(o, r) PROVE Quiet
  <2>1. /\ state[o] = "ABSENT" /\ state' = [state EXCEPT ![o] = "DENIED"]
        /\ request' = [request EXCEPT ![o] = r] /\ settled' = settled
    BY <1>1 DEF ReserveDenied, InsertOperation, Fresh
  <2> QED BY <2>1 DEF Rows, Active, TotalsInv, LedgerInv, LedgerTypeOK
<1>2. ASSUME NEW o \in Ops, NEW final \in States \ {"ABSENT"}, Active(o),
             state' = [state EXCEPT ![o] = final], UNCHANGED <<request, settled>>
      PROVE  Quiet
  BY <1>2 DEF Rows, Active, ActiveStates, TotalsInv, LedgerInv, LedgerTypeOK
<1>3. ASSUME NEW o \in Ops, NEW r \in Requests, StartExecution(o, r) \/ MarkInDoubt(o, r) PROVE Quiet
  BY <1>2, <1>3 DEF StartExecution, MarkInDoubt, Active, States, ActiveStates
<1>4. ASSUME NEW o \in Ops,
             \/ Reconcile(o, "REFUNDED", 0)
             \/ \E r \in Requests, evidence \in BOOLEAN : Refund(o, r, evidence)
      PROVE  Quiet
  <2>1. /\ state[o] \in ActiveStates /\ state' = [state EXCEPT ![o] = "REFUNDED"]
        /\ settled' = [settled EXCEPT ![o] = 0] /\ UNCHANGED request
    BY <1>4 DEF Reconcile, Refund, ApplyTerminal, ActiveStates
  <2>2. settled' = settled
    BY <2>1 DEF TotalsInv, LedgerInv, OnlySettledCharge, LedgerTypeOK, ActiveStates
  <2> QED BY <1>2, <2>1, <2>2 DEF Active, States, FinalStates
<1>5. ASSUME UNCHANGED opVars PROVE Quiet
  BY <1>5 DEF opVars, Rows, Active
<1>6. ASSUME RecoverExpired PROVE Quiet
  <2>1. PICK batch \in SUBSET Overdue : RecoverBatch(batch)
    BY <1>6 DEF RecoverExpired
  <2>2. \A o \in batch : Active(o) /\ state[o] # "ABSENT"
    BY DEF Overdue, Active, ActiveStates
  <2> QED BY <2>1, <2>2 DEF RecoverBatch, Rows, Active, ActiveStates
<1>7. ASSUME NEW o \in Ops, PassDeadline(o) PROVE Quiet
  BY <1>7 DEF PassDeadline, Rows, Active
<1>8. ASSUME NEW o \in Ops, NEW actual \in Costs,
             Reconcile(o, "SETTLED", actual) \/ \E r \in Requests : Settle(o, r, actual)
      PROVE  Bounded(s)
  BY <1>8, LiabilitySettles DEF Reconcile, Settle
<1>9. ASSUME NEW o \in Ops, NEW r \in Requests, NEW late \in BOOLEAN, ReserveGranted(o, r, late)
      PROVE  Bounded(s)
  BY <1>9, LiabilityReserves
<1>10. ASSUME Quiet PROVE Bounded(s)
  BY <1>10, LiabilityQuiet
<1>11. ASSUME NEW t \in Tenants,
              \/ \E cap \in Caps : SetTenantCap(t, cap)
              \/ ResumeTenant(t)
              \/ \E code \in {"BUDGET_BREACH", "COMPLIANCE_DRIFT"} : TripTenant(t, code)
       PROVE  Quiet
  BY <1>5, <1>11 DEF SetTenantCap, ResumeTenant, TripTenant
<1> HIDE DEF Quiet
<1>12. Quiet \/ Bounded(s)
  BY <1>1, <1>3, <1>4, <1>5, <1>6, <1>7, <1>8, <1>9, <1>11 DEF LedgerNext, ledgerVars
<1> QED BY <1>10, <1>12

(* No step takes what a scope's own operations owe past its cap, except by *)
(* what a settlement reported above its reservation: reservations made     *)
(* concurrently, caps moved and recoveries run in any order included.      *)
THEOREM LiabilityStaysWithinCap == LedgerSpec => LiabilityWithinCap
<1>1. TotalsInv /\ [LedgerNext]_ledgerVars =>
        [\A s \in Scopes :
           Liability(s)' <= Max({Liability(s), budget'[s].cap}) + Overrun(s)' - Overrun(s)]_ledgerVars
  BY TotalsStep, LiabilityStep DEF Bounded
<1> QED BY <1>1, LedgerTotals, PTL DEF LedgerSpec, LiabilityWithinCap

-----------------------------------------------------------------------------
(* THE GOVERNOR.  The ledger's lemmas carry over: a governor step writes   *)
(* budget rows only.                                                       *)

(* The inductive invariant of the shared rows.                             *)
GovernorInv == LedgerInv /\ direct \in [Scopes -> Nat] /\ PlatformDoubtHalts

-----------------------------------------------------------------------------
(* Steps of the ledger keep the platform halted while it is in doubt.      *)

(* No ledger step clears the platform's STASIS.                            *)
LEMMA LedgerKeepsPlatformStasis ==
  ASSUME LedgerInv, [LedgerNext]_ledgerVars, budget[Platform].stasis
  PROVE  budget'[Platform].stasis
<1> USE DEF LedgerInv
<1>1. Platform \in Scopes /\ \A t \in Tenants : t \in Scopes /\ t # Platform
  BY LedgerAssumption DEF Scopes
<1>2. ASSUME NEW r \in Requests, WriteTrip(TenantOf[r], "BUDGET_BREACH")
      PROVE  budget'[Platform].stasis
  BY <1>1, <1>2, WriteTripType, LedgerAssumption DEF TripCodes
<1>3. ASSUME NEW o \in Ops, NEW r \in Requests, MarkInDoubt(o, r)
      PROVE  budget'[Platform].stasis
  BY <1>1, <1>3, WriteTripType, ScopeType DEF MarkInDoubt, TripCodes
<1>4. ASSUME NEW o \in Ops, state[o] # "ABSENT", NEW actual \in Nat, RecordSettlement(o, actual)
      PROVE  budget'[Platform].stasis
  BY <1>1, <1>4, RecordSettlementType
<1>5. ASSUME NEW o \in Ops, NEW actual \in Costs,
             Reconcile(o, "SETTLED", actual) \/ \E r \in Requests : Settle(o, r, actual)
      PROVE  budget'[Platform].stasis
  <2>1. state[o] # "ABSENT" /\ RecordSettlement(o, actual) /\ actual \in Nat
    BY <1>5, LedgerAssumption DEF Reconcile, Settle, ApplyTerminal
  <2> QED BY <1>4, <2>1
<1>6. ASSUME NEW o \in Ops,
             \/ Reconcile(o, "REFUNDED", 0)
             \/ \E r \in Requests, evidence \in BOOLEAN : Refund(o, r, evidence)
      PROVE  budget'[Platform].stasis
  BY <1>6 DEF Reconcile, Refund, ApplyTerminal
<1>7. ASSUME NEW t \in Tenants,
             \/ \E cap \in Caps : SetTenantCap(t, cap)
             \/ ResumeTenant(t)
             \/ \E code \in {"BUDGET_BREACH", "COMPLIANCE_DRIFT"} : TripTenant(t, code)
      PROVE  budget'[Platform].stasis
  BY <1>1, <1>7 DEF SetTenantCap, ResumeTenant, TripTenant, WriteTrip, LedgerTypeOK
<1>8. CASE RecoverExpired
  <2>1. PICK batch \in SUBSET Overdue : RecoverBatch(batch)
    BY <1>8 DEF RecoverExpired
  <2>2. budget'[Platform] \in {budget[Platform], Tripped(budget[Platform], "COMPLIANCE_DRIFT")}
    BY <1>1, <2>1 DEF RecoverBatch
  <2> QED BY <1>1, <2>2, TrippedRow DEF LedgerTypeOK, TripCodes
<1>9. ASSUME UNCHANGED budget PROVE budget'[Platform].stasis
  BY <1>9
<1> QED
  BY <1>2, <1>3, <1>5, <1>6, <1>7, <1>8, <1>9
  DEF LedgerNext, ReserveGranted, ReserveDenied, StartExecution, PassDeadline, ledgerVars

(* A ledger step that puts a platform operation in doubt halts the         *)
(* platform in the same transaction.                                       *)
LEMMA NewDoubtHalts ==
  ASSUME LedgerInv, [LedgerNext]_ledgerVars, NEW o \in Ops,
         state[o] # "IN_DOUBT", state'[o] = "IN_DOUBT", ScopeOf(o)' = Platform
  PROVE  budget'[Platform].stasis
<1> USE DEF LedgerInv
<1>0. Platform \in Scopes
  BY DEF Scopes
<1>1. ASSUME NEW p \in Ops, NEW r \in Requests, MarkInDoubt(p, r)
      PROVE  budget'[Platform].stasis
  <2>1. p = o /\ request' = request /\ WriteTrip(ScopeOf(p), "COMPLIANCE_DRIFT")
    BY <1>1 DEF MarkInDoubt, LedgerTypeOK
  <2>2. ScopeOf(p) = Platform
    BY <2>1 DEF ScopeOf
  <2> QED BY <1>0, <2>1, <2>2, WriteTripType DEF TripCodes
<1>2. CASE RecoverExpired
  <2>1. PICK batch \in SUBSET Overdue : RecoverBatch(batch)
    BY <1>2 DEF RecoverExpired
  <2>2. o \in batch /\ state[o] = "EXECUTING" /\ request' = request
    BY <2>1 DEF RecoverBatch, LedgerTypeOK
  <2>3. ScopeOf(o) = Platform
    BY <2>2 DEF ScopeOf
  <2>4. budget'[Platform] = Tripped(budget[Platform], "COMPLIANCE_DRIFT")
    BY <1>0, <2>1, <2>2, <2>3 DEF RecoverBatch
  <2> QED BY <1>0, <2>4, TrippedRow DEF LedgerTypeOK, TripCodes
<1>3. ASSUME NEW p \in Ops, NEW final \in {"RESERVED", "DENIED", "EXECUTING", "SETTLED", "REFUNDED"},
             state' = [state EXCEPT ![p] = final]
      PROVE  FALSE
  BY <1>3 DEF LedgerTypeOK
<1>4. ASSUME UNCHANGED state PROVE FALSE
  BY <1>4
<1> QED
  BY <1>1, <1>2, <1>3, <1>4
  DEF LedgerNext, ReserveGranted, ReserveDenied, InsertOperation, StartExecution, Settle, Refund,
      Reconcile, ApplyTerminal, SetTenantCap, ResumeTenant, TripTenant, PassDeadline,
      opVars, ledgerVars

-----------------------------------------------------------------------------
(* Steps of the governor.                                                  *)

(* A direct spend leaves a row that halts only with a code and clears no   *)
(* STASIS; at its cap the row is halted.                                   *)
LEMMA SpendRow ==
  ASSUME NEW row \in BudgetRow, row.stasis => row.trip # NoTrip, NEW amount \in Nat
  PROVE  /\ AfterSpend(row, amount) \in BudgetRow
         /\ AfterSpend(row, amount).stasis => AfterSpend(row, amount).trip # NoTrip
         /\ row.stasis => AfterSpend(row, amount).stasis
         /\ AfterSpend(row, amount).cap = row.cap
         /\ AfterSpend(row, amount).spent = row.spent + amount
         /\ row.spent + amount >= row.cap => AfterSpend(row, amount).stasis
<1> DEFINE shouldTrip == row.spent + amount >= row.cap /\ ~row.stasis
           stasis == row.stasis \/ shouldTrip
           trip == IF shouldTrip THEN "BUDGET_BREACH" ELSE row.trip
<1>1. AfterSpend(row, amount) =
        [row EXCEPT !.spent = row.spent + amount, !.stasis = stasis, !.trip = trip]
  BY DEF AfterSpend
<1>2. /\ row.cap \in Nat \ {0} /\ row.spent + amount \in Nat /\ row.stasis \in BOOLEAN
      /\ row = [cap |-> row.cap, spent |-> row.spent, stasis |-> row.stasis, trip |-> row.trip]
  BY DEF BudgetRow
<1>3. /\ stasis \in BOOLEAN /\ trip \in TripCodes \cup {NoTrip}
      /\ stasis => trip # NoTrip
      /\ row.stasis => stasis
      /\ row.spent + amount >= row.cap => stasis
  BY <1>2 DEF BudgetRow, TripCodes, NoTrip
<1> HIDE DEF stasis, trip
<1>4. AfterSpend(row, amount) =
        [cap |-> row.cap, spent |-> row.spent + amount, stasis |-> stasis, trip |-> trip]
  BY <1>1, <1>2
<1> QED
  BY <1>2, <1>3, <1>4 DEF BudgetRow

(* A governor step writes well-typed rows and leaves the operations, and   *)
(* clears the platform's STASIS only when nothing is in doubt.             *)
LEMMA GovernorRows ==
  ASSUME LedgerTypeOK, direct \in [Scopes -> Nat], GovernorStep
  PROVE  /\ budget' \in [Scopes -> BudgetRow]
         /\ \A s \in Scopes : budget'[s].stasis => budget'[s].trip # NoTrip
         /\ direct' \in [Scopes -> Nat]
         /\ UNCHANGED <<opVars, auditVars>>
         /\ budget[Platform].stasis => budget'[Platform].stasis \/ ~AnyInDoubt
<1>0. Platform \in Scopes
  BY DEF Scopes
<1>1. ASSUME NEW s \in Scopes, NEW amount \in Amounts, CheckTrips(s, amount)
      PROVE  /\ budget' \in [Scopes -> BudgetRow]
             /\ \A x \in Scopes : budget'[x].stasis => budget'[x].trip # NoTrip
             /\ direct' \in [Scopes -> Nat]
             /\ UNCHANGED <<opVars, auditVars>>
             /\ budget[Platform].stasis => budget'[Platform].stasis
  BY <1>0, <1>1, WriteTripType DEF CheckTrips, TripCodes, untouched
<1>2. ASSUME NEW s \in Scopes, NEW amount \in Amounts, RecordSpend(s, amount)
      PROVE  /\ budget' \in [Scopes -> BudgetRow]
             /\ \A x \in Scopes : budget'[x].stasis => budget'[x].trip # NoTrip
             /\ direct' \in [Scopes -> Nat]
             /\ UNCHANGED <<opVars, auditVars>>
             /\ budget[Platform].stasis => budget'[Platform].stasis
  <2>1. /\ budget' = [budget EXCEPT ![s] = AfterSpend(budget[s], amount)]
        /\ direct' = [direct EXCEPT ![s] = @ + amount]
        /\ UNCHANGED <<opVars, auditVars>>
    BY <1>2 DEF RecordSpend, untouched
  <2>2. amount \in Nat /\ budget[s] \in BudgetRow /\ (budget[s].stasis => budget[s].trip # NoTrip)
    BY GovernorAssumption DEF LedgerTypeOK
  <2> DEFINE row == AfterSpend(budget[s], amount)
  <2>3. row \in BudgetRow /\ (row.stasis => row.trip # NoTrip) /\ (budget[s].stasis => row.stasis)
    BY <2>2, SpendRow
  <2> HIDE DEF row
  <2>4. budget' = [budget EXCEPT ![s] = row]
    BY <2>1 DEF row
  <2>5. direct' \in [Scopes -> Nat]
    BY <2>1, <2>2
  <2>6. /\ budget' \in [Scopes -> BudgetRow]
        /\ \A x \in Scopes : budget'[x].stasis => budget'[x].trip # NoTrip
        /\ budget[Platform].stasis => budget'[Platform].stasis
    BY <1>0, <2>3, <2>4 DEF LedgerTypeOK
  <2> QED BY <2>1, <2>5, <2>6
<1>3. ASSUME NEW code \in TripCodes, Trip(code)
      PROVE  /\ budget' \in [Scopes -> BudgetRow]
             /\ \A x \in Scopes : budget'[x].stasis => budget'[x].trip # NoTrip
             /\ direct' \in [Scopes -> Nat]
             /\ UNCHANGED <<opVars, auditVars>>
             /\ budget[Platform].stasis => budget'[Platform].stasis
  BY <1>0, <1>3, WriteTripType DEF Trip, untouched
<1>4. CASE Resume
  BY <1>0, <1>4 DEF Resume, untouched, LedgerTypeOK, BudgetRow
<1> QED
  BY <1>1, <1>2, <1>3, <1>4 DEF GovernorStep

-----------------------------------------------------------------------------
(* The invariance theorem.                                                 *)

(* The constructor's state satisfies the invariant.                        *)
LEMMA GovernorInitInv == GovernorInit => GovernorInv
  BY LedgerInitInv DEF GovernorInit, GovernorInv, PlatformDoubtHalts, LedgerInit

(* Every step of either writer preserves it.                               *)
LEMMA GovernorStepInv == GovernorInv /\ [GovernorNext]_govVars => GovernorInv'
<1> SUFFICES ASSUME GovernorInv, [GovernorNext]_govVars PROVE GovernorInv'
  OBVIOUS
<1>1. CASE GovernorStep
  <2>1. LedgerInv'
    BY <1>1, GovernorRows, OperatorStep DEF GovernorInv, LedgerInv
  <2>2. PlatformDoubtHalts'
    BY <1>1, GovernorRows DEF GovernorInv, LedgerInv, PlatformDoubtHalts, ScopeOf, AnyInDoubt, opVars
  <2> QED BY <1>1, <2>1, <2>2, GovernorRows DEF GovernorInv, LedgerInv
<1>2. CASE [LedgerNext]_ledgerVars /\ UNCHANGED direct
  <2>1. LedgerInv'
    BY <1>2, LedgerStepInv DEF GovernorInv
  <2>2. ASSUME NEW o \in Ops, state'[o] = "IN_DOUBT", ScopeOf(o)' = Platform
        PROVE  budget'[Platform].stasis
    <3>1. CASE state[o] = "IN_DOUBT"
      <4>1. request'[o] = request[o]
        BY <1>2, <3>1
        DEF GovernorInv, LedgerInv, LedgerTypeOK, LedgerNext, ledgerVars, opVars, ReserveGranted, ReserveDenied, Fresh,
            InsertOperation, StartExecution, Settle, Refund, MarkInDoubt, Reconcile, ApplyTerminal,
            SetTenantCap, ResumeTenant, TripTenant, PassDeadline, RecoverExpired, RecoverBatch
      <4>2. budget[Platform].stasis
        BY <2>2, <3>1, <4>1 DEF GovernorInv, PlatformDoubtHalts, ScopeOf
      <4> QED BY <1>2, <4>2, LedgerKeepsPlatformStasis DEF GovernorInv
    <3>2. CASE state[o] # "IN_DOUBT"
      BY <1>2, <2>2, <3>2, NewDoubtHalts DEF GovernorInv
    <3> QED BY <3>1, <3>2
  <2> QED BY <1>2, <2>1, <2>2 DEF GovernorInv, PlatformDoubtHalts
<1>3. QED
  BY <1>1, <1>2 DEF GovernorNext, govVars

(* So it holds of every behaviour of the two writers.                      *)
THEOREM GovernorInvariant == GovernorSpec => []GovernorInv
  BY GovernorInitInv, GovernorStepInv, PTL DEF GovernorSpec

(* Type correctness of the shared rows.                                    *)
THEOREM GovernorTypeCorrect == GovernorSpec => []GovernorTypeOK
<1>1. GovernorInv => GovernorTypeOK
  BY DEF GovernorInv, LedgerInv, GovernorTypeOK
<1> QED BY <1>1, GovernorInvariant, PTL

(* While a platform operation is in doubt the platform is in STASIS: no    *)
(* interleaving of ledger calls, recovery and governor calls resumes it.   *)
THEOREM PlatformDoubtHaltsAlways == GovernorSpec => []PlatformDoubtHalts
  BY GovernorInvariant, PTL DEF GovernorInv

-----------------------------------------------------------------------------
(* Reaching a cap.                                                         *)

(* The ledger grows a spend by recording a settlement only.                *)
LEMMA LedgerSpends ==
  ASSUME LedgerInv, [LedgerNext]_ledgerVars
  PROVE  \/ \A s \in Scopes : budget'[s].spent = budget[s].spent
         \/ \E o \in Ops, actual \in Costs : state[o] # "ABSENT" /\ RecordSettlement(o, actual)
  BY LedgerMoney DEF ApplyTerminal

(* Whichever writer takes a scope to its cap leaves it in STASIS: ledger   *)
(* settlements look for the breach in the scope they bill, direct spends   *)
(* in the scope they add to.                                               *)
THEOREM SpendAtCapHaltsAlways == GovernorSpec => SpendAtCapHalts
<1> DEFINE OwnSpend(s) == s = Platform => \A t \in Tenants : budget'[t].spent = budget[t].spent
<1>1. ASSUME GovernorInv, [GovernorNext]_govVars, NEW s \in Scopes,
             budget'[s].spent > budget[s].spent, budget'[s].spent >= budget'[s].cap, OwnSpend(s)
      PROVE  budget'[s].stasis
  <2>0. budget[s] \in BudgetRow /\ budget[s].spent \in Nat /\ LedgerInv
        /\ (budget[s].stasis => budget[s].trip # NoTrip)
    BY <1>1 DEF GovernorInv, LedgerInv, LedgerTypeOK, BudgetRow
  <2>1. ASSUME NEW o \in Ops, NEW actual \in Costs, state[o] # "ABSENT", RecordSettlement(o, actual)
        PROVE  budget'[s].stasis
    <3>1. actual \in Nat /\ Estimate[request[o]] \in Nat /\ ScopeOf(o) \in Scopes
      BY <2>0, <2>1, ScopeType, LedgerAssumption DEF LedgerInv
    <3>2. budget'[s].spent # budget[s].spent
      BY <1>1, <2>0
    <3>3. s \in {Platform, ScopeOf(o)} /\ actual # 0
      BY <2>0, <2>1, <3>1, <3>2, RecordSettlementType DEF LedgerInv
    <3>4. s = ScopeOf(o)
      <4> SUFFICES ASSUME s = Platform, ScopeOf(o) \in Tenants PROVE FALSE
        BY <3>1, <3>3 DEF Scopes
      <4>1. budget'[ScopeOf(o)].spent = budget[ScopeOf(o)].spent + actual
        BY <2>0, <2>1, <3>1, RecordSettlementType DEF LedgerInv
      <4>2. budget[ScopeOf(o)].spent \in Nat
        BY <2>0, <3>1 DEF LedgerInv, LedgerTypeOK, BudgetRow
      <4> QED BY <1>1, <3>1, <3>3, <4>1, <4>2
    <3> QED BY <1>1, <2>0, <2>1, <3>1, <3>4, RecordSettlementType DEF LedgerInv
  <2>2. CASE [LedgerNext]_ledgerVars
    BY <1>1, <2>0, <2>1, <2>2, LedgerSpends
  <2>3. ASSUME NEW x \in Scopes, NEW code \in TripCodes, WriteTrip(x, code) PROVE FALSE
    BY <1>1, <2>0, <2>3, WriteTripType DEF LedgerInv
  <2>4. ASSUME NEW x \in Scopes, NEW amount \in Amounts, RecordSpend(x, amount)
        PROVE  budget'[s].stasis
    <3> DEFINE row == AfterSpend(budget[s], amount)
    <3>1. amount \in Nat /\ x = s /\ budget'[s] = row
      BY <1>1, <2>0, <2>4, GovernorAssumption DEF RecordSpend, LedgerInv, LedgerTypeOK
    <3>2. /\ row.cap = budget[s].cap /\ row.spent = budget[s].spent + amount
          /\ budget[s].spent + amount >= budget[s].cap => row.stasis
      BY <2>0, <3>1, SpendRow
    <3> HIDE DEF row
    <3> QED BY <1>1, <3>1, <3>2
  <2>5. CASE Resume
    BY <1>1, <2>0, <2>5 DEF Resume, LedgerInv, LedgerTypeOK, BudgetRow
  <2>6. Platform \in Scopes
    BY DEF Scopes
  <2>7. CASE GovernorStep
    BY <2>3, <2>4, <2>5, <2>6, <2>7 DEF GovernorStep, CheckTrips, Trip, TripCodes
  <2>8. CASE UNCHANGED govVars
    BY <2>2, <2>8 DEF govVars
  <2> QED BY <1>1, <2>2, <2>7, <2>8 DEF GovernorNext
<1>2. GovernorInv /\ [GovernorNext]_govVars =>
        [\A s \in Scopes :
           /\ budget'[s].spent > budget[s].spent
           /\ budget'[s].spent >= budget'[s].cap
           /\ s = Platform => \A t \in Tenants : budget'[t].spent = budget[t].spent
           => budget'[s].stasis]_govVars
  BY <1>1
<1> QED BY <1>2, GovernorInvariant, PTL DEF GovernorSpec, SpendAtCapHalts

-----------------------------------------------------------------------------
(* The spend under two writers.                                            *)

(* A governor step adds to a spend what it records as direct, and settles  *)
(* nothing.                                                                *)
LEMMA GovernorSpends ==
  ASSUME GovernorInv, GovernorStep, NEW s \in Scopes
  PROVE  budget'[s].spent + direct[s] = budget[s].spent + direct'[s]
<1>0. /\ LedgerInv /\ Platform \in Scopes /\ direct \in [Scopes -> Nat]
      /\ budget[s] \in BudgetRow /\ budget[s].spent \in Nat /\ (budget[s].stasis => budget[s].trip # NoTrip)
  BY DEF GovernorInv, LedgerInv, LedgerTypeOK, Scopes, BudgetRow
<1>1. ASSUME NEW x \in Scopes, NEW code \in TripCodes, WriteTrip(x, code)
      PROVE  budget'[s].spent = budget[s].spent
  BY <1>0, <1>1, WriteTripType DEF LedgerInv
<1>2. ASSUME NEW x \in Scopes, NEW amount \in Amounts, RecordSpend(x, amount)
      PROVE  budget'[s].spent + direct[s] = budget[s].spent + direct'[s]
  <2>1. /\ amount \in Nat
        /\ direct'[s] = IF s = x THEN direct[s] + amount ELSE direct[s]
        /\ budget'[s] = IF s = x THEN AfterSpend(budget[s], amount) ELSE budget[s]
    BY <1>0, <1>2, GovernorAssumption DEF RecordSpend, LedgerInv, LedgerTypeOK
  <2>2. AfterSpend(budget[s], amount).spent = budget[s].spent + amount
    BY <1>0, <2>1, SpendRow
  <2> QED BY <1>0, <2>1, <2>2
<1>3. CASE Resume
  BY <1>0, <1>3 DEF Resume, LedgerInv, LedgerTypeOK, BudgetRow
<1>4. ASSUME UNCHANGED direct, budget'[s].spent = budget[s].spent
      PROVE  budget'[s].spent + direct[s] = budget[s].spent + direct'[s]
  BY <1>4
<1> QED
  BY <1>0, <1>1, <1>2, <1>3, <1>4 DEF GovernorStep, CheckTrips, Trip, TripCodes

(* With two writers of the same rows every spend is still what was settled *)
(* plus what was recorded directly: no update is lost.                     *)
THEOREM NoSpendLostEver == GovernorSpec => []NoSpendLost
<1> DEFINE Inv == GovernorInv /\ IsFiniteSet(Rows) /\ NoSpendLost
<1>1. GovernorInit => Inv
  <2> SUFFICES ASSUME GovernorInit PROVE Inv
    OBVIOUS
  <2>1. TotalsInv /\ GovernorInv /\ direct = [s \in Scopes |-> 0]
    BY TotalsInit, GovernorInitInv DEF GovernorInit
  <2>2. \A s \in Scopes : budget[s].spent \in Nat
    BY <2>1 DEF TotalsInv, LedgerInv, LedgerTypeOK, BudgetRow
  <2>3. ASSUME NEW s \in Scopes
        PROVE  budget[s].spent = SettledOf(s) + direct[s] + (IF s = Platform THEN InitialSpend ELSE 0)
    <3>1. OpsOf(s) = {}
      BY <2>1 DEF GovernorInit, LedgerInit, OpsOf
    <3>2. SettledOf(s) = 0
      BY <3>1, FS_EmptySet, SumUnfolds DEF SettledOf
    <3> QED BY <2>1, <3>2, LedgerAssumption DEF TotalsInv, SpendMatchesSettlements
  <2> QED BY <2>1, <2>3 DEF TotalsInv, NoSpendLost
<1>2. Inv /\ [GovernorNext]_govVars => Inv'
  <2> SUFFICES ASSUME Inv, [GovernorNext]_govVars PROVE Inv'
    OBVIOUS
  <2>1. GovernorInv'
    BY GovernorStepInv
  <2>2. /\ \A s \in Scopes : budget[s].spent \in Nat /\ direct[s] \in Nat
        /\ \A s \in Scopes : budget'[s].spent \in Nat /\ direct'[s] \in Nat
    BY <2>1 DEF GovernorInv, LedgerInv, LedgerTypeOK, BudgetRow
  <2>3. \A s \in Scopes : SettledOf(s) \in Nat
    <3> SUFFICES ASSUME NEW s \in Scopes PROVE SettledOf(s) \in Nat
      OBVIOUS
    <3>1. IsFiniteSet(OpsOf(s)) /\ \A o \in OpsOf(s) : settled[o] \in Nat
      BY ParticipantsFinite DEF OpsOf, GovernorInv, LedgerInv, LedgerTypeOK
    <3> QED BY <3>1, SumType DEF SettledOf
  <2>4. CASE GovernorStep
    <3>1. UNCHANGED <<opVars, auditVars>>
      BY <2>4, GovernorRows DEF GovernorInv, LedgerInv
    <3>2. Rows' = Rows /\ \A s \in Scopes : SettledOf(s)' = SettledOf(s)
      BY <3>1 DEF opVars, Rows, SettledOf, OpsOf, ScopeOf
    <3>3. ASSUME NEW s \in Scopes
          PROVE  budget'[s].spent = SettledOf(s)' + direct'[s] + (IF s = Platform THEN InitialSpend ELSE 0)
      <4>1. budget[s].spent = SettledOf(s) + direct[s] + (IF s = Platform THEN InitialSpend ELSE 0)
        BY DEF NoSpendLost
      <4>2. budget'[s].spent + direct[s] = budget[s].spent + direct'[s]
        BY <2>4, GovernorSpends
      <4> QED BY <2>2, <2>3, <3>2, <4>1, <4>2, LedgerAssumption
    <3> QED BY <2>1, <3>2, <3>3 DEF NoSpendLost
  <2>5. CASE [LedgerNext]_ledgerVars /\ UNCHANGED direct
    <3>1. /\ IsFiniteSet(Rows')
          /\ \A s \in Scopes : /\ SettledOf(s) \in Nat /\ SettledOf(s)' \in Nat
                               /\ budget'[s].spent + SettledOf(s) = budget[s].spent + SettledOf(s)'
      BY <2>5, SpendStep DEF GovernorInv
    <3>2. ASSUME NEW s \in Scopes
          PROVE  budget'[s].spent = SettledOf(s)' + direct'[s] + (IF s = Platform THEN InitialSpend ELSE 0)
      <4>1. budget[s].spent = SettledOf(s) + direct[s] + (IF s = Platform THEN InitialSpend ELSE 0)
        BY DEF NoSpendLost
      <4> QED BY <2>2, <2>5, <3>1, <4>1, LedgerAssumption
    <3> QED BY <2>1, <3>1, <3>2 DEF NoSpendLost
  <2> QED BY <2>4, <2>5 DEF GovernorNext, govVars
<1> QED BY <1>1, <1>2, PTL DEF GovernorSpec

-----------------------------------------------------------------------------
(* CALLS OF THE EXECUTOR.                                                  *)

(* The inductive invariant.                                                *)

(* A call owns the operation it reserved until it is answered or lost, and *)
(* for good once it invoked the handler.                                   *)
Owner(c) ==
  \/ pc[c] \in {"approving", "refunding", "starting", "dispatching"}
  \/ handler[c] # "none"

(* What is left of an operation whose handler may have run.                *)
Accounted(o) == state[o] \in {"EXECUTING", "SETTLED", "IN_DOUBT"} \/ resolutions[o] = 1
Approved(o) == request[o] \in Dangerous => o \in approvals

(* Where a call is determines its handler.                                 *)
Shape(c) ==
  /\ pc[c] \in {"idle", "approving", "refunding", "starting", "dispatching"} => handler[c] = "none"
  /\ pc[c] = "running" => handler[c] = "running"
  /\ pc[c] = "settling" => handler[c] = "returned"
  /\ pc[c] \in {"doubting", "cancelling", "draining"} => handler[c] # "none"
  /\ answer[c] # NoAnswer => pc[c] \in {"draining", "answered", "crashed"}
  /\ pc[c] = "draining" => answer[c] \in Answers

(* What a call that owns an operation knows of its row.                    *)
Owned(c) ==
  /\ Owner(c) => op[c] \in Ops
  /\ pc[c] \in {"approving", "refunding", "starting"} =>
       state[op[c]] \in {"RESERVED", "REFUNDED"} /\ resolutions[op[c]] = 0
  /\ pc[c] = "dispatching" \/ handler[c] # "none" => Accounted(op[c])
  /\ pc[c] \in {"starting", "dispatching"} \/ handler[c] # "none" => Approved(op[c])

(* What an answer says of the row it was read from.                        *)
Told(c) ==
  LET o == op[c]
  IN /\ answer[c] = "OK" => o \in Ops /\ state[o] = "SETTLED" /\ resolutions[o] = 0
     /\ answer[c] = "NOT_RUN" => o \in Ops /\ state[o] = "REFUNDED" /\ resolutions[o] = 0
     /\ answer[c] = "BUDGET_DENIED" => o \in Ops /\ state[o] = "DENIED"
     /\ answer[c] = "OPERATION_RECONCILED" => o \in Ops /\ resolutions[o] = 1
     /\ answer[c] = "OPERATION_IN_DOUBT" /\ handler[c] # "none" =>
          state[o] = "IN_DOUBT" \/ resolutions[o] = 1

CallInv(c) == Shape(c) /\ Owned(c) /\ Told(c)

(* No two calls own one operation: a retry is answered from the row.       *)
SoleOwner == \A c, d \in Calls : Owner(c) /\ Owner(d) /\ op[c] = op[d] => c = d

ExecInv ==
  /\ GovernorInv
  /\ ExecTypeOK
  /\ \A c \in Calls : CallInv(c)
  /\ SoleOwner
  /\ SettledMeansReturned

-----------------------------------------------------------------------------
(* The executor uses the ledger and the governor as they are.              *)

(* A row that exists has a request, whose reservation is a cost.           *)
LEMMA RowRequest ==
  ASSUME LedgerTypeOK, NEW o \in Ops, state[o] # "ABSENT"
  PROVE  request[o] \in Requests /\ Estimate[request[o]] \in Costs
  BY ScopeType, ExecutorAssumption

(* Every step of the executor is a step of the ledger or the governor, or  *)
(* leaves their rows alone.                                                *)
LEMMA ExecUsesLedger ==
  ASSUME LedgerTypeOK, ExecTypeOK, \A c \in Calls : CallInv(c), [ExecNext]_execVars
  PROVE  [GovernorNext]_govVars
<1> DEFINE Uses == (LedgerNext /\ UNCHANGED direct) \/ UNCHANGED govVars
<1>1. ASSUME NEW c \in Calls, NEW o \in Ops, NEW r \in Requests,
             CallReserved(c, o, r) \/ CallDenied(c, o, r)
      PROVE  Uses
  BY <1>1 DEF CallReserved, CallDenied, LedgerNext
<1>2. ASSUME NEW c \in Calls, pc[c] \in {"refunding", "starting"}
      PROVE  op[c] \in Ops /\ request[op[c]] \in Requests
  BY <1>2, RowRequest DEF CallInv, Owned, Owner
<1>3. ASSUME NEW c \in Calls, RefundReserved(c) PROVE Uses
  BY <1>2, <1>3 DEF RefundReserved, LedgerNext
<1>4. ASSUME NEW c \in Calls, Start(c) PROVE Uses
  BY <1>2, <1>4 DEF Start, LedgerNext
<1>5. ASSUME NEW c \in Calls, op[c] \in Ops, SettleReserved(c) PROVE Uses
  BY <1>5, RowRequest DEF SettleReserved, Settle, LedgerNext
<1>6. ASSUME NEW c \in Calls, op[c] \in Ops, MarkExecutionInDoubt(c) PROVE Uses
  BY <1>6, RowRequest DEF MarkExecutionInDoubt, MarkedInDoubt, MarkInDoubt, LedgerNext
<1>7. ASSUME NEW c \in Calls,
             pc[c] \in {"settling", "doubting", "cancelling"}
      PROVE  op[c] \in Ops
  BY <1>7 DEF CallInv, Shape, Owned, Owner
<1>8. ASSUME NEW c \in Calls, Approve(c) \/ Proceed(c) PROVE Uses
  BY <1>3, <1>4, <1>5, <1>6, <1>7, <1>8
  DEF Proceed, Approve, Dispatch, TimeOut, SettleReserved, MarkExecutionInDoubt
<1>9. CASE Reap \/ \E o \in Ops : Tick(o)
  BY <1>9 DEF Reap, Tick, LedgerNext, GovernorNext
<1>10. CASE Operator
  BY <1>10 DEF Operator, LedgerNext, GovernorNext, GovernorStep, TripCodes
<1> QED
  BY <1>1, <1>8, <1>9, <1>10
  DEF ExecNext, CallKnown, CallUnavailable, CancelRunning, Crash, HandlerEnds,
      execVars, GovernorNext

-----------------------------------------------------------------------------
(* What a step may do to a row, and to the calls that do not take it.      *)

(* The changes of a row that no call makes on behalf of its owner: refund  *)
(* before dispatch, doubt, and a human's resolution.                       *)
Quiet(o) ==
  /\ request'[o] = request[o]
  /\ \/ state'[o] = state[o] /\ resolutions'[o] = resolutions[o]
     \/ state[o] = "RESERVED" /\ state'[o] = "REFUNDED" /\ resolutions'[o] = resolutions[o]
     \/ state[o] = "EXECUTING" /\ state'[o] = "IN_DOUBT" /\ resolutions'[o] = resolutions[o]
     \/ /\ state[o] = "IN_DOUBT" /\ state'[o] \in {"SETTLED", "REFUNDED"}
        /\ resolutions'[o] = resolutions[o] + 1

(* A call that takes no step.                                              *)
Passive(c) ==
  pc'[c] = pc[c] /\ op'[c] = op[c] /\ answer'[c] = answer[c] /\ handler'[c] = handler[c]

(* An operation that a call owns has a row.                                *)
LEMMA OwnerRow ==
  ASSUME LedgerInv, NEW c \in Calls, CallInv(c), Owner(c)
  PROVE  op[c] \in Ops /\ state[op[c]] # "ABSENT"
<1>1. op[c] \in Ops
  BY DEF CallInv, Owned
<1>2. resolutions[op[c]] = 1 => state[op[c]] # "ABSENT"
  BY <1>1 DEF LedgerInv, OneOutcomePerOperation
<1> QED
  BY <1>1, <1>2 DEF CallInv, Owned, Owner, Accounted

(* A call that takes no step keeps what it knows, when nobody but itself   *)
(* dispatches or settles its operation and rows that ended stay as they are. *)
LEMMA PassiveCall ==
  ASSUME LedgerInv, NEW c \in Calls, CallInv(c), Passive(c), approvals \subseteq approvals',
         Owner(c) => Quiet(op[c]),
         op[c] \in Ops /\ state[op[c]] \in FinalStates => Quiet(op[c])
  PROVE  CallInv(c)'
<1> USE DEF CallInv, Passive
<1>1. Shape(c)'
  BY DEF Shape
<1>2. op[c] \in Ops =>
        /\ resolutions[op[c]] \in Nat
        /\ resolutions[op[c]] = 1 => state[op[c]] \in {"SETTLED", "REFUNDED"}
        /\ state[op[c]] = "IN_DOUBT" => resolutions[op[c]] = 0
  BY DEF LedgerInv, LedgerTypeOK, OneOutcomePerOperation
<1>3. Owned(c)'
  BY <1>2 DEF Owned, Owner, Quiet, Accounted, Approved
<1>4. Told(c)'
  BY <1>2 DEF Told, Owned, Owner, Quiet, FinalStates
<1> QED BY <1>1, <1>3, <1>4

(* The other calls keep what they know when one call acts on its own row,  *)
(* or on a row nobody had: an operation has one owner.                     *)
LEMMA OtherCalls ==
  ASSUME LedgerInv, SoleOwner, NEW c \in Calls, NEW d \in Calls, c # d,
         CallInv(c), CallInv(d), Passive(d), approvals \subseteq approvals',
         \A o \in Ops : \/ Quiet(o)
                        \/ state[o] = "ABSENT"
                        \/ Owner(c) /\ o = op[c] /\ state[o] \in {"RESERVED", "EXECUTING"}
  PROVE  CallInv(d)'
<1>1. Owner(d) => Quiet(op[d])
  BY OwnerRow DEF SoleOwner
<1>2. op[d] \in Ops /\ state[op[d]] \in FinalStates => Quiet(op[d])
  BY DEF FinalStates
<1> QED BY <1>1, <1>2, PassiveCall

(* One owner per operation, when a step makes no new owner.                *)
LEMMA SameOwners ==
  ASSUME SoleOwner, \A c \in Calls : Owner(c)' => Owner(c) /\ op'[c] = op[c]
  PROVE  SoleOwner'
<1> SUFFICES ASSUME NEW c \in Calls, NEW d \in Calls, Owner(c)', Owner(d)', op'[c] = op'[d]
             PROVE  c = d
  BY DEF SoleOwner
<1> QED BY DEF SoleOwner

(* A step that settles nothing by itself, or the operation of a handler    *)
(* that returned, keeps every settlement explained.                        *)
LEMMA SettledExplained ==
  ASSUME LedgerInv, SettledMeansReturned,
         \A c \in Calls : handler[c] = "returned" => handler'[c] = "returned" /\ op'[c] = op[c],
         \A o \in Ops : \/ Quiet(o)
                        \/ state'[o] # "SETTLED"
                        \/ \E c \in Calls : op[c] = o /\ handler[c] = "returned"
  PROVE  SettledMeansReturned'
<1> SUFFICES ASSUME NEW o \in Ops, state'[o] = "SETTLED", resolutions'[o] = 0
             PROVE  \E c \in Calls : op'[c] = o /\ handler'[c] = "returned"
  BY DEF SettledMeansReturned, Invoked
<1>1. CASE Quiet(o)
  <2>1. state[o] = "SETTLED" /\ resolutions[o] = 0
    BY <1>1 DEF Quiet, LedgerInv, LedgerTypeOK
  <2> QED BY <2>1 DEF SettledMeansReturned, Invoked
<1>2. CASE \E c \in Calls : op[c] = o /\ handler[c] = "returned"
  BY <1>2
<1> QED BY <1>1, <1>2

-----------------------------------------------------------------------------
(* The rows a step changes.                                                *)

(* A step that leaves the rows leaves each of them.                        *)
LEMMA UnchangedQuiet ==
  ASSUME UNCHANGED govVars
  PROVE  \A o \in Ops : Quiet(o)
  BY DEF govVars, ledgerVars, opVars, auditVars, Quiet

(* The reaper, the clock and the operator change rows quietly.             *)
LEMMA EnvironmentQuiet ==
  ASSUME LedgerInv, Reap \/ (\E o \in Ops : Tick(o)) \/ Operator
  PROVE  UNCHANGED callVars /\ \A o \in Ops : Quiet(o)
<1> USE DEF LedgerInv, LedgerTypeOK
<1>1. CASE Reap
  <2>1. PICK batch \in SUBSET Overdue : RecoverBatch(batch)
    BY <1>1 DEF Reap, RecoverExpired
  <2>2. \A o \in batch : state[o] \in {"RESERVED", "EXECUTING"}
    BY <2>1 DEF Overdue
  <2> QED BY <1>1, <2>1, <2>2 DEF Reap, RecoverBatch, Quiet
<1>2. CASE \E o \in Ops : Tick(o)
  BY <1>2 DEF Tick, PassDeadline, auditVars, Quiet
<1>3. CASE Operator
  <2>1. CASE Resume \/ Trip("LOGIC_BLOCKER")
    BY <1>3, <2>1 DEF Operator, Resume, Trip, untouched, opVars, auditVars, Quiet
  <2>2. ASSUME NEW o \in Ops, NEW final \in {"REFUNDED", "SETTLED"}, NEW actual,
               Reconcile(o, final, actual)
        PROVE  \A p \in Ops : Quiet(p)
    BY <2>2 DEF Reconcile, ApplyTerminal, Quiet
  <2> QED BY <1>3, <2>1, <2>2 DEF Operator
<1> QED BY <1>1, <1>2, <1>3

(* A reservation changes the row it inserts.                               *)
LEMMA ReservedRow ==
  ASSUME LedgerInv, NEW o \in Ops, NEW r, NEW initial, NEW late,
         InsertOperation(o, r, initial, late)
  PROVE  /\ request'[o] = r /\ state'[o] = initial /\ resolutions' = resolutions
         /\ \A p \in Ops \ {o} : Quiet(p)
  BY DEF LedgerInv, LedgerTypeOK, InsertOperation, Quiet

(* A dispatch, a settlement, a refund and a doubt change the row of their  *)
(* operation, the last two quietly.                                        *)
LEMMA OwnRow ==
  ASSUME LedgerInv, NEW o \in Ops
  PROVE  /\ StartExecution(o, request[o]) =>
              /\ state[o] = "RESERVED" /\ state'[o] = "EXECUTING"
              /\ request'[o] = request[o] /\ \A p \in Ops \ {o} : Quiet(p)
         /\ \A actual : Settle(o, request[o], actual) =>
              /\ state[o] = "EXECUTING" /\ state'[o] = "SETTLED"
              /\ request'[o] = request[o] /\ resolutions'[o] = resolutions[o]
              /\ \A p \in Ops \ {o} : Quiet(p)
         /\ Refund(o, request[o], FALSE) =>
              /\ state'[o] = "REFUNDED" /\ resolutions'[o] = resolutions[o]
              /\ \A p \in Ops : Quiet(p)
         /\ MarkInDoubt(o, request[o]) =>
              state'[o] = "IN_DOUBT" /\ \A p \in Ops : Quiet(p)
<1> USE DEF LedgerInv, LedgerTypeOK, Quiet
<1>1. ASSUME StartExecution(o, request[o])
      PROVE  /\ state[o] = "RESERVED" /\ state'[o] = "EXECUTING"
             /\ request'[o] = request[o] /\ \A p \in Ops \ {o} : Quiet(p)
  BY <1>1 DEF StartExecution, auditVars
<1>2. ASSUME NEW actual, Settle(o, request[o], actual)
      PROVE  /\ state[o] = "EXECUTING" /\ state'[o] = "SETTLED"
             /\ request'[o] = request[o] /\ resolutions'[o] = resolutions[o]
             /\ \A p \in Ops \ {o} : Quiet(p)
  BY <1>2 DEF Settle, ApplyTerminal
<1>3. ASSUME Refund(o, request[o], FALSE)
      PROVE  /\ state'[o] = "REFUNDED" /\ resolutions'[o] = resolutions[o]
             /\ \A p \in Ops : Quiet(p)
  BY <1>3 DEF Refund, ApplyTerminal
<1>4. ASSUME MarkInDoubt(o, request[o])
      PROVE  state'[o] = "IN_DOUBT" /\ \A p \in Ops : Quiet(p)
  BY <1>4 DEF MarkInDoubt
<1> QED BY <1>1, <1>2, <1>3, <1>4

-----------------------------------------------------------------------------
(* One step per action: what the call that takes it does and knows.        *)

(* A step of call c: the others wait, c becomes the owner of a new row     *)
(* only, and the one row it changes other than quietly is its own or new.  *)
Acts(c) ==
  /\ \A d \in Calls \ {c} : Passive(d)
  /\ approvals \subseteq approvals'
  /\ handler[c] = "returned" => handler'[c] = "returned" /\ op'[c] = op[c]
  /\ Owner(c)' => \/ Owner(c) /\ op'[c] = op[c]
                  \/ op'[c] \in Ops /\ state[op'[c]] = "ABSENT"
  /\ \A o \in Ops :
       \/ Quiet(o)
       \/ state[o] = "ABSENT" /\ state'[o] # "SETTLED"
       \/ /\ Owner(c) /\ o = op[c] /\ state[o] \in {"RESERVED", "EXECUTING"}
          /\ state'[o] = "SETTLED" => handler[c] = "returned"

CallsInv == ExecTypeOK /\ (\A c \in Calls : CallInv(c)) /\ SoleOwner /\ SettledMeansReturned

(* Such a step keeps the invariant when the call itself keeps its part.    *)
LEMMA ActorStep ==
  ASSUME ExecInv, NEW c \in Calls, Acts(c), ExecTypeOK', CallInv(c)'
  PROVE  CallsInv'
<1>1. LedgerInv /\ SoleOwner /\ SettledMeansReturned /\ \A d \in Calls : CallInv(d)
  BY DEF ExecInv, GovernorInv
<1>2. ASSUME NEW d \in Calls, c # d PROVE CallInv(d)'
  <2>1. Passive(d) /\ approvals \subseteq approvals'
    BY <1>2 DEF Acts
  <2>2. \A o \in Ops : \/ Quiet(o)
                       \/ state[o] = "ABSENT"
                       \/ Owner(c) /\ o = op[c] /\ state[o] \in {"RESERVED", "EXECUTING"}
    BY DEF Acts
  <2> QED BY <1>1, <1>2, <2>1, <2>2, OtherCalls
<1>3. SoleOwner'
  <2>1. ASSUME NEW d \in Calls, c # d, Owner(d)' PROVE Owner(d) /\ op'[d] = op[d]
    BY <2>1 DEF Acts, Passive, Owner
  <2>2. CASE Owner(c)' => Owner(c) /\ op'[c] = op[c]
    BY <1>1, <2>1, <2>2, SameOwners
  <2>3. CASE op'[c] \in Ops /\ state[op'[c]] = "ABSENT"
    BY <1>1, <2>1, <2>3, OwnerRow DEF SoleOwner
  <2> QED BY <2>2, <2>3 DEF Acts
<1>4. SettledMeansReturned'
  <2>1. \A d \in Calls : handler[d] = "returned" => handler'[d] = "returned" /\ op'[d] = op[d]
    BY DEF Acts, Passive
  <2>2. \A o \in Ops : \/ Quiet(o)
                       \/ state'[o] # "SETTLED"
                       \/ \E d \in Calls : op[d] = o /\ handler[d] = "returned"
    BY DEF Acts
  <2> QED BY <1>1, <2>1, <2>2, SettledExplained
<1> QED BY <1>2, <1>3, <1>4 DEF CallsInv

(* A reservation makes its call the owner of the row it inserts.           *)
LEMMA CallReservedStep ==
  ASSUME ExecInv, NEW c \in Calls, NEW o \in Ops, NEW r \in Requests, CallReserved(c, o, r)
  PROVE  Acts(c) /\ ExecTypeOK' /\ CallInv(c)'
<1> USE DEF ExecInv, GovernorInv
<1>1. LedgerInv /\ CallInv(c) /\ ExecTypeOK /\ resolutions[o] = 0 /\ state[o] = "ABSENT"
  BY DEF CallReserved, ReserveGranted, Fresh, LedgerInv, LedgerTypeOK, OneOutcomePerOperation
<1>2. /\ request'[o] = r /\ state'[o] = "RESERVED" /\ resolutions' = resolutions
      /\ \A p \in Ops \ {o} : Quiet(p)
  BY <1>1, ReservedRow DEF CallReserved, ReserveGranted
<1>3. PICK place \in AfterReserve(r) : pc' = [pc EXCEPT ![c] = place]
  BY DEF CallReserved, Goto
<1>4. /\ pc[c] = "idle" /\ handler[c] = "none" /\ answer[c] = NoAnswer
      /\ op' = [op EXCEPT ![c] = o] /\ answer' = answer /\ handler' = handler
      /\ approvals' = approvals
  BY <1>1 DEF CallReserved, CallInv, Shape
<1>5. ExecTypeOK'
  BY <1>1, <1>3, <1>4 DEF ExecTypeOK, AfterReserve, Places
<1>6. Acts(c)
  BY <1>1, <1>2, <1>3, <1>4 DEF Acts, Passive, ExecTypeOK
<1>7. CallInv(c)'
  BY <1>1, <1>2, <1>3, <1>4
  DEF CallInv, Shape, Owned, Told, Owner, Approved, Accounted, AfterReserve, NoAnswer, ExecTypeOK
<1> QED BY <1>5, <1>6, <1>7

(* A denial inserts a row that nobody owns.                                *)
LEMMA CallDeniedStep ==
  ASSUME ExecInv, NEW c \in Calls, NEW o \in Ops, NEW r \in Requests, CallDenied(c, o, r)
  PROVE  Acts(c) /\ ExecTypeOK' /\ CallInv(c)'
<1> USE DEF ExecInv, GovernorInv
<1>1. LedgerInv /\ CallInv(c) /\ ExecTypeOK /\ state[o] = "ABSENT"
  BY DEF CallDenied, ReserveDenied, Fresh
<1>2. state'[o] = "DENIED" /\ \A p \in Ops \ {o} : Quiet(p)
  BY <1>1, ReservedRow DEF CallDenied, ReserveDenied
<1>3. /\ pc[c] = "idle" /\ handler[c] = "none"
      /\ pc' = [pc EXCEPT ![c] = "answered"] /\ answer' = [answer EXCEPT ![c] = "BUDGET_DENIED"]
      /\ op' = [op EXCEPT ![c] = o] /\ handler' = handler /\ approvals' = approvals
  BY <1>1 DEF CallDenied, CallInv, Shape, Reply, Goto
<1>4. ExecTypeOK'
  BY <1>1, <1>3 DEF ExecTypeOK, Places, Answers
<1>5. Acts(c)
  BY <1>1, <1>2, <1>3 DEF Acts, Passive, ExecTypeOK, Owner
<1>6. CallInv(c)'
  BY <1>1, <1>2, <1>3 DEF CallInv, Shape, Owned, Told, Owner, ExecTypeOK
<1> QED BY <1>4, <1>5, <1>6

(* What the row of an active or ended operation answers is true of it.     *)
LEMMA StoredResultTrue ==
  ASSUME LedgerInv, NEW o \in Ops, state[o] \in FinalStates
  PROVE  /\ StoredResult(o) \in {"OK", "NOT_RUN", "BUDGET_DENIED", "OPERATION_RECONCILED"}
         /\ StoredResult(o) = "OK" => state[o] = "SETTLED" /\ resolutions[o] = 0
         /\ StoredResult(o) = "NOT_RUN" => state[o] = "REFUNDED" /\ resolutions[o] = 0
         /\ StoredResult(o) = "BUDGET_DENIED" => state[o] = "DENIED"
         /\ StoredResult(o) = "OPERATION_RECONCILED" => resolutions[o] = 1
<1>1. resolutions[o] \in {0, 1}
  BY DEF LedgerInv, LedgerTypeOK, OneOutcomePerOperation
<1> QED BY <1>1 DEF StoredResult, FinalStates

(* A retry is answered from the row of its operation or of its sibling.    *)
LEMMA CallKnownStep ==
  ASSUME ExecInv, NEW c \in Calls, NEW o \in Ops, NEW r \in Requests, CallKnown(c, o, r)
  PROVE  Acts(c) /\ ExecTypeOK' /\ CallInv(c)'
<1>1. LedgerInv /\ CallInv(c) /\ ExecTypeOK
  BY DEF ExecInv, GovernorInv
<1>2. \A p \in Ops : Quiet(p)
  BY UnchangedQuiet DEF CallKnown
<1>3. PICK p \in Ops :
        /\ state[p] # "ABSENT" /\ op' = [op EXCEPT ![c] = p]
        /\ pc' = [pc EXCEPT ![c] = "answered"]
        /\ answer' = [answer EXCEPT ![c] = AnswerFor(p, r)]
  BY DEF CallKnown, Reply, Goto, Siblings, Active, ActiveStates
<1>4. pc[c] = "idle" /\ handler[c] = "none" /\ handler' = handler /\ approvals' = approvals
  BY <1>1 DEF CallKnown, CallInv, Shape
<1>5. \/ AnswerFor(p, r) \in {"IDEMPOTENCY_CONFLICT", "OPERATION_IN_DOUBT", "OPERATION_IN_PROGRESS"}
      \/ AnswerFor(p, r) = StoredResult(p) /\ state[p] \in FinalStates
  <2>1. state[p] \in States
    BY <1>1 DEF LedgerInv, LedgerTypeOK
  <2>2. \/ Classify(p, r) \in {"conflict", "in_doubt", "in_progress"}
        \/ Classify(p, r) = "replay" /\ state[p] \in FinalStates
    BY <1>3, <2>1 DEF Classify, States, ActiveStates
  <2> QED BY <2>2 DEF AnswerFor
<1>6. ExecTypeOK'
  BY <1>1, <1>3, <1>4, <1>5, StoredResultTrue DEF ExecTypeOK, Places, Answers
<1>7. Acts(c)
  BY <1>1, <1>2, <1>3, <1>4 DEF Acts, Passive, ExecTypeOK, Owner
<1>8. Told(c)'
  <2>1. /\ op'[c] = p /\ answer'[c] = AnswerFor(p, r) /\ handler'[c] = "none"
        /\ state' = state /\ resolutions' = resolutions
    BY <1>1, <1>3, <1>4 DEF ExecTypeOK, CallKnown, govVars, ledgerVars, opVars, auditVars
  <2>2. CASE AnswerFor(p, r) \in
               {"IDEMPOTENCY_CONFLICT", "OPERATION_IN_DOUBT", "OPERATION_IN_PROGRESS"}
    BY <2>1, <2>2 DEF Told
  <2>3. CASE AnswerFor(p, r) = StoredResult(p) /\ state[p] \in FinalStates
    BY <1>1, <2>1, <2>3, StoredResultTrue DEF Told
  <2> QED BY <1>5, <2>2, <2>3
<1>9. Shape(c)' /\ Owned(c)'
  BY <1>1, <1>3, <1>4 DEF Shape, Owned, Owner, ExecTypeOK
<1> QED BY <1>6, <1>7, <1>8, <1>9 DEF CallInv

(* The steps of a call that leave the rows alone.                          *)
LEMMA LocalStep ==
  ASSUME ExecInv, NEW c \in Calls,
         \/ CallUnavailable(c) \/ Approve(c) \/ Dispatch(c) \/ TimeOut(c) \/ CancelRunning(c)
         \/ Crash(c) \/ \E how \in {"returned", "threw"} : HandlerEnds(c, how)
  PROVE  Acts(c) /\ ExecTypeOK' /\ CallInv(c)'
<1>1. LedgerInv /\ Shape(c) /\ Owned(c) /\ Told(c) /\ ExecTypeOK
  BY DEF ExecInv, GovernorInv, CallInv
<1>2. UNCHANGED govVars
  BY DEF CallUnavailable, Approve, Dispatch, TimeOut, CancelRunning, Crash, HandlerEnds
<1>3. (\A o \in Ops : Quiet(o)) /\ UNCHANGED <<state, request, resolutions>>
  BY <1>2, UnchangedQuiet DEF govVars, ledgerVars, opVars, auditVars
<1> USE DEF Acts, Passive, ExecTypeOK, CallInv, Shape, Owned, Told, Owner, Approved, Accounted,
            Places, Goto
<1>4. CASE CallUnavailable(c)
  BY <1>1, <1>3, <1>4 DEF CallUnavailable, Reply, Answers
<1>5. CASE Approve(c)
  BY <1>1, <1>3, <1>5 DEF Approve
<1>6. CASE Dispatch(c)
  BY <1>1, <1>3, <1>6 DEF Dispatch, NoAnswer
<1>7. CASE TimeOut(c) \/ CancelRunning(c)
  BY <1>1, <1>3, <1>7 DEF TimeOut, CancelRunning
<1>8. CASE Crash(c)
  BY <1>1, <1>3, <1>8 DEF Crash
<1>9. ASSUME NEW how \in {"returned", "threw"}, HandlerEnds(c, how)
      PROVE  Acts(c) /\ ExecTypeOK' /\ CallInv(c)'
  BY <1>1, <1>3, <1>9 DEF HandlerEnds
<1> QED BY <1>4, <1>5, <1>6, <1>7, <1>8, <1>9

(* A refund before dispatch ends the call and its operation, or not at all.*)
LEMMA RefundReservedStep ==
  ASSUME ExecInv, NEW c \in Calls, RefundReserved(c)
  PROVE  Acts(c) /\ ExecTypeOK' /\ CallInv(c)'
<1>1. LedgerInv /\ Shape(c) /\ Owned(c) /\ Told(c) /\ ExecTypeOK
  BY DEF ExecInv, GovernorInv, CallInv
<1>2. /\ pc[c] = "refunding" /\ handler[c] = "none" /\ op[c] \in Ops
      /\ state[op[c]] \in {"RESERVED", "REFUNDED"} /\ resolutions[op[c]] = 0
  BY <1>1 DEF RefundReserved, Shape, Owned, Owner
<1>3. PICK a \in {"NOT_RUN", "LEDGER_UNAVAILABLE"} :
        /\ answer' = [answer EXCEPT ![c] = a]
        /\ pc' = [pc EXCEPT ![c] = "answered"]
        /\ op' = op /\ handler' = handler /\ approvals' = approvals
        /\ a = "NOT_RUN" => state'[op[c]] = "REFUNDED" /\ resolutions'[op[c]] = 0
        /\ \A o \in Ops : Quiet(o)
  <2>1. CASE Refund(op[c], request[op[c]], FALSE) /\ Reply(c, "NOT_RUN")
    BY <1>1, <1>2, <2>1, OwnRow DEF RefundReserved, Reply, Goto
  <2>2. CASE state[op[c]] = "REFUNDED" /\ UNCHANGED govVars /\ Reply(c, StoredResult(op[c]))
    <3>1. StoredResult(op[c]) = "NOT_RUN"
      BY <1>2, <2>2 DEF StoredResult
    <3> QED BY <1>2, <2>2, <3>1, UnchangedQuiet
            DEF RefundReserved, Reply, Goto, govVars, ledgerVars, opVars, auditVars
  <2>3. CASE UNCHANGED govVars /\ Reply(c, "LEDGER_UNAVAILABLE")
    BY <2>3, UnchangedQuiet DEF RefundReserved, Reply, Goto
  <2> QED BY <2>1, <2>2, <2>3 DEF RefundReserved
<1>4. ExecTypeOK'
  BY <1>1, <1>3 DEF ExecTypeOK, Places, Answers
<1>5. Acts(c)
  BY <1>1, <1>2, <1>3 DEF Acts, Passive, Owner, ExecTypeOK
<1>6. CallInv(c)'
  BY <1>1, <1>2, <1>3 DEF CallInv, Shape, Owned, Told, Owner, ExecTypeOK
<1> QED BY <1>4, <1>5, <1>6

(* A dispatch: the operation executes, or the call goes on to refund it.   *)
LEMMA DispatchStep ==
  ASSUME ExecInv, NEW c \in Calls, Start(c)
  PROVE  Acts(c) /\ ExecTypeOK' /\ CallInv(c)'
<1>1. LedgerInv /\ Shape(c) /\ Owned(c) /\ Told(c) /\ ExecTypeOK
  BY DEF ExecInv, GovernorInv, CallInv
<1>2. /\ pc[c] = "starting" /\ handler[c] = "none" /\ op[c] \in Ops /\ answer[c] = NoAnswer
      /\ state[op[c]] \in {"RESERVED", "REFUNDED"} /\ resolutions[op[c]] = 0
      /\ Approved(op[c])
      /\ op' = op /\ answer' = answer /\ handler' = handler /\ approvals' = approvals
  BY <1>1 DEF Start, Shape, Owned, Owner
<1>3. CASE StartExecution(op[c], request[op[c]]) /\ Goto(c, "dispatching")
  <2>1. /\ state[op[c]] = "RESERVED" /\ state'[op[c]] = "EXECUTING"
        /\ request'[op[c]] = request[op[c]] /\ \A p \in Ops \ {op[c]} : Quiet(p)
        /\ pc' = [pc EXCEPT ![c] = "dispatching"]
    BY <1>1, <1>2, <1>3, OwnRow DEF Goto
  <2>2. ExecTypeOK'
    BY <1>1, <1>2, <2>1 DEF ExecTypeOK, Places
  <2>3. Acts(c)
    BY <1>1, <1>2, <2>1 DEF Acts, Passive, Owner, ExecTypeOK
  <2>4. CallInv(c)'
    BY <1>1, <1>2, <2>1
    DEF CallInv, Shape, Owned, Told, Owner, Accounted, Approved, NoAnswer, ExecTypeOK
  <2> QED BY <2>2, <2>3, <2>4
<1>4. CASE UNCHANGED govVars /\ Goto(c, "refunding")
  <2>1. pc' = [pc EXCEPT ![c] = "refunding"] /\ \A o \in Ops : Quiet(o)
    BY <1>4, UnchangedQuiet DEF Goto
  <2>2. UNCHANGED <<state, request, resolutions>>
    BY <1>4 DEF govVars, ledgerVars, opVars, auditVars
  <2>3. ExecTypeOK'
    BY <1>1, <1>2, <2>1 DEF ExecTypeOK, Places
  <2>4. Acts(c)
    BY <1>1, <1>2, <2>1 DEF Acts, Passive, Owner, ExecTypeOK
  <2>5. CallInv(c)'
    BY <1>1, <1>2, <2>1, <2>2
    DEF CallInv, Shape, Owned, Told, Owner, NoAnswer, ExecTypeOK
  <2> QED BY <2>3, <2>4, <2>5
<1> QED BY <1>3, <1>4 DEF Start

(* A settlement charges the operation of a handler that returned.          *)
LEMMA SettleReservedStep ==
  ASSUME ExecInv, NEW c \in Calls, SettleReserved(c)
  PROVE  Acts(c) /\ ExecTypeOK' /\ CallInv(c)'
<1>1. LedgerInv /\ Shape(c) /\ Owned(c) /\ Told(c) /\ ExecTypeOK
  BY DEF ExecInv, GovernorInv, CallInv
<1>2. /\ pc[c] = "settling" /\ handler[c] = "returned" /\ op[c] \in Ops /\ answer[c] = NoAnswer
      /\ Approved(op[c]) /\ Accounted(op[c])
      /\ op' = op /\ handler' = handler /\ approvals' = approvals
  BY <1>1 DEF SettleReserved, Shape, Owned, Owner
<1>3. CASE /\ Settle(op[c], request[op[c]], Estimate[request[op[c]]])
           /\ Reply(c, "OK")
  <2>1. /\ state[op[c]] = "EXECUTING" /\ state'[op[c]] = "SETTLED"
        /\ request'[op[c]] = request[op[c]] /\ resolutions'[op[c]] = resolutions[op[c]]
        /\ \A p \in Ops \ {op[c]} : Quiet(p)
        /\ pc' = [pc EXCEPT ![c] = "answered"] /\ answer' = [answer EXCEPT ![c] = "OK"]
    BY <1>1, <1>2, <1>3, OwnRow DEF Reply, Goto
  <2>2. resolutions[op[c]] = 0
    BY <1>1, <1>2, <2>1 DEF LedgerInv, LedgerTypeOK, OneOutcomePerOperation
  <2>3. ExecTypeOK'
    BY <1>1, <1>2, <2>1 DEF ExecTypeOK, Places, Answers
  <2>4. Acts(c)
    BY <1>1, <1>2, <2>1 DEF Acts, Passive, Owner, ExecTypeOK
  <2>5. CallInv(c)'
    BY <1>1, <1>2, <2>1, <2>2
    DEF CallInv, Shape, Owned, Told, Owner, Accounted, Approved, ExecTypeOK
  <2> QED BY <2>3, <2>4, <2>5
<1>4. ASSUME UNCHANGED govVars
      PROVE  UNCHANGED <<state, request, resolutions>> /\ \A o \in Ops : Quiet(o)
  BY <1>4, UnchangedQuiet DEF govVars, ledgerVars, opVars, auditVars
<1>5. CASE state[op[c]] = "SETTLED" /\ UNCHANGED govVars /\ Reply(c, StoredResult(op[c]))
  <2>1. /\ StoredResult(op[c]) \in {"OK", "OPERATION_RECONCILED"}
        /\ StoredResult(op[c]) = "OK" => resolutions[op[c]] = 0
        /\ StoredResult(op[c]) = "OPERATION_RECONCILED" => resolutions[op[c]] = 1
    BY <1>1, <1>2, <1>5, StoredResultTrue DEF FinalStates
  <2>2. /\ pc' = [pc EXCEPT ![c] = "answered"]
        /\ answer' = [answer EXCEPT ![c] = StoredResult(op[c])]
    BY <1>5 DEF Reply, Goto
  <2>3. ExecTypeOK'
    BY <1>1, <1>2, <2>1, <2>2 DEF ExecTypeOK, Places, Answers
  <2>4. Acts(c)
    BY <1>1, <1>2, <1>4, <1>5, <2>2 DEF Acts, Passive, Owner, ExecTypeOK
  <2>5. CallInv(c)'
    BY <1>1, <1>2, <1>4, <1>5, <2>1, <2>2
    DEF CallInv, Shape, Owned, Told, Owner, Accounted, Approved, ExecTypeOK
  <2> QED BY <2>3, <2>4, <2>5
<1>6. CASE UNCHANGED <<govVars, answer>> /\ Goto(c, "doubting")
  <2>1. pc' = [pc EXCEPT ![c] = "doubting"] /\ answer' = answer
    BY <1>6 DEF Goto
  <2>2. ExecTypeOK'
    BY <1>1, <1>2, <2>1 DEF ExecTypeOK, Places
  <2>3. Acts(c)
    BY <1>1, <1>2, <1>4, <1>6, <2>1 DEF Acts, Passive, Owner, ExecTypeOK
  <2>4. CallInv(c)'
    BY <1>1, <1>2, <1>4, <1>6, <2>1
    DEF CallInv, Shape, Owned, Told, Owner, Accounted, Approved, NoAnswer, ExecTypeOK
  <2> QED BY <2>2, <2>3, <2>4
<1> QED BY <1>3, <1>5, <1>6 DEF SettleReserved

(* The ambiguous end of a dispatched operation.                            *)
LEMMA MarkExecutionInDoubtStep ==
  ASSUME ExecInv, NEW c \in Calls, MarkExecutionInDoubt(c)
  PROVE  Acts(c) /\ ExecTypeOK' /\ CallInv(c)'
<1>1. LedgerInv /\ Shape(c) /\ Owned(c) /\ Told(c) /\ ExecTypeOK
  BY DEF ExecInv, GovernorInv, CallInv
<1>2. /\ pc[c] \in {"doubting", "cancelling"} /\ handler[c] # "none" /\ op[c] \in Ops
      /\ Approved(op[c]) /\ Accounted(op[c])
      /\ op' = op /\ handler' = handler /\ approvals' = approvals
  BY <1>1 DEF MarkExecutionInDoubt, Shape, Owned, Owner
<1>3. PICK a \in {"OPERATION_IN_DOUBT", "LEDGER_UNAVAILABLE"} :
        /\ answer' = [answer EXCEPT ![c] = a]
        /\ a = "OPERATION_IN_DOUBT" => state'[op[c]] = "IN_DOUBT"
        /\ \A o \in Ops : Quiet(o)
  <2>1. CASE MarkInDoubt(op[c], request[op[c]]) /\ answer' = [answer EXCEPT ![c] = "OPERATION_IN_DOUBT"]
    BY <1>1, <1>2, <2>1, OwnRow
  <2>2. CASE UNCHANGED govVars /\ (\/ answer' = [answer EXCEPT ![c] = "LEDGER_UNAVAILABLE"]
                                   \/ /\ state[op[c]] = "IN_DOUBT"
                                      /\ answer' = [answer EXCEPT ![c] = "OPERATION_IN_DOUBT"])
    BY <2>2, UnchangedQuiet DEF govVars, ledgerVars, opVars
  <2> QED BY <2>1, <2>2 DEF MarkExecutionInDoubt, MarkedInDoubt
<1>4. PICK place \in {"draining", "answered"} : pc' = [pc EXCEPT ![c] = place]
  BY DEF MarkExecutionInDoubt, Goto
<1>5. ExecTypeOK'
  BY <1>1, <1>2, <1>3, <1>4 DEF ExecTypeOK, Places, Answers
<1>6. Acts(c)
  BY <1>1, <1>2, <1>3, <1>4 DEF Acts, Passive, Owner, ExecTypeOK
<1>7. Accounted(op[c])' /\ Approved(op[c])'
  BY <1>1, <1>2, <1>3 DEF Accounted, Approved, Quiet, LedgerInv, LedgerTypeOK, OneOutcomePerOperation
<1>8. CallInv(c)'
  BY <1>1, <1>2, <1>3, <1>4, <1>7
  DEF CallInv, Shape, Owned, Told, Owner, Accounted, Approved, Answers, ExecTypeOK
<1> QED BY <1>5, <1>6, <1>8

-----------------------------------------------------------------------------
(* The invariant, and the properties that follow from it.                  *)

(* Nobody has called yet.                                                  *)
LEMMA ExecInitInv == ExecInit => ExecInv
<1> SUFFICES ASSUME ExecInit PROVE ExecInv
  OBVIOUS
<1>1. GovernorInv /\ \A o \in Ops : state[o] = "ABSENT"
  BY GovernorInitInv DEF ExecInit, GovernorInit, LedgerInit
<1>2. ExecTypeOK
  BY DEF ExecInit, ExecTypeOK, Places
<1>3. \A c \in Calls : CallInv(c) /\ ~Owner(c)
  BY DEF ExecInit, CallInv, Shape, Owned, Told, Owner, NoAnswer
<1> QED
  BY <1>1, <1>2, <1>3 DEF ExecInv, SoleOwner, SettledMeansReturned

(* A step that changes no call and rows only quietly keeps the invariant.  *)
LEMMA NobodyActs ==
  ASSUME ExecInv, UNCHANGED callVars, \A o \in Ops : Quiet(o)
  PROVE  CallsInv'
<1>1. LedgerInv /\ \A c \in Calls : CallInv(c)
  BY DEF ExecInv, GovernorInv
<1>2. \A c \in Calls : Passive(c)
  BY DEF callVars, Passive
<1>3. \A c \in Calls : CallInv(c)'
  BY <1>1, <1>2, PassiveCall, OwnerRow DEF callVars
<1>4. SoleOwner'
  BY <1>2, SameOwners DEF ExecInv, Passive, Owner
<1>5. SettledMeansReturned'
  BY <1>1, <1>2, SettledExplained DEF ExecInv, Passive
<1>6. ExecTypeOK'
  BY DEF ExecInv, ExecTypeOK, callVars
<1> QED BY <1>3, <1>4, <1>5, <1>6 DEF CallsInv

(* Every step keeps the invariant.                                         *)
LEMMA ExecStepInv == ExecInv /\ [ExecNext]_execVars => ExecInv'
<1> SUFFICES ASSUME ExecInv, [ExecNext]_execVars PROVE ExecInv'
  OBVIOUS
<1>1. GovernorInv'
  BY ExecUsesLedger, GovernorStepInv DEF ExecInv, GovernorInv, LedgerInv
<1>2. CallsInv'
  <2>1. ASSUME NEW c \in Calls, NEW o \in Ops, NEW r \in Requests,
               CallReserved(c, o, r) \/ CallDenied(c, o, r) \/ CallKnown(c, o, r)
        PROVE  CallsInv'
    BY <2>1, CallReservedStep, CallDeniedStep, CallKnownStep, ActorStep
  <2>2. ASSUME NEW c \in Calls,
               CallUnavailable(c) \/ Approve(c) \/ Proceed(c) \/ CancelRunning(c) \/ Crash(c)
        PROVE  CallsInv'
    BY <2>2, LocalStep, RefundReservedStep, DispatchStep, SettleReservedStep,
       MarkExecutionInDoubtStep, ActorStep DEF Proceed
  <2>3. ASSUME NEW c \in Calls, NEW how \in {"returned", "threw"}, HandlerEnds(c, how)
        PROVE  CallsInv'
    BY <2>3, LocalStep, ActorStep
  <2>4. CASE Reap \/ (\E o \in Ops : Tick(o)) \/ Operator
    BY <2>4, EnvironmentQuiet, NobodyActs DEF ExecInv, GovernorInv
  <2>5. CASE UNCHANGED execVars
    BY <2>5, UnchangedQuiet, NobodyActs DEF execVars
  <2> QED BY <2>1, <2>2, <2>3, <2>4, <2>5 DEF ExecNext
<1> QED BY <1>1, <1>2 DEF ExecInv, CallsInv

(* The executor's inductive invariant holds whatever calls, the reaper and *)
(* the operator do, in any order.                                          *)
THEOREM ExecInvariant == ExecSpec => []ExecInv
  BY ExecInitInv, ExecStepInv, PTL DEF ExecSpec

(* The calls of executeReservedTool, with the reaper and the operator, are *)
(* clients of the ledger and the governor: what is proved of those holds   *)
(* of every system of such calls.                                          *)
THEOREM ExecImplementsGovernor == ExecSpec => GovernorSpec
<1>1. ExecInit => GovernorInit
  BY DEF ExecInit
<1>2. ExecInv /\ [ExecNext]_execVars => [GovernorNext]_govVars
  BY ExecUsesLedger DEF ExecInv, GovernorInv, LedgerInv
<1> QED BY <1>1, <1>2, ExecInvariant, PTL DEF ExecSpec, GovernorSpec

(* Type correctness; a call that returned has an answer.                   *)
THEOREM ExecTypeCorrect == ExecSpec => []ExecTypeOK
<1>1. ExecInv => ExecTypeOK
  BY DEF ExecInv
<1> QED BY <1>1, ExecInvariant, PTL

(* executeReservedTool settles only what its handler returned from.        *)
THEOREM ExecSettlesReturned == ExecSpec => []SettledMeansReturned
<1>1. ExecInv => SettledMeansReturned
  BY DEF ExecInv
<1> QED BY <1>1, ExecInvariant, PTL

(* A handler runs once per operation, approved, and the ledger keeps track *)
(* of it until a human resolves the operation.                             *)
THEOREM ExecDispatchAccounted == ExecSpec => []DispatchAccounted
<1>1. ASSUME ExecInv, NEW o \in Ops, Invoked(o) # {}
      PROVE  /\ Cardinality(Invoked(o)) = 1
             /\ request[o] \in Dangerous => o \in approvals
             /\ state[o] \in {"EXECUTING", "SETTLED", "IN_DOUBT"} \/ resolutions[o] = 1
  <2>1. PICK c \in Calls : op[c] = o /\ handler[c] # "none"
    BY <1>1 DEF Invoked
  <2>2. Invoked(o) = {c}
    BY <1>1, <2>1 DEF Invoked, ExecInv, SoleOwner, Owner
  <2>3. Cardinality(Invoked(o)) = 1
    BY <2>2, FS_Singleton
  <2>4. Accounted(o) /\ Approved(o)
    BY <1>1, <2>1 DEF ExecInv, CallInv, Owned
  <2> QED BY <2>3, <2>4 DEF Accounted, Approved
<1>2. ExecInv => DispatchAccounted
  BY <1>1 DEF DispatchAccounted
<1> QED BY <1>2, ExecInvariant, PTL

(* Two handlers of one request run together only after a human's decision: *)
(* unresolved, both operations would be active with one fingerprint.       *)
THEOREM ExecNoConcurrentEffects == ExecSpec => []NoConcurrentEffects
<1>1. ASSUME ExecInv, NEW c \in Calls, NEW d \in Calls, c # d,
             handler[c] = "running", handler[d] = "running",
             request[op[c]] = request[op[d]]
      PROVE  resolutions[op[c]] + resolutions[op[d]] > 0
  <2>1. /\ op[c] \in Ops /\ op[d] \in Ops /\ op[c] # op[d]
        /\ Accounted(op[c]) /\ Accounted(op[d])
    BY <1>1 DEF ExecInv, CallInv, Owned, Owner, SoleOwner
  <2>2. resolutions[op[c]] \in Nat /\ resolutions[op[d]] \in Nat
    BY <1>1, <2>1 DEF ExecInv, GovernorInv, LedgerInv, LedgerTypeOK
  <2>3. ASSUME NEW e \in {c, d}, resolutions[op[e]] = 0 PROVE Active(op[e])
    <3>1. state[op[e]] # "SETTLED"
      <4> SUFFICES ASSUME state[op[e]] = "SETTLED" PROVE FALSE
        OBVIOUS
      <4>1. PICK f \in Calls : op[f] = op[e] /\ handler[f] = "returned"
        BY <1>1, <2>1, <2>3 DEF ExecInv, SettledMeansReturned, Invoked
      <4>2. f = e
        BY <1>1, <4>1 DEF ExecInv, SoleOwner, Owner
      <4> QED BY <1>1, <4>1, <4>2
    <3> QED BY <2>1, <2>3, <3>1 DEF Accounted, Active, ActiveStates
  <2>4. ~(Active(op[c]) /\ Active(op[d]))
    BY <1>1, <2>1 DEF ExecInv, GovernorInv, LedgerInv, OneActivePerRequest
  <2>5. resolutions[op[c]] # 0 \/ resolutions[op[d]] # 0
    BY <2>3, <2>4
  <2> QED BY <2>2, <2>5
<1>2. ExecInv => NoConcurrentEffects
  BY <1>1 DEF NoConcurrentEffects
<1> QED BY <1>2, ExecInvariant, PTL

(* What a caller was told of its operation is and stays true.              *)
THEOREM ExecTruthfulAnswers == ExecSpec => []TruthfulAnswers
<1>1. ASSUME ExecInv, NEW o \in Ops, \/ state[o] = "REFUNDED" /\ resolutions[o] = 0
                                     \/ state[o] = "DENIED"
      PROVE  Invoked(o) = {}
  <2>1. ~Accounted(o)
    BY <1>1 DEF ExecInv, GovernorInv, LedgerInv, OneOutcomePerOperation, LedgerTypeOK, Accounted
  <2> QED BY <2>1, <1>1 DEF ExecInv, CallInv, Owned, Invoked
<1>2. ASSUME ExecInv, NEW c \in Calls
      PROVE  LET o == op[c]
             IN CASE answer[c] = "OK" -> state[o] = "SETTLED" /\ resolutions[o] = 0
                  [] answer[c] = "NOT_RUN" -> state[o] = "REFUNDED" /\ Invoked(o) = {}
                  [] answer[c] = "BUDGET_DENIED" -> state[o] = "DENIED" /\ Invoked(o) = {}
                  [] answer[c] = "OPERATION_RECONCILED" -> resolutions[o] = 1
                  [] answer[c] = "OPERATION_IN_DOUBT" /\ handler[c] # "none" ->
                       state[o] = "IN_DOUBT" \/ resolutions[o] = 1
                  [] OTHER -> TRUE
  <2>1. Told(c)
    BY <1>2 DEF ExecInv, CallInv
  <2> QED BY <1>1, <1>2, <2>1 DEF Told
<1>3. ExecInv => TruthfulAnswers
  BY <1>2 DEF TruthfulAnswers
<1> QED BY <1>3, ExecInvariant, PTL

=============================================================================
