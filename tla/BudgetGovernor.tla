--------------------------- MODULE BudgetGovernor ---------------------------
(***************************************************************************)
(* CapBudgetGovernor (packages/governance/src/budgetGovernor.ts): the      *)
(* second writer of the budget rows.  It shares the SQLite file with the   *)
(* ledger, each of its mutations is one BEGIN IMMEDIATE transaction, and   *)
(* it knows nothing of reservations except in resume.  Calls that throw    *)
(* or that only answer a question are stuttering steps.                    *)
(*                                                                         *)
(* The governor creates the global row, which fixes the cap for good, so   *)
(* LedgerInit is the state its constructor leaves.  setTenantCap and       *)
(* resumeTenant write the rows exactly as the ledger's methods of those    *)
(* names do and are the same actions.                                      *)
(***************************************************************************)
EXTENDS BudgetLedger

CONSTANTS
  Amounts,    \* amounts of direct spends and of checked estimates
  MaxDirect   \* bound on the direct spend of a scope

ASSUME GovernorAssumption == Amounts \subseteq Nat /\ MaxDirect \in Nat

VARIABLE direct  \* history: what recordSpend and recordTenantSpend added

govVars == <<ledgerVars, direct>>
untouched == <<opVars, auditVars>>

-----------------------------------------------------------------------------
(* check and checkTenant: a refusal for want of budget trips the scope.    *)
(* Neither counts what is held.                                            *)
CheckTrips(s, amount) ==
  /\ ~Halted(s)
  /\ budget[s].spent + amount > budget[s].cap
  /\ WriteTrip(s, "BUDGET_BREACH")
  /\ UNCHANGED <<untouched, direct>>

(* trip                                                                    *)
Trip(code) ==
  /\ WriteTrip(Platform, code)
  /\ UNCHANGED <<untouched, direct>>

(* recordSpend and recordTenantSpend: recorded even in STASIS, and a scope *)
(* already in STASIS keeps its trip code.                                  *)
(* Mutants of AfterSpend: no trip code; the spend replaced, not added to.  *)
AfterCodelessSpend(row, amount) ==
  [row EXCEPT !.spent = @ + amount, !.stasis = @ \/ row.spent + amount >= row.cap]

AfterSpendReset(row, amount) == [row EXCEPT !.spent = amount]

AfterSpend(row, amount) ==
  LET spent == row.spent + amount
      shouldTrip == spent >= row.cap /\ ~row.stasis
  IN [row EXCEPT !.spent = spent,
                 !.stasis = @ \/ shouldTrip,
                 !.trip = IF shouldTrip THEN "BUDGET_BREACH" ELSE @]

RecordSpend(s, amount) ==
  /\ direct[s] + amount <= MaxDirect
  /\ budget' = [budget EXCEPT ![s] = AfterSpend(@, amount)]
  /\ direct' = [direct EXCEPT ![s] = @ + amount]
  /\ UNCHANGED untouched

(* Mutant of Resume: doubts are not looked for.                            *)
ResumeAnyway ==
  /\ budget' = [budget EXCEPT ![Platform].stasis = FALSE]
  /\ UNCHANGED <<untouched, direct>>

(* resume, by a human, refused while anything is in doubt.                 *)
Resume ==
  /\ ~AnyInDoubt
  /\ budget' = [budget EXCEPT ![Platform].stasis = FALSE]
  /\ UNCHANGED <<untouched, direct>>

-----------------------------------------------------------------------------
GovernorInit == LedgerInit /\ direct = [s \in Scopes |-> 0]

GovernorStep ==
  \/ \E s \in Scopes, amount \in Amounts : CheckTrips(s, amount) \/ RecordSpend(s, amount)
  \/ \E code \in TripCodes : Trip(code)
  \/ Resume

GovernorNext == (LedgerNext /\ UNCHANGED direct) \/ GovernorStep

GovernorSpec == GovernorInit /\ [][GovernorNext]_govVars

-----------------------------------------------------------------------------
(* Properties.                                                             *)

GovernorTypeOK == LedgerTypeOK /\ direct \in [Scopes -> Nat]

(* The platform stays in STASIS as long as one of its own operations is in *)
(* doubt: no order of recoveries, resumes, checks and settlements lets new *)
(* work be reserved before a human has resolved every such doubt.  Of a    *)
(* tenant's doubts it says nothing (DoubtHaltsScope).                      *)
PlatformDoubtHalts ==
  \A o \in Ops : state[o] = "IN_DOUBT" /\ ScopeOf(o) = Platform => budget[Platform].stasis

(* With two writers of the same rows the spend is still what was settled   *)
(* plus what was recorded directly: no update is lost.                     *)
NoSpendLost ==
  \A s \in Scopes :
    budget[s].spent = SettledOf(s) + direct[s] + (IF s = Platform THEN InitialSpend ELSE 0)

(* No way of spending passes a cap unnoticed: whichever writer takes a     *)
(* scope's spend to its cap leaves the scope in STASIS, except that what a *)
(* tenant settles adds to the platform's spend without tripping it.        *)
SpendAtCapHalts ==
  [][\A s \in Scopes :
       /\ budget'[s].spent > budget[s].spent
       /\ budget'[s].spent >= budget'[s].cap
       /\ s = Platform => \A t \in Tenants : budget'[t].spent = budget[t].spent
       => budget'[s].stasis]_govVars

=============================================================================
