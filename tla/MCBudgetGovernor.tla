-------------------------- MODULE MCBudgetGovernor --------------------------
(* Values of the governor's constants for TLC.                             *)
EXTENDS BudgetGovernor, TLC

CONSTANTS o1, o2, o3, a

MCTenantOf == [r \in Requests |-> IF r = "ra" THEN a ELSE Platform]
MCEstimate == [r \in Requests |-> IF r = "ra" THEN 2 ELSE 1]

(* Operation ids are interchangeable.                                      *)
OpSymmetry == Permutations(Ops)

=============================================================================
