--------------------------- MODULE MCBudgetLedger ---------------------------
(* Values of the ledger's constants for TLC.                               *)
EXTENDS BudgetLedger, TLC

CONSTANTS o1, o2, o3, a, b

(* A platform request of 1, two requests of 2 by tenant a, one of 1 by b.  *)
MCTenantOf == [r \in Requests |-> CASE r = "rp" -> Platform [] r = "rb" -> b [] OTHER -> a]
MCEstimate == [r \in Requests |-> IF r \in {"ra", "rc"} THEN 2 ELSE 1]

(* Operation ids are interchangeable.                                      *)
OpSymmetry == Permutations(Ops)

=============================================================================
