--------------------------- MODULE MCToolExecutor ---------------------------
(* Values of the executor's constants for TLC.                             *)
EXTENDS ToolExecutor, TLC

CONSTANTS o1, o2, c1, c2, c3

MCTenantOf == [r \in Requests |-> Platform]
MCEstimate == [r \in Requests |-> 1]

(* Operation ids are interchangeable, and so are calls.                    *)
Symmetry == Permutations(Ops) \cup Permutations(Calls)

=============================================================================
