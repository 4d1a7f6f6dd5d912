------------------------- MODULE MCAnsweredRequests ------------------------
(* The two places of the server where a request waits for the work of      *)
(* others: the executor and the gate of the MCP transport.  focus picks    *)
(* one of them in the initial state and only that one moves, under its     *)
(* own fairness.                                                           *)
EXTENDS ToolExecutor, ExchangeGate, TLC

CONSTANTS o1, o2, c1, c2, x1, x2

VARIABLE focus

MCTenantOf == [r \in Requests |-> Platform]
MCEstimate == [r \in Requests |-> 1]

AnsweredInit ==
  /\ focus \in {"executor", "exchange gate"}
  /\ ExecInit /\ GateInit

AnsweredNext ==
  \/ focus = "executor" /\ ExecNext /\ UNCHANGED <<focus, gateVars>>
  \/ focus = "exchange gate" /\ GateNext /\ UNCHANGED <<focus, execVars>>

AnsweredFairness ==
  \/ focus = "executor" /\ ExecFairness
  \/ focus = "exchange gate" /\ GateFairness

FairAnsweredSpec ==
  /\ AnsweredInit /\ [][AnsweredNext]_<<focus, execVars, gateVars>>
  /\ AnsweredFairness

=============================================================================
