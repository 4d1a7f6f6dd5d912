------------------------------- MODULE Escrow -------------------------------
(***************************************************************************)
(* What the budget ledger promises its callers, without budgets, STASIS,   *)
(* audit rows or deadlines: an operation is free, then held, then running, *)
(* then closed.  It is charged at most once, when it closes and only if it *)
(* ran, and the charge is paid into its owner's account and into the       *)
(* common account; a closed operation never changes again.                 *)
(***************************************************************************)
EXTENDS Naturals

CONSTANTS Ops, Accounts, Platform, Nobody, Costs

VARIABLES
  phase,   \* "free", "held", "running" or "closed"
  owner,   \* the account of each operation, Nobody while it is free
  charge,  \* what each operation was charged
  paid     \* what each account has paid

vars == <<phase, owner, charge, paid>>

Init ==
  /\ phase = [o \in Ops |-> "free"]
  /\ owner = [o \in Ops |-> Nobody]
  /\ charge = [o \in Ops |-> 0]
  /\ paid \in [Accounts -> Nat]

(* The request is accepted, or refused for good.                           *)
Open(o, a) ==
  /\ phase[o] = "free"
  /\ \E p \in {"held", "closed"} : phase' = [phase EXCEPT ![o] = p]
  /\ owner' = [owner EXCEPT ![o] = a]
  /\ UNCHANGED <<charge, paid>>

Run(o) ==
  /\ phase[o] = "held"
  /\ phase' = [phase EXCEPT ![o] = "running"]
  /\ UNCHANGED <<owner, charge, paid>>

(* Operations are let go together, and nobody pays.                        *)
Release(S) ==
  /\ \A o \in S : phase[o] \in {"held", "running"}
  /\ phase' = [o \in Ops |-> IF o \in S THEN "closed" ELSE phase[o]]
  /\ UNCHANGED <<owner, charge, paid>>

Pay(o, c) ==
  /\ phase[o] = "running"
  /\ phase' = [phase EXCEPT ![o] = "closed"]
  /\ charge' = [charge EXCEPT ![o] = c]
  /\ paid' = [a \in Accounts |-> IF a \in {Platform, owner[o]} THEN paid[a] + c ELSE paid[a]]
  /\ UNCHANGED owner

Next ==
  \/ \E o \in Ops, a \in Accounts : Open(o, a)
  \/ \E o \in Ops : Run(o)
  \/ \E S \in SUBSET Ops : Release(S)
  \/ \E o \in Ops, c \in Costs : Pay(o, c)

Spec == Init /\ [][Next]_vars

=============================================================================
