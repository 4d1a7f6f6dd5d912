------------------------------ MODULE Selections ------------------------------
(***************************************************************************)
(* What filtering keeps of a sequence, by position: the form in which the  *)
(* token cache of the request guards, the fixtures of the evidence         *)
(* providers and the features of the commercial map are filtered.          *)
(***************************************************************************)
EXTENDS Integers, FiniteSets

(* What is left of q when only the entries at the positions I stay.        *)
Staying(q, I) ==
  [n \in 1..Cardinality(I) |-> q[CHOOSE i \in I : Cardinality({j \in I : j <= i}) = n]]
=============================================================================
