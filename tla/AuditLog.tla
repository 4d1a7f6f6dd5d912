------------------------------ MODULE AuditLog ------------------------------
(***************************************************************************)
(* What the audit store promises (ADR 0044): one append-only log of        *)
(* events.  A prefix may be pruned, at least one event stays, and the same *)
(* step records the pruning in the log.  Nothing else makes a row of the   *)
(* log disappear or change, damage to the file apart.                      *)
(***************************************************************************)
EXTENDS Integers, Sequences, Functions

CONSTANTS
  Payloads,   \* what an event may say
  Pruning     \* the payloads that record a pruning

VARIABLES
  log,        \* every event ever appended, in order
  pruned,     \* length of the prefix that was pruned
  rows        \* position -> payload of the rows that can be read

Init ==
  /\ log \in Seq(Payloads)
  /\ pruned = 0
  /\ rows = log

Append1(e) ==
  /\ log' = Append(log, e)
  /\ rows' = [n \in DOMAIN rows \cup {Len(log')} |-> IF n = Len(log') THEN e ELSE rows[n]]
  /\ UNCHANGED pruned

Prune(c, e) ==
  /\ c \in pruned + 1 .. Len(log) - 1
  /\ log' = Append(log, e)
  /\ pruned' = c
  /\ rows' = [n \in {k \in DOMAIN rows : k > c} \cup {Len(log')} |->
                IF n = Len(log') THEN e ELSE rows[n]]

(* A fault of the file, one row at a time.                                 *)
Damage(n) ==
  /\ n \in DOMAIN rows
  /\ \/ rows' = Restrict(rows, DOMAIN rows \ {n})
     \/ \E e \in Payloads : rows' = [rows EXCEPT ![n] = e]
  /\ UNCHANGED <<log, pruned>>

Next ==
  \/ \E e \in Payloads : Append1(e)
  \/ \E c \in 1 .. Len(log), e \in Pruning : Prune(c, e)
  \/ \E n \in DOMAIN rows : Damage(n)

Spec == Init /\ [][Next]_<<log, pruned, rows>>
=============================================================================
