----------------------------- MODULE AuditChain -----------------------------
(***************************************************************************)
(* The hash-linked audit store of packages/governance: AuditChainStore,    *)
(* SqliteAuditSink, applyAuditRetention and the migration that links the   *)
(* events of older databases.  Several processes (server, MCP server,      *)
(* command line) open the same SQLite file.  A transaction is one step; a  *)
(* verification is one step per SQL statement, because it opens no         *)
(* transaction and other processes write between its statements.           *)
(*                                                                         *)
(* SHA-256 is taken as collision free: a chain hash is the sequence of the *)
(* payloads it commits to, the genesis hash the empty one.  Event ids are  *)
(* unique, so an event is named by its sequence number.                    *)
(***************************************************************************)
EXTENDS Integers, Sequences, FiniteSets, Functions

CONSTANTS
  Writers,          \* processes that append and prune
  MinimumRetained,  \* AuditRetentionPolicy.minimumRetainedEntries
  MaximumPrune,     \* AuditRetentionPolicy.maximumPruneEntries
  Cutoffs,          \* the cutoffs that are asked for
  MaxLegacy,        \* bound on the events the migration finds
  MaxEvents,        \* bound on the events ever appended
  MaxFaults         \* bound on the faults of the file

ASSUME AuditAssumption ==
  /\ MinimumRetained \in Nat \ {0} /\ MaximumPrune \in Nat \ {0}
  /\ Cutoffs \subseteq Nat \ {0}
  /\ MaxLegacy \in Nat /\ MaxEvents \in Nat /\ MaxFaults \in Nat

VARIABLES
  db,         \* the audit tables, see AuditTypeOK
  retaining,  \* writer -> cutoff of the retain call in progress, 0 if none
  audit,      \* the verification in progress, or the last one
  faults      \* faults so far

auditChainVars == <<db, retaining, audit, faults>>

(* An event's payload: the outcome "ok" of a retention, or anything else.  *)
Events == {"entry", "pruned"}

-----------------------------------------------------------------------------
(* appendStorageRow: the head link must exist and carry the head hash.     *)
Appendable(d) ==
  d.state.head > d.state.anchor =>
    /\ d.state.head \in DOMAIN d.links
    /\ d.links[d.state.head].hash = d.state.headHash

(* Mutant of Appended: the new link does not commit to the previous hash.  *)
AppendedUnlinked(d, e) ==
  LET n == d.state.head + 1
      hash == Append(d.state.anchorHash, e)
      link == [previous |-> d.state.anchorHash, payload |-> e, hash |-> hash]
  IN [events |-> [k \in DOMAIN d.events \cup {n} |-> IF k = n THEN e ELSE d.events[k]],
      links |-> [k \in DOMAIN d.links \cup {n} |-> IF k = n THEN link ELSE d.links[k]],
      receipts |-> d.receipts,
      state |-> [d.state EXCEPT !.head = n, !.headHash = hash]]

Appended(d, e) ==
  LET n == d.state.head + 1
      hash == Append(d.state.headHash, e)
      link == [previous |-> d.state.headHash, payload |-> e, hash |-> hash]
  IN [events |-> [k \in DOMAIN d.events \cup {n} |-> IF k = n THEN e ELSE d.events[k]],
      links |-> [k \in DOMAIN d.links \cup {n} |-> IF k = n THEN link ELSE d.links[k]],
      receipts |-> d.receipts,
      state |-> [d.state EXCEPT !.head = n, !.headHash = hash]]

(* The guards of applyAuditRetention that depend on these tables.  It      *)
(* reads the cutoff's link and no other: what it deletes is not verified   *)
(* first.  That an incident (STASIS, an IN_DOUBT operation) or the signer  *)
(* may refuse too is the choice of RetainBlocked.                          *)
Retainable(d, c) ==
  /\ c - d.state.anchor \in 1 .. MaximumPrune
  /\ d.state.head - c >= MinimumRetained
  /\ c \in DOMAIN d.links

(* Mutant of Pruned: the links of the pruned events stay.                  *)
PrunedEventsOnly(d, c) ==
  LET receipt == [from |-> d.state.anchor, fromHash |-> d.state.anchorHash,
                  through |-> c, throughHash |-> d.links[c].hash]
  IN [events |-> Restrict(d.events, {n \in DOMAIN d.events : n > c}),
      links |-> d.links,
      receipts |-> Append(d.receipts, receipt),
      state |-> [d.state EXCEPT !.anchor = c,
                                !.anchorHash = receipt.throughHash,
                                !.receipt = Len(d.receipts) + 1]]

(* The transaction of applyAuditRetention.                                 *)
Pruned(d, c) ==
  LET receipt == [from |-> d.state.anchor, fromHash |-> d.state.anchorHash,
                  through |-> c, throughHash |-> d.links[c].hash]
      chained == {n \in DOMAIN d.links : n <= c}
  IN [events |-> Restrict(d.events, DOMAIN d.events \ chained),
      links |-> Restrict(d.links, DOMAIN d.links \ chained),
      receipts |-> Append(d.receipts, receipt),
      state |-> [d.state EXCEPT !.anchor = c,
                                !.anchorHash = receipt.throughHash,
                                !.receipt = Len(d.receipts) + 1]]

(* What each part of a verification compares, given the state row it read. *)
HistoryAgrees(receipts, s, keys) ==
  LET ends(i) == IF i = 0 THEN [through |-> 0, throughHash |-> <<>>] ELSE receipts[i]
      last == ends(Len(receipts))
  IN /\ \A i \in DOMAIN receipts :
          /\ receipts[i].from = ends(i - 1).through
          /\ receipts[i].fromHash = ends(i - 1).throughHash
          /\ receipts[i].through > receipts[i].from
     /\ keys \/ receipts = <<>>
     /\ s.anchor = last.through /\ s.anchorHash = last.throughHash
     /\ s.receipt = Len(receipts)

LinkAgrees(link, previous, events, n) ==
  /\ link.previous = previous
  /\ n \in DOMAIN events
  /\ events[n] = link.payload
  /\ link.hash = Append(previous, link.payload)

(* The store as one consistent snapshot, for the properties.               *)
Intact(d) ==
  LET span == d.state.anchor + 1 .. d.state.head
      before(n) == IF n = d.state.anchor + 1 THEN d.state.anchorHash ELSE d.links[n - 1].hash
  IN /\ HistoryAgrees(d.receipts, d.state, TRUE)
     /\ DOMAIN d.links = span /\ DOMAIN d.events = span
     /\ \A n \in span : LinkAgrees(d.links[n], before(n), d.events, n)
     /\ d.state.headHash = IF span = {} THEN d.state.anchorHash ELSE d.links[d.state.head].hash

-----------------------------------------------------------------------------
(* The migration to schema version 4 links the n legacy events in order.   *)
Migrated(n) ==
  LET chain == [k \in 0 .. n |-> [i \in 1 .. k |-> "entry"]]
  IN [events |-> chain[n],
      links |-> [k \in 1 .. n |-> [previous |-> chain[k - 1], payload |-> "entry", hash |-> chain[k]]],
      receipts |-> <<>>,
      state |-> [anchor |-> 0, anchorHash |-> <<>>, head |-> n, headHash |-> chain[n],
                 receipt |-> 0]]

Idle == [pc |-> "idle"]

AuditChainInit ==
  /\ \E n \in 0 .. MaxLegacy : db = Migrated(n)
  /\ retaining = [w \in Writers |-> 0]
  /\ audit = Idle
  /\ faults = 0

(* Every commit by a writer ends the quiet of a verification in progress.  *)
Commit(d) ==
  /\ d.state.head <= MaxEvents
  /\ db' = d
  /\ audit' = IF "quiet" \in DOMAIN audit THEN [audit EXCEPT !.quiet = FALSE] ELSE audit

(* intent and outcome of SqliteAuditSink, or the ledger's own audit rows.  *)
AppendEntry(w) ==
  /\ retaining[w] = 0
  /\ Appendable(db)
  /\ Commit(Appended(db, "entry"))
  /\ UNCHANGED <<retaining, faults>>

(* retain: the intent, in a transaction of its own ...                     *)
RetainIntent(w, c) ==
  /\ retaining[w] = 0
  /\ Appendable(db)
  /\ Commit(Appended(db, "entry"))
  /\ retaining' = [retaining EXCEPT ![w] = c]
  /\ UNCHANGED faults

(* ... then pruning and its outcome in one transaction ...                 *)
(* Mutant of RetainCommit: pruning commits without its outcome.            *)
RetainCommitSilent(w) ==
  /\ retaining[w] # 0
  /\ Retainable(db, retaining[w])
  /\ Appendable(Pruned(db, retaining[w]))
  /\ Commit(Pruned(db, retaining[w]))
  /\ retaining' = [retaining EXCEPT ![w] = 0]
  /\ UNCHANGED faults

RetainCommit(w) ==
  LET pruned == Pruned(db, retaining[w])
  IN /\ retaining[w] # 0
     /\ Retainable(db, retaining[w])
     /\ Appendable(pruned)
     /\ Commit(Appended(pruned, "pruned"))
     /\ retaining' = [retaining EXCEPT ![w] = 0]
     /\ UNCHANGED faults

(* ... or, when a guard, the signer or the store refuses, the outcome      *)
(* "blocked".  If the store refuses that too, the call ends without one.   *)
RetainBlocked(w) ==
  /\ retaining[w] # 0
  /\ IF Appendable(db)
     THEN Commit(Appended(db, "entry"))
     ELSE UNCHANGED <<db, audit>>
  /\ retaining' = [retaining EXCEPT ![w] = 0]
  /\ UNCHANGED faults

(* The process dies between the transactions of retain.                    *)
WriterCrash(w) ==
  /\ retaining[w] # 0
  /\ retaining' = [retaining EXCEPT ![w] = 0]
  /\ UNCHANGED <<db, audit, faults>>

-----------------------------------------------------------------------------
(* verifyIntegrity, statement by statement.  keys: whether this caller was *)
(* given the trusted retention keys (the command line passes none).        *)
Verdict(valid) == IF valid THEN "valid" ELSE "invalid"

ReadState(keys) ==
  /\ audit.pc \in {"idle", "valid", "invalid"}
  /\ audit' = [pc |-> "receipts", keys |-> keys, state |-> db.state,
               intact |-> Intact(db), quiet |-> TRUE]
  /\ UNCHANGED <<db, retaining, faults>>

Answer(valid) ==
  audit' = [pc |-> Verdict(valid), keys |-> audit.keys,
            intact |-> audit.intact, quiet |-> audit.quiet,
            pruned |-> audit.state.receipt > 0]

ReadReceipts ==
  /\ audit.pc = "receipts"
  /\ IF HistoryAgrees(db.receipts, audit.state, audit.keys)
     THEN audit' = [audit EXCEPT !.pc = "stale"]
     ELSE Answer(FALSE)
  /\ UNCHANGED <<db, retaining, faults>>

CountStaleLinks ==
  /\ audit.pc = "stale"
  /\ IF \A n \in DOMAIN db.links : n > audit.state.anchor
     THEN audit' = [audit EXCEPT !.pc = "links"]
     ELSE Answer(FALSE)
  /\ UNCHANGED <<db, retaining, faults>>

ReadLinks ==
  /\ audit.pc = "links"
  /\ audit' = [pc |-> "walk", keys |-> audit.keys, state |-> audit.state,
               intact |-> audit.intact, quiet |-> audit.quiet, links |-> db.links,
               expected |-> audit.state.anchor + 1, previous |-> audit.state.anchorHash]
  /\ UNCHANGED <<db, retaining, faults>>

(* One link of the snapshot and the event it names, read now.              *)
(* Mutant of WalkLink: the stored event is not compared with its link.     *)
WalkLinkBlindly ==
  /\ audit.pc = "walk"
  /\ \E n \in DOMAIN audit.links : n >= audit.expected
  /\ IF /\ audit.expected \in DOMAIN audit.links
        /\ audit.links[audit.expected].previous = audit.previous
     THEN audit' = [audit EXCEPT !.expected = @ + 1,
                                 !.previous = audit.links[audit.expected].hash]
     ELSE Answer(FALSE)
  /\ UNCHANGED <<db, retaining, faults>>

WalkLink ==
  /\ audit.pc = "walk"
  /\ \E n \in DOMAIN audit.links : n >= audit.expected
  /\ IF /\ audit.expected \in DOMAIN audit.links
        /\ LinkAgrees(audit.links[audit.expected], audit.previous, db.events, audit.expected)
     THEN audit' = [audit EXCEPT !.expected = @ + 1,
                                 !.previous = audit.links[audit.expected].hash]
     ELSE Answer(FALSE)
  /\ UNCHANGED <<db, retaining, faults>>

(* The last statement looks for events without a link; the head compared   *)
(* is the one the first statement read.                                    *)
(* Mutant of CompareHead: the head is taken one past the last link.        *)
CompareHeadNext ==
  /\ audit.pc = "walk"
  /\ \A n \in DOMAIN audit.links : n < audit.expected
  /\ Answer(/\ DOMAIN db.events \subseteq DOMAIN db.links
            /\ audit.expected = audit.state.head
            /\ audit.previous = audit.state.headHash)
  /\ UNCHANGED <<db, retaining, faults>>

CompareHead ==
  /\ audit.pc = "walk"
  /\ \A n \in DOMAIN audit.links : n < audit.expected
  /\ Answer(/\ DOMAIN db.events \subseteq DOMAIN db.links
            /\ audit.expected - 1 = audit.state.head
            /\ audit.previous = audit.state.headHash)
  /\ UNCHANGED <<db, retaining, faults>>

-----------------------------------------------------------------------------
(* The file loses or changes a row: the triggers against updates and       *)
(* deletions do not protect the file itself.  A changed event is not the   *)
(* one that was linked, and no later fault makes it so again.              *)
Fault ==
  /\ faults < MaxFaults
  /\ faults' = faults + 1
  /\ \E n \in DOMAIN db.links \cap DOMAIN db.events :
       db' \in {[db EXCEPT !.events = Restrict(@, DOMAIN @ \ {n})],
                [db EXCEPT !.links = Restrict(@, DOMAIN @ \ {n})],
                [db EXCEPT !.events = Restrict(@, DOMAIN @ \ {n}),
                           !.links = Restrict(@, DOMAIN @ \ {n})],
                [db EXCEPT !.events[n] = CHOOSE e \in Events : e # db.links[n].payload]}
  /\ UNCHANGED <<retaining, audit>>

WriterStep(w) ==
  \/ AppendEntry(w)
  \/ \E c \in Cutoffs : RetainIntent(w, c)
  \/ RetainCommit(w)
  \/ RetainBlocked(w)
  \/ WriterCrash(w)

VerifyStep ==
  \/ \E keys \in BOOLEAN : ReadState(keys)
  \/ ReadReceipts
  \/ CountStaleLinks
  \/ ReadLinks
  \/ WalkLink
  \/ CompareHead

AuditChainNext ==
  \/ \E w \in Writers : WriterStep(w)
  \/ VerifyStep
  \/ Fault

AuditChainSpec == AuditChainInit /\ [][AuditChainNext]_auditChainVars

-----------------------------------------------------------------------------
(* The tables have the columns of the schema: links and events are keyed   *)
(* by sequence, and the state row's head is never behind its anchor.       *)
AuditTypeOK ==
  /\ db.state.anchor \in Nat /\ db.state.head \in Nat
  /\ db.state.anchor <= db.state.head
  /\ db.state.receipt = Len(db.receipts)
  /\ DOMAIN db.links \subseteq db.state.anchor + 1 .. db.state.head
  /\ DOMAIN db.events \subseteq 1 .. db.state.head
  /\ \A n \in DOMAIN db.events : db.events[n] \in Events
  /\ retaining \in [Writers -> Nat]
  /\ audit.pc \in {"idle", "receipts", "stale", "links", "walk", "valid", "invalid"}

(* Without a fault of the file, concurrent appends, prunings and crashes   *)
(* leave one unbroken chain from the last receipt to the head: no fork, no *)
(* gap, no event without a link (appendStorageRow, applyAuditRetention).   *)
ChainIntact == faults = 0 => Intact(db)

(* verifyIntegrity answers "valid" only if the store was intact when it    *)
(* started, whatever other processes commit between its statements.        *)
VerdictSound == audit.pc = "valid" => audit.intact

(* Undisturbed by writers and given the keys, verifyIntegrity does not     *)
(* condemn a store that is intact before and after; without keys it does   *)
(* so only after a retention.                                              *)
QuietVerdictTrue ==
  audit.pc = "invalid" /\ audit.quiet /\ audit.intact /\ faults = 0 =>
    ~audit.keys /\ audit.pruned

(* The chain's head hash stands for an append-only log; rows go only by a  *)
(* pruning that leaves an event and is recorded in the same transaction.   *)
Log == INSTANCE AuditLog WITH
  Payloads <- Events, Pruning <- {"pruned"},
  log <- db.state.headHash, pruned <- db.state.anchor,
  rows <- Restrict(db.events, {n \in DOMAIN db.events : n > db.state.anchor})

ImplementsAuditLog == Log!Spec

=============================================================================
