------------------------- MODULE AuditChainProofs -------------------------
(***************************************************************************)
(* Proofs about the audit chain, for every set of writers, every retention *)
(* policy and any number of events and faults: without a fault it stays    *)
(* one unbroken chain, with faults too it is the append-only log that      *)
(* AuditLog promises, and what a verification says of it is true.          *)
(***************************************************************************)
EXTENDS AuditChain, SequenceTheorems, TLAPS

Receipts == [from : Nat, fromHash : Seq(Events), through : Nat, throughHash : Seq(Events)]

(* The tables as the schema has them; the head counts the log's events.    *)
StoreFormed(d) ==
  /\ d = [events |-> d.events, links |-> d.links, receipts |-> d.receipts, state |-> d.state]
  /\ d.state = [anchor |-> d.state.anchor, anchorHash |-> d.state.anchorHash,
                head |-> d.state.head, headHash |-> d.state.headHash,
                receipt |-> d.state.receipt]
  /\ d.state.anchor \in Nat /\ d.state.head \in Nat /\ d.state.anchor <= d.state.head
  /\ d.state.anchorHash \in Seq(Events)
  /\ d.state.headHash \in Seq(Events) /\ Len(d.state.headHash) = d.state.head
  /\ d.receipts \in Seq(Receipts) /\ d.state.receipt = Len(d.receipts)
  /\ d.events = [n \in DOMAIN d.events |-> d.events[n]]
  /\ DOMAIN d.events \subseteq 1 .. d.state.head
  /\ \A n \in DOMAIN d.events : d.events[n] \in Events
  /\ DOMAIN d.links \subseteq d.state.anchor + 1 .. d.state.head
  /\ \A n \in DOMAIN d.links : d.links[n].hash \in Seq(Events)

(* The inductive invariant.                                                *)
AuditInv ==
  /\ StoreFormed(db)
  /\ faults \in Nat
  /\ ChainIntact
  /\ retaining \in [Writers -> Nat]
  /\ audit = [k \in DOMAIN audit |-> audit[k]] /\ "pc" \in DOMAIN audit
  /\ audit.pc \in {"idle", "receipts", "stale", "links", "walk", "valid", "invalid"}

-----------------------------------------------------------------------------
(* The tables after an append, column by column.                           *)
Columns(d, e, a, n, hash) ==
  /\ DOMAIN a.events = DOMAIN d.events \cup {n}
  /\ a.events = [k \in DOMAIN a.events |-> a.events[k]]
  /\ a.events[n] = e /\ \A k \in DOMAIN d.events : a.events[k] = d.events[k]
  /\ DOMAIN a.links = DOMAIN d.links \cup {n}
  /\ a.links[n] = [previous |-> d.state.headHash, payload |-> e, hash |-> hash]
  /\ \A k \in DOMAIN d.links : a.links[k] = d.links[k]
  /\ a.receipts = d.receipts
  /\ a.state = [anchor |-> d.state.anchor, anchorHash |-> d.state.anchorHash, head |-> n,
                headHash |-> hash, receipt |-> d.state.receipt]
  /\ a = [events |-> a.events, links |-> a.links, receipts |-> a.receipts, state |-> a.state]

(* What an append writes, without the sequence it is built from.           *)
LEMMA AppendedColumns ==
  ASSUME NEW d, StoreFormed(d), NEW e \in Events
  PROVE  \E a, n, hash : /\ a = Appended(d, e)
                         /\ n = d.state.head + 1
                         /\ hash = Append(d.state.headHash, e)
                         /\ Columns(d, e, a, n, hash)
<1> DEFINE a == Appended(d, e)
           n == d.state.head + 1
           hash == Append(d.state.headHash, e)
<1> DEFINE link == [previous |-> d.state.headHash, payload |-> e, hash |-> hash]
<1>1. /\ a.events = [k \in DOMAIN d.events \cup {n} |-> IF k = n THEN e ELSE d.events[k]]
      /\ a.links = [k \in DOMAIN d.links \cup {n} |-> IF k = n THEN link ELSE d.links[k]]
      /\ a.receipts = d.receipts
      /\ a.state = [d.state EXCEPT !.head = n, !.headHash = hash]
      /\ a = [events |-> a.events, links |-> a.links, receipts |-> a.receipts,
              state |-> a.state]
  BY DEF Appended
<1> HIDE DEF a, hash
<1>2. d.state = [anchor |-> d.state.anchor, anchorHash |-> d.state.anchorHash,
                 head |-> d.state.head, headHash |-> d.state.headHash,
                 receipt |-> d.state.receipt]
  BY DEF StoreFormed
<1>3. a.state = [anchor |-> d.state.anchor, anchorHash |-> d.state.anchorHash, head |-> n,
                 headHash |-> hash, receipt |-> d.state.receipt]
  BY <1>1, <1>2
<1>4. n \notin DOMAIN d.events /\ n \notin DOMAIN d.links
  BY DEF StoreFormed
<1> HIDE DEF link
<1>5. /\ DOMAIN a.events = DOMAIN d.events \cup {n}
      /\ a.events = [k \in DOMAIN a.events |-> a.events[k]]
      /\ a.events[n] = e /\ \A k \in DOMAIN d.events : a.events[k] = d.events[k]
  BY <1>1, <1>4
<1>6. /\ DOMAIN a.links = DOMAIN d.links \cup {n}
      /\ a.links[n] = link
      /\ \A k \in DOMAIN d.links : a.links[k] = d.links[k]
  BY <1>1, <1>4
<1>7. Columns(d, e, a, n, hash)
  BY <1>1, <1>3, <1>5, <1>6 DEF link, Columns
<1> QED BY <1>7 DEF a, hash

(* The head hash grows with the head, and the new row is the head's.       *)
LEMMA AppendedWellFormed ==
  ASSUME NEW d, StoreFormed(d), NEW e \in Events
  PROVE  StoreFormed(Appended(d, e))
<1>1. PICK a, n, hash : /\ a = Appended(d, e)
                        /\ n = d.state.head + 1
                        /\ hash = Append(d.state.headHash, e)
                        /\ Columns(d, e, a, n, hash)
  BY AppendedColumns
<1>2. n = d.state.head + 1
  BY <1>1
<1>3. hash = Append(d.state.headHash, e)
  BY <1>1
<1>4. /\ DOMAIN a.events = DOMAIN d.events \cup {n}
      /\ a.events = [k \in DOMAIN a.events |-> a.events[k]]
      /\ a.events[n] = e /\ \A k \in DOMAIN d.events : a.events[k] = d.events[k]
      /\ DOMAIN a.links = DOMAIN d.links \cup {n}
      /\ a.links[n] = [previous |-> d.state.headHash, payload |-> e, hash |-> hash]
      /\ \A k \in DOMAIN d.links : a.links[k] = d.links[k]
      /\ a.receipts = d.receipts
      /\ a.state = [anchor |-> d.state.anchor, anchorHash |-> d.state.anchorHash, head |-> n,
                    headHash |-> hash, receipt |-> d.state.receipt]
      /\ a = [events |-> a.events, links |-> a.links, receipts |-> a.receipts,
              state |-> a.state]
  BY <1>1 DEF Columns
<1>5. hash \in Seq(Events) /\ Len(hash) = n
  BY <1>2, <1>3, AppendProperties DEF StoreFormed
<1>6. /\ a.state.anchor = d.state.anchor /\ a.state.anchorHash = d.state.anchorHash
      /\ a.state.head = n /\ a.state.headHash = hash /\ a.state.receipt = d.state.receipt
      /\ a.links[n].hash = hash
  BY <1>4
<1>7. /\ n \in Nat /\ d.state.anchor \in Nat /\ d.state.anchor <= n
      /\ DOMAIN a.events \subseteq 1 .. n
      /\ DOMAIN a.links \subseteq d.state.anchor + 1 .. n
  BY <1>2, <1>4 DEF StoreFormed
<1>8. /\ \A k \in DOMAIN a.events : a.events[k] \in Events
      /\ \A k \in DOMAIN a.links : a.links[k].hash \in Seq(Events)
  BY <1>4, <1>5, <1>6 DEF StoreFormed
<1>9. StoreFormed(a)
  BY <1>4, <1>5, <1>6, <1>7, <1>8 DEF StoreFormed
<1> QED BY <1>1, <1>9

(* The new link commits to the head, so a chain stays a chain.             *)
LEMMA AppendedIntact ==
  ASSUME NEW d, StoreFormed(d), Intact(d), NEW e \in Events
  PROVE  Intact(Appended(d, e))
<1>1. PICK a, n, hash : /\ a = Appended(d, e)
                        /\ n = d.state.head + 1
                        /\ hash = Append(d.state.headHash, e)
                        /\ Columns(d, e, a, n, hash)
  BY AppendedColumns
<1>2. n = d.state.head + 1
  BY <1>1
<1>3. hash = Append(d.state.headHash, e)
  BY <1>1
<1> DEFINE from == d.state.anchor + 1
           span == from .. d.state.head
           before(k) == IF k = from THEN d.state.anchorHash ELSE d.links[k - 1].hash
           after(k) == IF k = from THEN d.state.anchorHash ELSE a.links[k - 1].hash
<1>4. /\ DOMAIN a.events = DOMAIN d.events \cup {n}
      /\ a.events[n] = e /\ \A k \in DOMAIN d.events : a.events[k] = d.events[k]
      /\ DOMAIN a.links = DOMAIN d.links \cup {n}
      /\ a.links[n] = [previous |-> d.state.headHash, payload |-> e, hash |-> hash]
      /\ \A k \in DOMAIN d.links : a.links[k] = d.links[k]
      /\ a.receipts = d.receipts
      /\ a.state = [anchor |-> d.state.anchor, anchorHash |-> d.state.anchorHash, head |-> n,
                    headHash |-> hash, receipt |-> d.state.receipt]
  BY <1>1 DEF Columns
<1>5. d.state.anchor \in Nat /\ d.state.head \in Nat /\ d.state.anchor <= d.state.head
  BY DEF StoreFormed
<1>6. /\ DOMAIN d.links = span /\ DOMAIN d.events = span
      /\ \A k \in span : LinkAgrees(d.links[k], before(k), d.events, k)
      /\ d.state.headHash = IF span = {} THEN d.state.anchorHash ELSE d.links[d.state.head].hash
  BY DEF Intact
<1>7. /\ DOMAIN a.links = from .. n /\ DOMAIN a.events = from .. n
      /\ \A k \in span : a.links[k] = d.links[k] /\ a.events[k] = d.events[k]
  BY <1>2, <1>4, <1>5, <1>6
<1>8. /\ a.state.anchor = d.state.anchor /\ a.state.anchorHash = d.state.anchorHash
      /\ a.state.head = n /\ a.state.headHash = hash /\ a.state.receipt = d.state.receipt
      /\ a.links[n].hash = hash /\ a.links[n].payload = e
      /\ a.links[n].previous = d.state.headHash
  BY <1>4
<1>9. HistoryAgrees(a.receipts, a.state, TRUE)
  <2>1. HistoryAgrees(d.receipts, d.state, TRUE)
    BY DEF Intact
  <2> QED BY <1>4, <1>8, <2>1 DEF HistoryAgrees
<1>10. after(n) = d.state.headHash
  <2>1. CASE span = {}
    BY <1>2, <1>5, <1>6, <2>1
  <2>2. CASE span # {}
    <3>1. n # from /\ d.state.head \in span /\ n - 1 = d.state.head
      BY <1>2, <1>5, <2>2
    <3> QED BY <1>6, <1>7, <2>2, <3>1
  <2> QED BY <2>1, <2>2
<1>11. ASSUME NEW k \in from .. n PROVE LinkAgrees(a.links[k], after(k), a.events, k)
  <2>1. CASE k = n
    BY <1>3, <1>4, <1>7, <1>8, <1>10, <2>1 DEF LinkAgrees
  <2>2. CASE k # n
    <3>1. k \in span /\ (k # from => k - 1 \in span)
      BY <1>2, <1>5, <2>2
    <3>2. after(k) = before(k) /\ a.links[k] = d.links[k] /\ a.events[k] = d.events[k]
      BY <1>7, <3>1
    <3>3. LinkAgrees(d.links[k], before(k), d.events, k)
      BY <1>6, <3>1
    <3> HIDE DEF after, before
    <3> QED BY <1>7, <3>2, <3>3 DEF LinkAgrees
  <2> QED BY <2>1, <2>2
<1>12. from .. n # {} /\ n \in from .. n
  BY <1>2, <1>5
<1>13. Intact(a)
  BY <1>7, <1>8, <1>9, <1>11, <1>12 DEF Intact
<1> QED BY <1>1, <1>13

-----------------------------------------------------------------------------
(* The tables after a pruning, column by column.                           *)
PrunedColumns(d, c, a, receipt) ==
  /\ receipt = [from |-> d.state.anchor, fromHash |-> d.state.anchorHash,
                through |-> c, throughHash |-> d.links[c].hash]
  /\ \E chained : /\ chained = {k \in DOMAIN d.links : k <= c}
                  /\ DOMAIN a.events = DOMAIN d.events \ chained
                  /\ DOMAIN a.links = DOMAIN d.links \ chained
  /\ a.events = [k \in DOMAIN a.events |-> a.events[k]]
  /\ \A k \in DOMAIN a.events : a.events[k] = d.events[k]
  /\ \A k \in DOMAIN a.links : a.links[k] = d.links[k]
  /\ a.receipts = Append(d.receipts, receipt)
  /\ a.state = [anchor |-> c, anchorHash |-> d.links[c].hash, head |-> d.state.head,
                headHash |-> d.state.headHash, receipt |-> Len(d.receipts) + 1]
  /\ a = [events |-> a.events, links |-> a.links, receipts |-> a.receipts, state |-> a.state]

(* A pruning writes just those columns.                                    *)
LEMMA PrunedByColumn ==
  ASSUME NEW d, StoreFormed(d), NEW c, Retainable(d, c)
  PROVE  \E a, receipt : a = Pruned(d, c) /\ PrunedColumns(d, c, a, receipt)
<1> DEFINE receipt == [from |-> d.state.anchor, fromHash |-> d.state.anchorHash,
                       through |-> c, throughHash |-> d.links[c].hash]
           chained == {k \in DOMAIN d.links : k <= c}
           a == Pruned(d, c)
<1>1. /\ a.events = [k \in DOMAIN d.events \ chained |-> d.events[k]]
      /\ a.links = [k \in DOMAIN d.links \ chained |-> d.links[k]]
      /\ a.receipts = Append(d.receipts, receipt)
      /\ a.state = [d.state EXCEPT !.anchor = c, !.anchorHash = receipt.throughHash,
                                   !.receipt = Len(d.receipts) + 1]
      /\ a = [events |-> a.events, links |-> a.links, receipts |-> a.receipts,
              state |-> a.state]
  BY DEF Pruned, Restrict
<1>2. receipt.throughHash = d.links[c].hash
  OBVIOUS
<1> HIDE DEF a, chained, receipt
<1>3. d.state = [anchor |-> d.state.anchor, anchorHash |-> d.state.anchorHash,
                 head |-> d.state.head, headHash |-> d.state.headHash,
                 receipt |-> d.state.receipt]
  BY DEF StoreFormed
<1>4. a.state = [anchor |-> c, anchorHash |-> d.links[c].hash, head |-> d.state.head,
                 headHash |-> d.state.headHash, receipt |-> Len(d.receipts) + 1]
  BY <1>1, <1>2, <1>3
<1>5. /\ DOMAIN a.events = DOMAIN d.events \ chained
      /\ DOMAIN a.links = DOMAIN d.links \ chained
      /\ a.events = [k \in DOMAIN a.events |-> a.events[k]]
      /\ \A k \in DOMAIN a.events : a.events[k] = d.events[k]
      /\ \A k \in DOMAIN a.links : a.links[k] = d.links[k]
  BY <1>1
<1>6. \E s : /\ s = {k \in DOMAIN d.links : k <= c}
             /\ DOMAIN a.events = DOMAIN d.events \ s
             /\ DOMAIN a.links = DOMAIN d.links \ s
  BY <1>5 DEF chained
<1>7. receipt = [from |-> d.state.anchor, fromHash |-> d.state.anchorHash,
                 through |-> c, throughHash |-> d.links[c].hash]
  BY DEF receipt
<1>8. PrunedColumns(d, c, a, receipt)
  BY <1>1, <1>4, <1>5, <1>6, <1>7 DEF PrunedColumns
<1> QED BY <1>8 DEF a

(* A pruning leaves the head where it is and moves the anchor before it.   *)
LEMMA PrunedWellFormed ==
  ASSUME NEW d, StoreFormed(d), NEW c, Retainable(d, c)
  PROVE  StoreFormed(Pruned(d, c))
<1>1. PICK a, receipt : a = Pruned(d, c) /\ PrunedColumns(d, c, a, receipt)
  BY PrunedByColumn
<1>2. /\ c \in Nat /\ d.state.anchor < c /\ c < d.state.head /\ c \in DOMAIN d.links
      /\ d.state.anchor \in Nat /\ d.state.head \in Nat
  BY AuditAssumption DEF Retainable, StoreFormed
<1>3. receipt \in Receipts
  BY <1>1, <1>2 DEF PrunedColumns, Receipts, StoreFormed
<1>4. a.receipts \in Seq(Receipts) /\ Len(a.receipts) = Len(d.receipts) + 1
  BY <1>1, <1>3, AppendProperties DEF PrunedColumns, StoreFormed
<1>5. /\ a.state.anchor = c /\ a.state.anchorHash = d.links[c].hash
      /\ a.state.head = d.state.head /\ a.state.headHash = d.state.headHash
      /\ a.state.receipt = Len(d.receipts) + 1
  BY <1>1 DEF PrunedColumns
<1>6. /\ DOMAIN a.events \subseteq 1 .. d.state.head
      /\ DOMAIN a.links \subseteq c + 1 .. d.state.head
      /\ \A k \in DOMAIN a.events : a.events[k] \in Events
      /\ \A k \in DOMAIN a.links : a.links[k].hash \in Seq(Events)
  <2>1. PICK s : /\ s = {k \in DOMAIN d.links : k <= c}
                 /\ DOMAIN a.events = DOMAIN d.events \ s
                 /\ DOMAIN a.links = DOMAIN d.links \ s
    BY <1>1 DEF PrunedColumns
  <2>2. /\ \A k \in DOMAIN a.events : a.events[k] = d.events[k]
        /\ \A k \in DOMAIN a.links : a.links[k] = d.links[k]
    BY <1>1 DEF PrunedColumns
  <2> QED BY <1>2, <2>1, <2>2 DEF StoreFormed
<1>7. /\ a = [events |-> a.events, links |-> a.links, receipts |-> a.receipts,
              state |-> a.state]
      /\ a.events = [k \in DOMAIN a.events |-> a.events[k]]
      /\ a.state = [anchor |-> a.state.anchor, anchorHash |-> a.state.anchorHash,
                    head |-> a.state.head, headHash |-> a.state.headHash,
                    receipt |-> a.state.receipt]
  BY <1>1, <1>5 DEF PrunedColumns
<1>8. a.state.headHash \in Seq(Events) /\ Len(a.state.headHash) = d.state.head
  BY <1>5 DEF StoreFormed
<1>9. a.state.anchorHash \in Seq(Events)
  BY <1>2, <1>5 DEF StoreFormed
<1>10. StoreFormed(a)
  BY <1>2, <1>4, <1>5, <1>6, <1>7, <1>8, <1>9 DEF StoreFormed
<1> QED BY <1>1, <1>10

(* The receipt of a pruning ends where the chain that is left begins.      *)
LEMMA PrunedHistory ==
  ASSUME NEW d, StoreFormed(d), HistoryAgrees(d.receipts, d.state, TRUE), NEW c, Retainable(d, c)
  PROVE  HistoryAgrees(Pruned(d, c).receipts, Pruned(d, c).state, TRUE)
<1>1. PICK a, receipt : a = Pruned(d, c) /\ PrunedColumns(d, c, a, receipt)
  BY PrunedByColumn
<1>2. /\ c \in Nat /\ d.state.anchor < c /\ c < d.state.head /\ c \in DOMAIN d.links
      /\ d.state.anchor \in Nat /\ d.state.head \in Nat
  BY AuditAssumption DEF Retainable, StoreFormed
<1>3. /\ a.state.anchor = c /\ a.state.anchorHash = d.links[c].hash
      /\ a.state.receipt = Len(d.receipts) + 1
      /\ a.receipts = Append(d.receipts, receipt)
      /\ receipt = [from |-> d.state.anchor, fromHash |-> d.state.anchorHash,
                    through |-> c, throughHash |-> d.links[c].hash]
  BY <1>1 DEF PrunedColumns
<1>4. HistoryAgrees(a.receipts, a.state, TRUE)
  <2> DEFINE ends(i) == IF i = 0 THEN [through |-> 0, throughHash |-> <<>>] ELSE d.receipts[i]
             last == ends(Len(d.receipts))
             ends2(i) == IF i = 0 THEN [through |-> 0, throughHash |-> <<>>] ELSE a.receipts[i]
  <2>1. /\ \A i \in DOMAIN d.receipts :
             /\ d.receipts[i].from = ends(i - 1).through
             /\ d.receipts[i].fromHash = ends(i - 1).throughHash
             /\ d.receipts[i].through > d.receipts[i].from
        /\ d.state.anchor = last.through /\ d.state.anchorHash = last.throughHash
    BY DEF HistoryAgrees
  <2>2. receipt \in Receipts /\ d.receipts \in Seq(Receipts)
    BY <1>2, <1>3 DEF Receipts, StoreFormed
  <2>3. /\ Len(d.receipts) \in Nat /\ DOMAIN d.receipts = 1 .. Len(d.receipts)
        /\ Len(a.receipts) = Len(d.receipts) + 1 /\ DOMAIN a.receipts = 1 .. Len(d.receipts) + 1
        /\ \A i \in 1 .. Len(d.receipts) : a.receipts[i] = d.receipts[i]
        /\ a.receipts[Len(d.receipts) + 1] = receipt
    BY <1>3, <2>2, AppendProperties, LenProperties
  <2>4. ASSUME NEW i \in 1 .. Len(d.receipts) + 1
        PROVE  /\ a.receipts[i].from = ends2(i - 1).through
               /\ a.receipts[i].fromHash = ends2(i - 1).throughHash
               /\ a.receipts[i].through > a.receipts[i].from
    <3>1. ends2(i - 1) = ends(i - 1)
      BY <2>3
    <3>2. CASE i = Len(d.receipts) + 1
      <4>1. /\ a.receipts[i].from = d.state.anchor /\ a.receipts[i].through = c
            /\ a.receipts[i].fromHash = d.state.anchorHash
        BY <1>3, <2>3, <3>2
      <4>2. ends(i - 1) = last
        BY <2>3, <3>2
      <4> HIDE DEF ends, ends2
      <4> QED BY <1>2, <2>1, <3>1, <4>1, <4>2
    <3>3. CASE i # Len(d.receipts) + 1
      <4>1. i \in DOMAIN d.receipts /\ a.receipts[i] = d.receipts[i]
        BY <2>3, <3>3
      <4> HIDE DEF ends, ends2
      <4> QED BY <2>1, <3>1, <4>1
    <3> QED BY <3>2, <3>3
  <2>5. /\ ends2(Len(a.receipts)).through = c
        /\ ends2(Len(a.receipts)).throughHash = d.links[c].hash
    <3>1. ends2(Len(a.receipts)) = receipt
      BY <2>3
    <3> HIDE DEF ends2
    <3> QED BY <1>3, <3>1
  <2> QED BY <1>3, <2>3, <2>4, <2>5 DEF HistoryAgrees
<1> QED BY <1>1, <1>4

(* The receipt ends where the remaining chain begins.                      *)
LEMMA PrunedIntact ==
  ASSUME NEW d, StoreFormed(d), Intact(d), NEW c, Retainable(d, c)
  PROVE  Intact(Pruned(d, c))
<1>1. PICK a, receipt : a = Pruned(d, c) /\ PrunedColumns(d, c, a, receipt)
  BY PrunedByColumn
<1> DEFINE from == d.state.anchor + 1
           span == from .. d.state.head
           left == c + 1 .. d.state.head
           before(k) == IF k = from THEN d.state.anchorHash ELSE d.links[k - 1].hash
           after(k) == IF k = c + 1 THEN d.links[c].hash ELSE a.links[k - 1].hash
<1>2. /\ c \in Nat /\ d.state.anchor < c /\ c < d.state.head /\ c \in DOMAIN d.links
      /\ d.state.anchor \in Nat /\ d.state.head \in Nat
  BY AuditAssumption DEF Retainable, StoreFormed
<1>3. /\ DOMAIN d.links = span /\ DOMAIN d.events = span
      /\ \A k \in span : LinkAgrees(d.links[k], before(k), d.events, k)
      /\ d.state.headHash = IF span = {} THEN d.state.anchorHash ELSE d.links[d.state.head].hash
  BY DEF Intact
<1>4. /\ a.state.anchor = c /\ a.state.anchorHash = d.links[c].hash
      /\ a.state.head = d.state.head /\ a.state.headHash = d.state.headHash
      /\ a.state.receipt = Len(d.receipts) + 1
      /\ a.receipts = Append(d.receipts, receipt)
      /\ receipt = [from |-> d.state.anchor, fromHash |-> d.state.anchorHash,
                    through |-> c, throughHash |-> d.links[c].hash]
  BY <1>1 DEF PrunedColumns
<1>5. /\ DOMAIN a.links = left /\ DOMAIN a.events = left
      /\ \A k \in left : a.links[k] = d.links[k] /\ a.events[k] = d.events[k]
  <2>1. PICK s : /\ s = {k \in DOMAIN d.links : k <= c}
                 /\ DOMAIN a.events = DOMAIN d.events \ s
                 /\ DOMAIN a.links = DOMAIN d.links \ s
    BY <1>1 DEF PrunedColumns
  <2>2. /\ \A k \in DOMAIN a.events : a.events[k] = d.events[k]
        /\ \A k \in DOMAIN a.links : a.links[k] = d.links[k]
    BY <1>1 DEF PrunedColumns
  <2>3. span \ s = left
    BY <1>2, <1>3, <2>1
  <2> QED BY <1>3, <2>1, <2>2, <2>3
<1>6. HistoryAgrees(a.receipts, a.state, TRUE)
  BY <1>1, PrunedHistory DEF Intact
<1>7. ASSUME NEW k \in left PROVE LinkAgrees(a.links[k], after(k), a.events, k)
  <2>1. k \in span /\ k # from /\ k - 1 \in span /\ (k # c + 1 => k - 1 \in left)
    BY <1>2
  <2>2. after(k) = before(k)
    BY <1>2, <1>5, <2>1
  <2>3. LinkAgrees(d.links[k], before(k), d.events, k)
    BY <1>3, <2>1
  <2> HIDE DEF after, before
  <2> QED BY <1>5, <2>2, <2>3 DEF LinkAgrees
<1>8. left # {} /\ span # {} /\ d.state.head \in left
  BY <1>2
<1>9. Intact(a)
  BY <1>3, <1>4, <1>5, <1>6, <1>7, <1>8 DEF Intact
<1> QED BY <1>1, <1>9

-----------------------------------------------------------------------------
(* The migration leaves one chain of the events it found.                  *)
Legacy(n) == [i \in 1 .. n |-> "entry"]

(* The chain over n events that were there before it.                      *)
LEMMA LegacyChain ==
  ASSUME NEW n \in Nat
  PROVE  /\ Legacy(n) \in Seq(Events) /\ Len(Legacy(n)) = n
         /\ DOMAIN Legacy(n) = 1 .. n /\ \A i \in 1 .. n : Legacy(n)[i] = "entry"
         /\ Append(Legacy(n), "entry") = Legacy(n + 1)
         /\ Legacy(0) = <<>>
<1>1. "entry" \in Events
  BY DEF Events
<1>2. \A m \in Nat : /\ Legacy(m) \in Seq(Events) /\ Len(Legacy(m)) = m
                     /\ DOMAIN Legacy(m) = 1 .. m
                     /\ \A i \in 1 .. m : Legacy(m)[i] = "entry"
  BY <1>1, IsASeq, LenProperties DEF Legacy
<1>3. Append(Legacy(n), "entry") = Legacy(n + 1)
  <2> DEFINE s == Append(Legacy(n), "entry")
  <2>1. /\ s \in Seq(Events) /\ Len(s) = n + 1
        /\ \A i \in 1 .. n : s[i] = Legacy(n)[i]
        /\ s[n + 1] = "entry"
    BY <1>1, <1>2, AppendProperties
  <2>2. \A i \in 1 .. n + 1 : s[i] = Legacy(n + 1)[i]
    BY <1>2, <2>1
  <2>3. Legacy(n + 1) \in Seq(Events) /\ Len(Legacy(n + 1)) = n + 1
    BY <1>2
  <2> HIDE DEF s
  <2>4. s = Legacy(n + 1)
    BY <2>1, <2>2, <2>3, SeqEqual
  <2> QED BY <2>4 DEF s
<1>4. Legacy(0) = <<>>
  BY <1>2, EmptySeq
<1> QED BY <1>2, <1>3, <1>4

(* What the migration writes, column by column.                            *)
LEMMA MigratedByColumn ==
  ASSUME NEW n \in Nat
  PROVE  \E d : /\ d = Migrated(n)
                /\ d = [events |-> d.events, links |-> d.links, receipts |-> <<>>,
                        state |-> d.state]
                /\ d.events = Legacy(n)
                /\ DOMAIN d.links = 1 .. n
                /\ \A k \in 1 .. n : d.links[k] = [previous |-> Legacy(k - 1), payload |-> "entry",
                                                   hash |-> Legacy(k)]
                /\ d.state = [anchor |-> 0, anchorHash |-> <<>>, head |-> n,
                              headHash |-> Legacy(n), receipt |-> 0]
<1> DEFINE chain == [k \in 0 .. n |-> [i \in 1 .. k |-> "entry"]]
           links == [k \in 1 .. n |->
                       [previous |-> chain[k - 1], payload |-> "entry", hash |-> chain[k]]]
           d == Migrated(n)
<1>1. chain[n] = Legacy(n) /\ \A k \in 1 .. n : chain[k] = Legacy(k) /\ chain[k - 1] = Legacy(k - 1)
  BY DEF Legacy
<1>2. /\ d = [events |-> d.events, links |-> d.links, receipts |-> <<>>, state |-> d.state]
      /\ d.events = chain[n] /\ d.links = links
      /\ d.state = [anchor |-> 0, anchorHash |-> <<>>, head |-> n,
                    headHash |-> chain[n], receipt |-> 0]
  BY DEF Migrated
<1>3. /\ DOMAIN links = 1 .. n
      /\ \A k \in 1 .. n : links[k] = [previous |-> Legacy(k - 1), payload |-> "entry",
                                       hash |-> Legacy(k)]
  BY <1>1
<1> HIDE DEF d, links, chain
<1> QED BY <1>1, <1>2, <1>3 DEF d

(* The migrated store is well formed and one chain.                        *)
LEMMA MigratedIsChain ==
  ASSUME NEW n \in Nat
  PROVE  StoreFormed(Migrated(n)) /\ Intact(Migrated(n))
<1>1. PICK d : /\ d = Migrated(n)
               /\ d = [events |-> d.events, links |-> d.links, receipts |-> <<>>,
                       state |-> d.state]
               /\ d.events = Legacy(n)
               /\ DOMAIN d.links = 1 .. n
               /\ \A k \in 1 .. n : d.links[k] = [previous |-> Legacy(k - 1), payload |-> "entry",
                                                  hash |-> Legacy(k)]
               /\ d.state = [anchor |-> 0, anchorHash |-> <<>>, head |-> n,
                             headHash |-> Legacy(n), receipt |-> 0]
  BY MigratedByColumn
<1>2. /\ d.state.anchor = 0 /\ d.state.anchorHash = <<>> /\ d.state.head = n
      /\ d.state.headHash = Legacy(n) /\ d.state.receipt = 0 /\ d.receipts = <<>>
  BY <1>1
<1>3. \A k \in 1 .. n : /\ d.links[k].previous = Legacy(k - 1) /\ d.links[k].payload = "entry"
                        /\ d.links[k].hash = Legacy(k)
  <2> SUFFICES ASSUME NEW k \in 1 .. n
               PROVE  /\ d.links[k].previous = Legacy(k - 1) /\ d.links[k].payload = "entry"
                      /\ d.links[k].hash = Legacy(k)
    OBVIOUS
  <2>1. d.links[k] = [previous |-> Legacy(k - 1), payload |-> "entry", hash |-> Legacy(k)]
    BY <1>1
  <2> QED BY <2>1
<1>4. \A k \in 0 .. n : /\ Legacy(k) \in Seq(Events) /\ Len(Legacy(k)) = k
                        /\ DOMAIN Legacy(k) = 1 .. k
                        /\ \A i \in 1 .. k : Legacy(k)[i] = "entry"
                        /\ Append(Legacy(k), "entry") = Legacy(k + 1)
  <2> SUFFICES ASSUME NEW k \in 0 .. n
               PROVE  /\ Legacy(k) \in Seq(Events) /\ Len(Legacy(k)) = k
                      /\ DOMAIN Legacy(k) = 1 .. k
                      /\ \A i \in 1 .. k : Legacy(k)[i] = "entry"
                      /\ Append(Legacy(k), "entry") = Legacy(k + 1)
    OBVIOUS
  <2>1. k \in Nat
    OBVIOUS
  <2> QED BY <2>1, LegacyChain
<1>5. Legacy(0) = <<>>
  BY LegacyChain
<1>6. StoreFormed(d)
  <2>1. d.receipts \in Seq(Receipts) /\ d.state.receipt = Len(d.receipts)
    BY <1>2
  <2>2. d.state.anchorHash \in Seq(Events)
    BY <1>2
  <2>3. /\ d.events = [k \in DOMAIN d.events |-> d.events[k]]
        /\ DOMAIN d.events = 1 .. n /\ \A k \in DOMAIN d.events : d.events[k] \in Events
    BY <1>1, <1>4 DEF Events, Legacy
  <2>4. \A k \in DOMAIN d.links : d.links[k].hash \in Seq(Events)
    BY <1>1, <1>3, <1>4
  <2> QED BY <1>1, <1>2, <1>4, <2>1, <2>2, <2>3, <2>4 DEF StoreFormed
<1>7. Intact(d)
  <2> DEFINE from == d.state.anchor + 1
             before(k) == IF k = from THEN d.state.anchorHash ELSE d.links[k - 1].hash
  <2>1. from .. d.state.head = 1 .. n /\ from = 1
    BY <1>2
  <2>2. HistoryAgrees(d.receipts, d.state, TRUE)
    BY <1>2 DEF HistoryAgrees
  <2>3. ASSUME NEW k \in 1 .. n PROVE LinkAgrees(d.links[k], before(k), d.events, k)
    <3>1. before(k) = Legacy(k - 1)
      BY <1>2, <1>3, <1>5, <2>1
    <3>2. Append(Legacy(k - 1), "entry") = Legacy(k)
      BY <1>4
    <3>3. k \in DOMAIN d.events /\ d.events[k] = "entry"
      BY <1>1, <1>4
    <3> HIDE DEF before
    <3> QED BY <1>3, <3>1, <3>2, <3>3 DEF LinkAgrees
  <2>4. d.state.headHash = IF 1 .. n = {} THEN d.state.anchorHash ELSE d.links[d.state.head].hash
    <3>1. CASE n = 0
      BY <1>2, <1>5, <3>1
    <3>2. CASE n # 0
      <4>1. n \in 1 .. n
        BY <3>2
      <4>2. d.links[n].hash = Legacy(n)
        BY <1>3, <4>1
      <4> QED BY <1>2, <4>1, <4>2
    <3> QED BY <3>1, <3>2
  <2>5. DOMAIN d.events = 1 .. n
    BY <1>1, <1>4
  <2> QED BY <1>1, <2>1, <2>2, <2>3, <2>4, <2>5 DEF Intact
<1> QED BY <1>1, <1>6, <1>7

-----------------------------------------------------------------------------
(* A fault may break the chain, but not the columns.                       *)
LEMMA FaultWellFormed ==
  ASSUME StoreFormed(db), Fault
  PROVE  StoreFormed(db')
<1>1. PICK n \in DOMAIN db.links \cap DOMAIN db.events :
         db' \in {[db EXCEPT !.events = Restrict(@, DOMAIN @ \ {n})],
                 [db EXCEPT !.links = Restrict(@, DOMAIN @ \ {n})],
                 [db EXCEPT !.events = Restrict(@, DOMAIN @ \ {n}),
                            !.links = Restrict(@, DOMAIN @ \ {n})],
                 [db EXCEPT !.events[n] = CHOOSE e \in Events : e # db.links[n].payload]}
  BY DEF Fault
<1>2. db = [events |-> db.events, links |-> db.links, receipts |-> db.receipts, state |-> db.state]
  BY DEF StoreFormed
<1>3. /\ db' = [events |-> db'.events, links |-> db'.links, receipts |-> db'.receipts,
                state |-> db'.state]
      /\ db'.receipts = db.receipts /\ db'.state = db.state
      /\ \/ db'.events = db.events
         \/ db'.events = Restrict(db.events, DOMAIN db.events \ {n})
         \/ db'.events = [db.events EXCEPT ![n] = CHOOSE e \in Events : e # db.links[n].payload]
      /\ db'.links = db.links \/ db'.links = Restrict(db.links, DOMAIN db.links \ {n})
  BY <1>1, <1>2
<1>4. (CHOOSE e \in Events : e # db.links[n].payload) \in Events
  <2>1. \E e \in Events : e # db.links[n].payload
    BY DEF Events
  <2> QED BY <2>1
<1>5. /\ db'.events = [k \in DOMAIN db'.events |-> db'.events[k]]
      /\ DOMAIN db'.events \subseteq DOMAIN db.events
      /\ \A k \in DOMAIN db'.events : db'.events[k] \in Events
  <2>1. CASE db'.events = db.events
    BY <2>1 DEF StoreFormed
  <2>2. CASE db'.events = Restrict(db.events, DOMAIN db.events \ {n})
    BY <2>2 DEF Restrict, StoreFormed
  <2>3. CASE db'.events = [db.events EXCEPT ![n] = CHOOSE e \in Events : e # db.links[n].payload]
    BY <1>4, <2>3 DEF StoreFormed
  <2> QED BY <1>3, <2>1, <2>2, <2>3
<1>6. /\ DOMAIN db'.links \subseteq DOMAIN db.links
      /\ \A k \in DOMAIN db'.links : db'.links[k] = db.links[k]
  BY <1>3 DEF Restrict
<1> QED BY <1>3, <1>5, <1>6 DEF StoreFormed

(* Every step of a writer, a verification or a fault preserves AuditInv.   *)
LEMMA AuditInductive ==
  ASSUME AuditInv, [AuditChainNext]_auditChainVars
  PROVE  AuditInv'
<1> USE DEF AuditInv
<1>1. ASSUME NEW d, StoreFormed(d), faults = 0 => Intact(d), Commit(d), UNCHANGED faults,
             retaining' \in [Writers -> Nat]
      PROVE  AuditInv'
  BY <1>1 DEF Commit, ChainIntact
<1>2. ASSUME UNCHANGED <<db, faults>>, retaining' \in [Writers -> Nat],
             \/ UNCHANGED audit
             \/ /\ audit' = [k \in DOMAIN audit' |-> audit'[k]] /\ "pc" \in DOMAIN audit'
                /\ audit'.pc \in {"idle", "receipts", "stale", "links", "walk", "valid", "invalid"}
      PROVE  AuditInv'
  BY <1>2 DEF ChainIntact
<1>3. ASSUME NEW w \in Writers, AppendEntry(w) PROVE AuditInv'
  <2>1. StoreFormed(Appended(db, "entry")) /\ (faults = 0 => Intact(Appended(db, "entry")))
    BY AppendedWellFormed, AppendedIntact DEF Events, ChainIntact
  <2> QED BY <1>1, <1>3, <2>1 DEF AppendEntry
<1>4. ASSUME NEW w \in Writers, NEW c \in Cutoffs, RetainIntent(w, c) PROVE AuditInv'
  <2>1. StoreFormed(Appended(db, "entry")) /\ (faults = 0 => Intact(Appended(db, "entry")))
    BY AppendedWellFormed, AppendedIntact DEF Events, ChainIntact
  <2>2. retaining' \in [Writers -> Nat]
    BY <1>4, AuditAssumption DEF RetainIntent
  <2> QED BY <1>1, <1>4, <2>1, <2>2 DEF RetainIntent
<1>5. ASSUME NEW w \in Writers, RetainCommit(w) PROVE AuditInv'
  <2> DEFINE pruned == Pruned(db, retaining[w])
  <2>1. StoreFormed(pruned) /\ (faults = 0 => Intact(pruned))
    BY <1>5, PrunedWellFormed, PrunedIntact DEF RetainCommit, ChainIntact
  <2>2. Commit(Appended(pruned, "pruned")) /\ UNCHANGED faults /\ retaining' \in [Writers -> Nat]
    BY <1>5 DEF RetainCommit
  <2> HIDE DEF pruned
  <2>3. StoreFormed(Appended(pruned, "pruned")) /\ (faults = 0 => Intact(Appended(pruned, "pruned")))
    BY <2>1, AppendedWellFormed, AppendedIntact DEF Events
  <2> QED BY <1>1, <2>2, <2>3
<1>6. ASSUME NEW w \in Writers, RetainBlocked(w) PROVE AuditInv'
  <2>1. StoreFormed(Appended(db, "entry")) /\ (faults = 0 => Intact(Appended(db, "entry")))
    BY AppendedWellFormed, AppendedIntact DEF Events, ChainIntact
  <2>2. retaining' \in [Writers -> Nat] /\ UNCHANGED faults
    BY <1>6 DEF RetainBlocked
  <2> QED BY <1>1, <1>2, <1>6, <2>1, <2>2 DEF RetainBlocked
<1>7. ASSUME NEW w \in Writers, WriterCrash(w) PROVE AuditInv'
  BY <1>2, <1>7 DEF WriterCrash
<1>8. ASSUME NEW keys \in BOOLEAN, ReadState(keys) PROVE AuditInv'
  BY <1>2, <1>8 DEF ReadState
<1>9. ASSUME NEW valid \in BOOLEAN, Answer(valid)
      PROVE  /\ audit' = [k \in DOMAIN audit' |-> audit'[k]] /\ "pc" \in DOMAIN audit'
             /\ audit'.pc \in {"valid", "invalid"}
  BY <1>9 DEF Answer, Verdict
<1>10. CASE ReadReceipts
  BY <1>2, <1>9, <1>10 DEF ReadReceipts
<1>11. CASE CountStaleLinks
  BY <1>2, <1>9, <1>11 DEF CountStaleLinks
<1>12. CASE ReadLinks
  BY <1>2, <1>12 DEF ReadLinks
<1>13. CASE WalkLink
  BY <1>2, <1>9, <1>13 DEF WalkLink
<1>14. CASE CompareHead
  BY <1>2, <1>9, <1>14 DEF CompareHead
<1>15. CASE Fault
  <2>1. StoreFormed(db')
    BY <1>15, FaultWellFormed
  <2>2. faults' = faults + 1 /\ UNCHANGED <<retaining, audit>>
    BY <1>15 DEF Fault
  <2> QED BY <2>1, <2>2 DEF ChainIntact
<1>16. CASE UNCHANGED auditChainVars
  BY <1>2, <1>16 DEF auditChainVars
<1> QED
  BY <1>3, <1>4, <1>5, <1>6, <1>7, <1>8, <1>10, <1>11, <1>12, <1>13, <1>14, <1>15, <1>16
  DEF AuditChainNext, WriterStep, VerifyStep

(* The invariant holds of a migrated store.                                *)
LEMMA AuditInitially == AuditChainInit => AuditInv
<1> SUFFICES ASSUME AuditChainInit PROVE AuditInv
  OBVIOUS
<1>1. PICK n \in 0 .. MaxLegacy : db = Migrated(n)
  BY DEF AuditChainInit
<1>2. StoreFormed(db) /\ Intact(db)
  BY <1>1, MigratedIsChain
<1> QED BY <1>2 DEF AuditChainInit, AuditInv, ChainIntact, Idle

(* The inductive invariant holds in every state of the store.              *)
THEOREM AuditInvariant == AuditChainSpec => []AuditInv
<1>1. AuditInv /\ [AuditChainNext]_auditChainVars => AuditInv'
  BY AuditInductive
<1> QED BY <1>1, AuditInitially, PTL DEF AuditChainSpec

(* The columns keep their types in every state.                            *)
THEOREM AuditTypeCorrect == AuditChainSpec => []AuditTypeOK
<1>1. AuditInv => AuditTypeOK
  BY DEF AuditInv, StoreFormed, AuditTypeOK
<1> QED BY <1>1, AuditInvariant, PTL

(* Without a fault of the file, appends, prunings and crashes of any       *)
(* number of processes leave one unbroken chain (appendStorageRow,         *)
(* applyAuditRetention).                                                   *)
THEOREM AuditChainIntact == AuditChainSpec => []ChainIntact
<1>1. AuditInv => ChainIntact
  BY DEF AuditInv
<1> QED BY <1>1, AuditInvariant, PTL

-----------------------------------------------------------------------------
(* Refinement: every step is one of the log's, or changes nothing of it.   *)
Rows(d) == Restrict(d.events, {k \in DOMAIN d.events : k > d.state.anchor})

(* An append is the log's, of the same event.                              *)
LEMMA AppendRefines ==
  ASSUME StoreFormed(db), NEW e \in Events, db' = Appended(db, e)
  PROVE  Log!Append1(e)
<1>1. PICK a, n, hash : /\ a = Appended(db, e)
                        /\ n = db.state.head + 1
                        /\ hash = Append(db.state.headHash, e)
                        /\ Columns(db, e, a, n, hash)
  BY AppendedColumns
<1>2. /\ db'.state.headHash = hash /\ db'.state.anchor = db.state.anchor
      /\ DOMAIN db'.events = DOMAIN db.events \cup {n}
      /\ db'.events[n] = e /\ \A k \in DOMAIN db.events : db'.events[k] = db.events[k]
  BY <1>1 DEF Columns
<1>3. Len(hash) = n /\ n > db.state.anchor /\ n \notin DOMAIN db.events
  BY <1>1, AppendProperties DEF StoreFormed
<1>4. DOMAIN Rows(db) = {k \in DOMAIN db.events : k > db.state.anchor}
  BY DEF Rows, Restrict
<1>5. Rows(db') = [k \in DOMAIN Rows(db) \cup {n} |-> IF k = n THEN e ELSE Rows(db)[k]]
  BY <1>2, <1>3, <1>4 DEF Rows, Restrict
<1> QED BY <1>1, <1>2, <1>3, <1>5 DEF Log!Append1, Rows

(* A retention drops what the log may drop, and its own entry is appended  *)
(* first.                                                                  *)
LEMMA PruneRefines ==
  ASSUME StoreFormed(db), NEW c, Retainable(db, c), db' = Appended(Pruned(db, c), "pruned")
  PROVE  Log!Prune(c, "pruned") /\ c \in 1 .. Len(db.state.headHash)
<1>1. PICK p, receipt : p = Pruned(db, c) /\ PrunedColumns(db, c, p, receipt)
  BY PrunedByColumn
<1>2. StoreFormed(p)
  BY <1>1, PrunedWellFormed
<1>3. PICK a, n, hash : /\ a = Appended(p, "pruned")
                        /\ n = p.state.head + 1
                        /\ hash = Append(p.state.headHash, "pruned")
                        /\ Columns(p, "pruned", a, n, hash)
  BY <1>2, AppendedColumns DEF Events
<1>4. /\ c \in Nat /\ db.state.anchor < c /\ c < db.state.head
      /\ db.state.anchor \in Nat /\ db.state.head \in Nat
      /\ Len(db.state.headHash) = db.state.head
  BY AuditAssumption DEF Retainable, StoreFormed
<1>5. /\ p.state.anchor = c /\ p.state.head = db.state.head
      /\ p.state.headHash = db.state.headHash
  BY <1>1 DEF PrunedColumns
<1>6. /\ db'.state.headHash = hash /\ db'.state.anchor = c
      /\ DOMAIN db'.events = DOMAIN p.events \cup {n}
      /\ db'.events[n] = "pruned" /\ \A k \in DOMAIN p.events : db'.events[k] = p.events[k]
  BY <1>1, <1>3, <1>5 DEF Columns
<1>7. Len(hash) = n /\ n > c /\ n \notin DOMAIN p.events /\ n \notin DOMAIN db.events
  <2>1. n = db.state.head + 1 /\ Len(hash) = n
    BY <1>3, <1>5, <1>2, AppendProperties DEF StoreFormed, Events
  <2>2. n \notin DOMAIN p.events /\ n \notin DOMAIN db.events
    BY <1>2, <1>3, <1>4, <1>5 DEF StoreFormed
  <2> QED BY <1>4, <2>1, <2>2
<1>8. /\ \A k \in DOMAIN db.events : k > c <=> k \in DOMAIN p.events /\ k > c
      /\ DOMAIN p.events \subseteq DOMAIN db.events
      /\ \A k \in DOMAIN p.events : p.events[k] = db.events[k]
  <2>1. PICK s : /\ s = {k \in DOMAIN db.links : k <= c}
                 /\ DOMAIN p.events = DOMAIN db.events \ s
    BY <1>1 DEF PrunedColumns
  <2>2. \A k \in DOMAIN p.events : p.events[k] = db.events[k]
    BY <1>1 DEF PrunedColumns
  <2>3. \A k \in DOMAIN db.events : k \in Nat
    BY <1>4 DEF StoreFormed
  <2> QED BY <1>4, <2>1, <2>2, <2>3
<1>9. DOMAIN Rows(db) = {k \in DOMAIN db.events : k > db.state.anchor}
  BY DEF Rows, Restrict
<1>10. \A k \in DOMAIN db.events : k \in Nat /\ (k > c => k > db.state.anchor)
  BY <1>4 DEF StoreFormed
<1>11. {k \in DOMAIN db'.events : k > c} = {k \in DOMAIN Rows(db) : k > c} \cup {n}
  BY <1>6, <1>7, <1>8, <1>9, <1>10
<1>12. Rows(db') = [k \in {i \in DOMAIN Rows(db) : i > c} \cup {n} |->
                      IF k = n THEN "pruned" ELSE Rows(db)[k]]
  <2>1. ASSUME NEW k \in {i \in DOMAIN Rows(db) : i > c}
        PROVE  db'.events[k] = Rows(db)[k] /\ k # n
    BY <1>6, <1>7, <1>8, <1>9 DEF Rows, Restrict
  <2>2. Rows(db') = [k \in {i \in DOMAIN Rows(db) : i > c} \cup {n} |-> db'.events[k]]
    BY <1>6, <1>11 DEF Rows, Restrict
  <2> QED BY <1>6, <2>1, <2>2
<1>13. db'.state.headHash = Append(db.state.headHash, "pruned") /\ Len(db'.state.headHash) = n
  BY <1>3, <1>5, <1>6, <1>7
<1>14. c \in db.state.anchor + 1 .. Len(db.state.headHash) - 1
  BY <1>4
<1>15. Rows(db') = [k \in {i \in DOMAIN Rows(db) : i > c} \cup {Len(db'.state.headHash)} |->
                     IF k = Len(db'.state.headHash) THEN "pruned" ELSE Rows(db)[k]]
  BY <1>12, <1>13
<1>16. Log!Prune(c, "pruned")
  BY <1>6, <1>13, <1>14, <1>15 DEF Log!Prune, Rows
<1> QED BY <1>4, <1>16

(* What a fault leaves of the rows the log may be left with.               *)
LEMMA FaultRefines ==
  ASSUME StoreFormed(db), Fault
  PROVE  \/ \E n \in DOMAIN Rows(db) : Log!Damage(n)
         \/ Rows(db') = Rows(db) /\ db'.state = db.state
<1>1. PICK n \in DOMAIN db.links \cap DOMAIN db.events :
         db' \in {[db EXCEPT !.events = Restrict(@, DOMAIN @ \ {n})],
                 [db EXCEPT !.links = Restrict(@, DOMAIN @ \ {n})],
                 [db EXCEPT !.events = Restrict(@, DOMAIN @ \ {n}),
                            !.links = Restrict(@, DOMAIN @ \ {n})],
                 [db EXCEPT !.events[n] = CHOOSE e \in Events : e # db.links[n].payload]}
  BY DEF Fault
<1>2. db = [events |-> db.events, links |-> db.links, receipts |-> db.receipts, state |-> db.state]
  BY DEF StoreFormed
<1>3. /\ db'.state = db.state
      /\ \/ db'.events = db.events
         \/ db'.events = Restrict(db.events, DOMAIN db.events \ {n})
         \/ db'.events = [db.events EXCEPT ![n] = CHOOSE e \in Events : e # db.links[n].payload]
  BY <1>1, <1>2
<1>4. n \in DOMAIN db.events /\ n > db.state.anchor
  BY DEF StoreFormed
<1>5. DOMAIN Rows(db) = {k \in DOMAIN db.events : k > db.state.anchor} /\ n \in DOMAIN Rows(db)
  BY <1>4 DEF Rows, Restrict
<1>6. CASE db'.events = db.events
  BY <1>3, <1>6 DEF Rows
<1>7. CASE db'.events = Restrict(db.events, DOMAIN db.events \ {n})
  <2>1. Rows(db') = Log!Restrict(Rows(db), DOMAIN Rows(db) \ {n})
    BY <1>3, <1>5, <1>7 DEF Rows, Restrict, Log!Restrict
  <2>2. Log!Damage(n)
    BY <1>3, <1>5, <2>1 DEF Log!Damage, Rows
  <2> QED BY <1>5, <2>2
<1>8. CASE db'.events = [db.events EXCEPT ![n] = CHOOSE e \in Events : e # db.links[n].payload]
  <2>1. \E e \in Events : e # db.links[n].payload
    BY DEF Events
  <2>2. PICK e \in Events : e = CHOOSE x \in Events : x # db.links[n].payload
    BY <2>1
  <2>3. Rows(db') = [Rows(db) EXCEPT ![n] = e]
    <3>1. db'.events = [k \in DOMAIN db.events |-> IF k = n THEN e ELSE db.events[k]]
      BY <1>4, <1>8, <2>2
    <3> QED BY <1>3, <1>5, <3>1 DEF Rows, Restrict
  <2>4. Log!Damage(n)
    BY <1>3, <1>5, <2>2, <2>3 DEF Log!Damage, Rows
  <2> QED BY <1>5, <2>4
<1> QED BY <1>3, <1>6, <1>7, <1>8

(* Steps of writers and faults are steps of the log.                       *)
LEMMA LogSteps ==
  ASSUME AuditInv, [AuditChainNext]_auditChainVars
  PROVE  [Log!Next]_<<db.state.headHash, db.state.anchor, Rows(db)>>
<1> DEFINE Same == UNCHANGED <<db.state.headHash, db.state.anchor, Rows(db)>>
<1>1. ASSUME UNCHANGED db PROVE Same
  BY <1>1
<1>2. ASSUME NEW d, Commit(d) PROVE db' = d
  BY <1>2 DEF Commit
<1>3. ASSUME NEW w \in Writers, AppendEntry(w) PROVE Log!Next
  BY <1>2, <1>3, AppendRefines DEF AppendEntry, AuditInv, Events, Log!Next
<1>4. ASSUME NEW w \in Writers, NEW c \in Cutoffs, RetainIntent(w, c) PROVE Log!Next
  BY <1>2, <1>4, AppendRefines DEF RetainIntent, AuditInv, Events, Log!Next
<1>5. ASSUME NEW w \in Writers, RetainCommit(w) PROVE Log!Next
  <2>1. Log!Prune(retaining[w], "pruned") /\ retaining[w] \in 1 .. Len(db.state.headHash)
    BY <1>2, <1>5, PruneRefines DEF RetainCommit, AuditInv
  <2> QED BY <2>1 DEF Log!Next
<1>6. ASSUME NEW w \in Writers, RetainBlocked(w) PROVE Log!Next \/ Same
  BY <1>1, <1>2, <1>6, AppendRefines DEF RetainBlocked, AuditInv, Events, Log!Next
<1>7. ASSUME Fault PROVE Log!Next \/ Same
  <2>1. Log!Next \/ (Rows(db') = Rows(db) /\ db'.state = db.state)
    BY <1>7, FaultRefines DEF AuditInv, Log!Next, Rows
  <2> QED BY <2>1
<1>8. ASSUME NEW w \in Writers, WriterCrash(w) PROVE Same
  BY <1>8, <1>1 DEF WriterCrash
<1>9. ASSUME VerifyStep PROVE Same
  <2>1. UNCHANGED db
    BY <1>9 DEF VerifyStep, ReadState, ReadReceipts, CountStaleLinks, ReadLinks, WalkLink, CompareHead
  <2> QED BY <1>1, <2>1
<1>10. ASSUME UNCHANGED auditChainVars PROVE Same
  BY <1>1, <1>10 DEF auditChainVars
<1> HIDE DEF Same
<1>11. Log!Next \/ Same
  BY <1>3, <1>4, <1>5, <1>6, <1>7, <1>8, <1>9, <1>10 DEF AuditChainNext, WriterStep
<1> QED BY <1>11 DEF Same

(* The migrated events are a log.                                          *)
LEMMA LogInitially == AuditChainInit => Log!Init
<1> SUFFICES ASSUME AuditChainInit PROVE Log!Init
  OBVIOUS
<1>1. PICK n \in 0 .. MaxLegacy : db = Migrated(n)
  BY DEF AuditChainInit
<1>2. n \in Nat
  BY AuditAssumption
<1>3. /\ db.events = Legacy(n) /\ db.state.headHash = Legacy(n) /\ db.state.anchor = 0
  <2>1. PICK d : /\ d = Migrated(n)
                 /\ d.events = Legacy(n)
                 /\ d.state = [anchor |-> 0, anchorHash |-> <<>>, head |-> n,
                               headHash |-> Legacy(n), receipt |-> 0]
    BY <1>2, MigratedByColumn
  <2> QED BY <1>1, <2>1
<1>4. Legacy(n) \in Seq(Events) /\ DOMAIN Legacy(n) = 1 .. n
  BY <1>2, LegacyChain
<1>5. Rows(db) = Legacy(n)
  BY <1>3, <1>4 DEF Rows, Restrict, Legacy
<1> QED BY <1>3, <1>4, <1>5 DEF Log!Init, Rows

(* The store implements the append-only log, faults of the file included.  *)
THEOREM AuditImplementsLog == AuditChainSpec => ImplementsAuditLog
<1>1. AuditInv /\ [AuditChainNext]_auditChainVars
        => [Log!Next]_<<db.state.headHash, db.state.anchor,
                        Restrict(db.events, {n \in DOMAIN db.events : n > db.state.anchor})>>
  BY LogSteps DEF Rows
<1> QED BY <1>1, LogInitially, AuditInvariant, PTL
        DEF AuditChainSpec, ImplementsAuditLog, Log!Spec

-----------------------------------------------------------------------------
(* The hash h commits to the first n events of the log that H commits to.  *)
Commits(h, n, H) == h \in Seq(Events) /\ Len(h) = n /\ \A i \in 1..n : h[i] = H[i]

(* Whatever rows the file lost or changed, the links and receipts that are *)
(* there are those that were written.                                      *)
Traced(d) ==
  /\ HistoryAgrees(d.receipts, d.state, TRUE)
  /\ Commits(d.state.anchorHash, d.state.anchor, d.state.headHash)
  /\ \A n \in DOMAIN d.links :
       /\ Commits(d.links[n].previous, n - 1, d.state.headHash)
       /\ Commits(d.links[n].hash, n, d.state.headHash)
       /\ d.links[n].hash = Append(d.links[n].previous, d.links[n].payload)

(* The event that link n names is there and is the one it names.           *)
WholeLink(links, events, n) == n \in DOMAIN links /\ n \in DOMAIN events /\ events[n] = links[n].payload

(* What is wrong with a store of which only the links and events may be:   *)
(* s is its state row, or one from before it was written to.               *)
Defective(d, s) ==
  \/ \E n \in s.anchor + 1 .. s.head : ~WholeLink(d.links, d.events, n)
  \/ \E n \in DOMAIN d.events : n <= s.anchor

(* Two hashes that commit to as many events of one log are equal.          *)
LEMMA CommitsOnce ==
  ASSUME NEW n \in Nat, NEW H, NEW h, NEW g, Commits(h, n, H), Commits(g, n, H)
  PROVE  h = g
BY SeqEqual DEF Commits

(* Where nothing is wrong with a traced store, it is intact.               *)
LEMMA SoundIsIntact ==
  ASSUME NEW d, StoreFormed(d), Traced(d), ~Defective(d, d.state)
  PROVE  Intact(d)
<1> DEFINE from == d.state.anchor + 1
           span == from .. d.state.head
           before(n) == IF n = from THEN d.state.anchorHash ELSE d.links[n - 1].hash
<1>1. d.state.anchor \in Nat /\ d.state.head \in Nat /\ d.state.anchor <= d.state.head
  BY DEF StoreFormed
<1>2. \A n \in span : WholeLink(d.links, d.events, n)
  BY DEF Defective
<1>3. DOMAIN d.links = span
  BY <1>2 DEF WholeLink, StoreFormed
<1>4. DOMAIN d.events = span
  <2>1. \A n \in DOMAIN d.events : n \in 1 .. d.state.head /\ ~(n <= d.state.anchor)
    BY DEF Defective, StoreFormed
  <2>2. DOMAIN d.events \subseteq span
    BY <1>1, <2>1
  <2>3. span \subseteq DOMAIN d.events
    BY <1>2 DEF WholeLink
  <2> QED BY <2>2, <2>3
<1>5. ASSUME NEW n \in span PROVE LinkAgrees(d.links[n], before(n), d.events, n)
  <2>1. /\ Commits(d.links[n].previous, n - 1, d.state.headHash)
        /\ d.links[n].hash = Append(d.links[n].previous, d.links[n].payload)
    BY <1>3 DEF Traced
  <2>2. Commits(before(n), n - 1, d.state.headHash)
    <3>1. CASE n = from
      BY <1>1, <3>1 DEF Traced
    <3>2. CASE n # from
      <4>1. n - 1 \in span
        BY <1>1, <3>2
      <4> QED BY <1>3, <3>2, <4>1 DEF Traced
    <3> QED BY <3>1, <3>2
  <2>3. n - 1 \in Nat
    BY <1>1
  <2>4. d.links[n].previous = before(n)
    BY <2>1, <2>2, <2>3, CommitsOnce
  <2> HIDE DEF before
  <2> QED BY <1>2, <2>1, <2>4 DEF LinkAgrees, WholeLink
<1>6. d.state.headHash = IF span = {} THEN d.state.anchorHash ELSE d.links[d.state.head].hash
  <2>1. Commits(d.state.headHash, d.state.head, d.state.headHash)
    BY DEF Commits, StoreFormed
  <2>2. CASE span = {}
    <3>1. d.state.anchor = d.state.head
      BY <1>1, <2>2
    <3>2. Commits(d.state.anchorHash, d.state.head, d.state.headHash)
      BY <3>1 DEF Traced
    <3> QED BY <1>1, <2>1, <2>2, <3>2, CommitsOnce
  <2>3. CASE span # {}
    <3>1. d.state.head \in DOMAIN d.links
      BY <1>1, <1>3, <2>3
    <3>2. Commits(d.links[d.state.head].hash, d.state.head, d.state.headHash)
      BY <3>1 DEF Traced
    <3> QED BY <1>1, <2>1, <2>3, <3>2, CommitsOnce
  <2> QED BY <2>2, <2>3
<1>7. HistoryAgrees(d.receipts, d.state, TRUE)
  BY DEF Traced
<1> QED BY <1>3, <1>4, <1>5, <1>6, <1>7 DEF Intact

-----------------------------------------------------------------------------
(* An append leaves the traces where they are.                             *)
LEMMA AppendedTraced ==
  ASSUME NEW d, StoreFormed(d), Traced(d), NEW e \in Events
  PROVE  Traced(Appended(d, e))
<1>1. PICK a, n, hash : /\ a = Appended(d, e) /\ n = d.state.head + 1
                        /\ hash = Append(d.state.headHash, e) /\ Columns(d, e, a, n, hash)
  BY AppendedColumns
<1>2. /\ DOMAIN a.links = DOMAIN d.links \cup {n}
      /\ a.links[n].previous = d.state.headHash /\ a.links[n].payload = e /\ a.links[n].hash = hash
      /\ \A k \in DOMAIN d.links : a.links[k] = d.links[k]
      /\ a.receipts = d.receipts
      /\ a.state.anchor = d.state.anchor /\ a.state.anchorHash = d.state.anchorHash
      /\ a.state.head = n /\ a.state.headHash = hash /\ a.state.receipt = d.state.receipt
  BY <1>1 DEF Columns
<1>3. /\ n - 1 = d.state.head /\ d.state.head \in Nat /\ d.state.headHash \in Seq(Events)
      /\ Len(d.state.headHash) = d.state.head /\ d.state.anchor \in Nat
      /\ d.state.anchor <= d.state.head /\ \A k \in DOMAIN d.links : k \in 1 .. d.state.head
  BY <1>1 DEF StoreFormed
<1>4. /\ hash \in Seq(Events) /\ Len(hash) = n /\ \A i \in 1 .. d.state.head : hash[i] = d.state.headHash[i]
  BY <1>1, <1>3, AppendProperties
<1>5. ASSUME NEW h, NEW k \in 0 .. d.state.head, Commits(h, k, d.state.headHash)
      PROVE  Commits(h, k, hash)
  BY <1>3, <1>4, <1>5 DEF Commits
<1>6. Commits(hash, n, hash) /\ Commits(d.state.headHash, n - 1, hash)
  BY <1>3, <1>4 DEF Commits
<1>7. HistoryAgrees(a.receipts, a.state, TRUE)
  <2>1. HistoryAgrees(d.receipts, d.state, TRUE)
    BY DEF Traced
  <2> QED BY <1>2, <2>1 DEF HistoryAgrees
<1>8. Commits(a.state.anchorHash, a.state.anchor, a.state.headHash)
  BY <1>2, <1>3, <1>5 DEF Traced
<1>9. ASSUME NEW k \in DOMAIN a.links
      PROVE  /\ Commits(a.links[k].previous, k - 1, a.state.headHash)
             /\ Commits(a.links[k].hash, k, a.state.headHash)
             /\ a.links[k].hash = Append(a.links[k].previous, a.links[k].payload)
  <2>1. CASE k = n
    BY <1>1, <1>2, <1>6, <2>1
  <2>2. CASE k # n
    <3>1. k \in DOMAIN d.links /\ a.links[k] = d.links[k] /\ k - 1 \in 0 .. d.state.head
          /\ k \in 0 .. d.state.head
      BY <1>2, <1>3, <2>2
    <3>2. /\ Commits(d.links[k].previous, k - 1, d.state.headHash)
          /\ Commits(d.links[k].hash, k, d.state.headHash)
          /\ d.links[k].hash = Append(d.links[k].previous, d.links[k].payload)
      BY <3>1 DEF Traced
    <3> QED BY <1>2, <1>5, <3>1, <3>2
  <2> QED BY <2>1, <2>2
<1> QED BY <1>1, <1>7, <1>8, <1>9 DEF Traced

(* A pruning keeps the traces: its receipt's hashes are links' that were   *)
(* written.                                                                *)
LEMMA PrunedTraced ==
  ASSUME NEW d, StoreFormed(d), Traced(d), NEW c, Retainable(d, c)
  PROVE  Traced(Pruned(d, c))
<1>1. PICK a, receipt : a = Pruned(d, c) /\ PrunedColumns(d, c, a, receipt)
  BY PrunedByColumn
<1>2. HistoryAgrees(a.receipts, a.state, TRUE)
  BY <1>1, PrunedHistory DEF Traced
<1>3. /\ DOMAIN a.links \subseteq DOMAIN d.links /\ c \in DOMAIN d.links
      /\ \A k \in DOMAIN a.links : a.links[k] = d.links[k]
      /\ a.state.anchor = c /\ a.state.anchorHash = d.links[c].hash
      /\ a.state.headHash = d.state.headHash
  BY <1>1 DEF PrunedColumns, Retainable
<1> QED BY <1>1, <1>2, <1>3 DEF Traced

-----------------------------------------------------------------------------
(* What the rows of d that are still there in e are in e.                  *)
Later(d, e) ==
  /\ d.state.head <= e.state.head /\ d.state.anchor <= e.state.anchor
  /\ \A n \in DOMAIN e.links : n <= d.state.head => n \in DOMAIN d.links /\ e.links[n] = d.links[n]
  /\ \A n \in DOMAIN e.events : n <= d.state.head =>
       /\ n \in DOMAIN d.events
       /\ e.events[n] = d.events[n] \/ (n \in DOMAIN d.links /\ e.events[n] # d.links[n].payload)
  /\ \A n \in DOMAIN d.events : n <= d.state.anchor => n \in DOMAIN e.events

(* An append keeps every row.                                              *)
LEMMA LaterAppended ==
  ASSUME NEW d, StoreFormed(d), NEW e \in Events
  PROVE  Later(d, Appended(d, e))
<1>1. PICK a, n, hash : /\ a = Appended(d, e) /\ n = d.state.head + 1
                        /\ hash = Append(d.state.headHash, e) /\ Columns(d, e, a, n, hash)
  BY AppendedColumns
<1>2. /\ DOMAIN a.links = DOMAIN d.links \cup {n} /\ DOMAIN a.events = DOMAIN d.events \cup {n}
      /\ \A k \in DOMAIN d.links : a.links[k] = d.links[k]
      /\ \A k \in DOMAIN d.events : a.events[k] = d.events[k]
      /\ a.state.anchor = d.state.anchor /\ a.state.head = n
  BY <1>1 DEF Columns
<1>3. n = d.state.head + 1 /\ d.state.head \in Nat /\ d.state.anchor \in Nat
  BY <1>1 DEF StoreFormed
<1> QED BY <1>1, <1>2, <1>3 DEF Later

(* A pruning keeps the rows after its cutoff.                              *)
LEMMA LaterPruned ==
  ASSUME NEW d, StoreFormed(d), NEW c, Retainable(d, c)
  PROVE  Later(d, Pruned(d, c))
<1>1. PICK a, receipt : a = Pruned(d, c) /\ PrunedColumns(d, c, a, receipt)
  BY PrunedByColumn
<1>2. /\ \A k \in DOMAIN a.events : a.events[k] = d.events[k]
      /\ \A k \in DOMAIN a.links : a.links[k] = d.links[k]
      /\ a.state.anchor = c /\ a.state.head = d.state.head
  BY <1>1 DEF PrunedColumns
<1>3. PICK chained : /\ chained = {k \in DOMAIN d.links : k <= c}
                     /\ DOMAIN a.events = DOMAIN d.events \ chained
                     /\ DOMAIN a.links = DOMAIN d.links \ chained
  BY <1>1 DEF PrunedColumns
<1>4. /\ c \in Nat /\ d.state.anchor < c /\ d.state.anchor \in Nat /\ d.state.head \in Nat
      /\ \A k \in DOMAIN d.links : k \in Nat /\ k > d.state.anchor
  BY AuditAssumption DEF Retainable, StoreFormed
<1>5. \A k \in DOMAIN d.events : k \in Nat
  BY DEF StoreFormed
<1> QED BY <1>1, <1>2, <1>3, <1>4, <1>5 DEF Later

(* A fault drops a row, or changes an event so that it is not its link's.  *)
LEMMA LaterFault ==
  ASSUME StoreFormed(db), Fault
  PROVE  Later(db, db') /\ (Traced(db) => Traced(db'))
<1>1. PICK n \in DOMAIN db.links \cap DOMAIN db.events :
         db' \in {[db EXCEPT !.events = Restrict(@, DOMAIN @ \ {n})],
                 [db EXCEPT !.links = Restrict(@, DOMAIN @ \ {n})],
                 [db EXCEPT !.events = Restrict(@, DOMAIN @ \ {n}),
                            !.links = Restrict(@, DOMAIN @ \ {n})],
                 [db EXCEPT !.events[n] = CHOOSE e \in Events : e # db.links[n].payload]}
  BY DEF Fault
<1>2. db = [events |-> db.events, links |-> db.links, receipts |-> db.receipts, state |-> db.state]
  BY DEF StoreFormed
<1>3. /\ db'.receipts = db.receipts /\ db'.state = db.state
      /\ \/ db'.events = db.events
         \/ db'.events = Restrict(db.events, DOMAIN db.events \ {n})
         \/ db'.events = [db.events EXCEPT ![n] = CHOOSE e \in Events : e # db.links[n].payload]
      /\ db'.links = db.links \/ db'.links = Restrict(db.links, DOMAIN db.links \ {n})
  BY <1>1, <1>2
<1>4. (CHOOSE e \in Events : e # db.links[n].payload) # db.links[n].payload
  <2>1. \E e \in Events : e # db.links[n].payload
    BY DEF Events
  <2> QED BY <2>1
<1>5. /\ DOMAIN db'.links \subseteq DOMAIN db.links
      /\ \A k \in DOMAIN db'.links : db'.links[k] = db.links[k]
  BY <1>3 DEF Restrict
<1>6. /\ DOMAIN db'.events \subseteq DOMAIN db.events
      /\ \A k \in DOMAIN db'.events :
           db'.events[k] = db.events[k] \/ (k \in DOMAIN db.links /\ db'.events[k] # db.links[k].payload)
      /\ \A k \in DOMAIN db.events : k # n => k \in DOMAIN db'.events
  <2>1. CASE db'.events = db.events
    BY <2>1
  <2>2. CASE db'.events = Restrict(db.events, DOMAIN db.events \ {n})
    BY <2>2 DEF Restrict
  <2>3. CASE db'.events = [db.events EXCEPT ![n] = CHOOSE e \in Events : e # db.links[n].payload]
    <3>1. db.events = [k \in DOMAIN db.events |-> db.events[k]]
      BY DEF StoreFormed
    <3> QED BY <1>4, <2>3, <3>1
  <2> QED BY <1>3, <2>1, <2>2, <2>3
<1>7. /\ n \in Nat /\ n > db.state.anchor /\ db.state.anchor \in Nat /\ db.state.head \in Nat
  BY DEF StoreFormed
<1>8. Later(db, db')
  <2>1. \A k \in DOMAIN db.events : k <= db.state.anchor => k # n
    BY <1>7
  <2> QED BY <1>3, <1>5, <1>6, <1>7, <2>1 DEF Later
<1>9. ASSUME Traced(db) PROVE Traced(db')
  BY <1>3, <1>5, <1>9 DEF Traced
<1> QED BY <1>8, <1>9

(* What was wrong when a verification read the state row stays wrong.      *)
LEMMA StaysDefective ==
  ASSUME NEW d, NEW e, NEW s, StoreFormed(d), Later(d, e), Defective(d, s),
         s.anchor \in Nat, s.head \in Nat, s.anchor <= d.state.anchor, s.head <= d.state.head
  PROVE  Defective(e, s)
<1>1. d.state.anchor \in Nat /\ d.state.head \in Nat /\ \A n \in DOMAIN d.events : n \in Nat
  BY DEF StoreFormed
<1>2. CASE \E n \in s.anchor + 1 .. s.head : ~WholeLink(d.links, d.events, n)
  <2>1. PICK n \in s.anchor + 1 .. s.head : ~WholeLink(d.links, d.events, n)
    BY <1>2
  <2>2. n <= d.state.head
    BY <1>1
  <2>3. ~WholeLink(e.links, e.events, n)
    BY <2>1, <2>2 DEF Later, WholeLink
  <2> QED BY <2>3 DEF Defective
<1>3. CASE \E n \in DOMAIN d.events : n <= s.anchor
  BY <1>1, <1>3 DEF Later, Defective
<1> QED BY <1>2, <1>3 DEF Defective

-----------------------------------------------------------------------------
Reading == {"receipts", "stale", "links"}

(* The record of a verification, by where it stands.                       *)
AuditShape ==
  /\ audit.pc \in Reading =>
       audit = [pc |-> audit.pc, keys |-> audit.keys, state |-> audit.state,
                intact |-> audit.intact, quiet |-> audit.quiet]
  /\ audit.pc = "walk" =>
       audit = [pc |-> "walk", keys |-> audit.keys, state |-> audit.state, intact |-> audit.intact,
                quiet |-> audit.quiet, links |-> audit.links, expected |-> audit.expected,
                previous |-> audit.previous]
  /\ audit.pc \in {"valid", "invalid"} =>
       audit = [pc |-> audit.pc, keys |-> audit.keys, intact |-> audit.intact,
                quiet |-> audit.quiet, pruned |-> audit.pruned]
  /\ audit.pc = "idle" => audit = Idle

(* The state row that was read is not ahead of the store's.                *)
StateRead ==
  /\ audit.state.anchor \in Nat /\ audit.state.head \in Nat
  /\ audit.state.anchor <= audit.state.head
  /\ audit.state.anchor <= db.state.anchor /\ audit.state.head <= db.state.head

(* The links that were read, and what is wrong where the walk still goes.  *)
LinksRead ==
  /\ audit.expected \in Nat
  /\ \A n \in DOMAIN audit.links : n \in Nat /\ n <= db.state.head
  /\ \A n \in DOMAIN audit.links \cap DOMAIN db.links : audit.links[n] = db.links[n]

DefectAhead ==
  \/ \E n \in audit.state.anchor + 1 .. audit.state.head :
       n >= audit.expected /\ ~WholeLink(audit.links, db.events, n)
  \/ \E n \in DOMAIN db.events : n <= audit.state.anchor

VerdictInv ==
  /\ AuditInv /\ Traced(db) /\ AuditShape
  /\ audit.pc \in Reading => StateRead /\ (audit.intact \/ Defective(db, audit.state))
  /\ audit.pc = "walk" => StateRead /\ LinksRead /\ (audit.intact \/ DefectAhead)
  /\ audit.pc = "valid" => audit.intact

(* A commit changes nothing of a verification but that it is not quiet.    *)
AuditKept ==
  /\ AuditShape' /\ audit'.pc = audit.pc
  /\ audit.pc \in Reading \cup {"walk"} => audit'.state = audit.state
  /\ audit.pc \in Reading \cup {"walk", "valid", "invalid"} => audit'.intact = audit.intact
  /\ audit.pc = "walk" => audit'.links = audit.links /\ audit'.expected = audit.expected

(* A commit between two statements keeps the record of a verification.     *)
LEMMA CommitKeepsAudit ==
  ASSUME AuditShape, audit.pc \in {"idle", "receipts", "stale", "links", "walk", "valid", "invalid"},
         NEW d, Commit(d) \/ UNCHANGED audit
  PROVE  AuditKept
<1>1. CASE UNCHANGED audit
  BY <1>1 DEF AuditKept, AuditShape
<1>2. ASSUME Commit(d) PROVE AuditKept
  <2>1. audit' = IF "quiet" \in DOMAIN audit THEN [audit EXCEPT !.quiet = FALSE] ELSE audit
    BY <1>2 DEF Commit
  <2>2. CASE audit.pc \in Reading
    <3>1. audit = [pc |-> audit.pc, keys |-> audit.keys, state |-> audit.state,
                   intact |-> audit.intact, quiet |-> audit.quiet]
      BY <2>2 DEF AuditShape
    <3>2. audit' = [pc |-> audit.pc, keys |-> audit.keys, state |-> audit.state,
                    intact |-> audit.intact, quiet |-> FALSE]
      BY <2>1, <3>1
    <3> QED BY <2>2, <3>2 DEF AuditKept, AuditShape, Reading
  <2>3. CASE audit.pc = "walk"
    <3>1. audit = [pc |-> "walk", keys |-> audit.keys, state |-> audit.state, intact |-> audit.intact,
                   quiet |-> audit.quiet, links |-> audit.links, expected |-> audit.expected,
                   previous |-> audit.previous]
      BY <2>3 DEF AuditShape
    <3>2. audit' = [pc |-> "walk", keys |-> audit.keys, state |-> audit.state, intact |-> audit.intact,
                    quiet |-> FALSE, links |-> audit.links, expected |-> audit.expected,
                    previous |-> audit.previous]
      <4>1. audit' = [audit EXCEPT !.quiet = FALSE]
        BY <2>1, <3>1
      <4>2. PICK keys, state, intact, quiet, links, expected, previous :
              /\ audit = [pc |-> "walk", keys |-> keys, state |-> state, intact |-> intact, quiet |-> quiet,
                          links |-> links, expected |-> expected, previous |-> previous]
              /\ keys = audit.keys /\ state = audit.state /\ intact = audit.intact
              /\ links = audit.links /\ expected = audit.expected /\ previous = audit.previous
        BY <3>1
      <4>3. audit' = [pc |-> "walk", keys |-> keys, state |-> state, intact |-> intact, quiet |-> FALSE,
                      links |-> links, expected |-> expected, previous |-> previous]
        BY <4>1, <4>2
      <4> QED BY <4>2, <4>3
    <3> QED BY <2>3, <3>2 DEF AuditKept, AuditShape, Reading
  <2>4. CASE audit.pc \in {"valid", "invalid"}
    <3>1. audit = [pc |-> audit.pc, keys |-> audit.keys, intact |-> audit.intact,
                   quiet |-> audit.quiet, pruned |-> audit.pruned]
      BY <2>4 DEF AuditShape
    <3>2. audit' = [pc |-> audit.pc, keys |-> audit.keys, intact |-> audit.intact,
                    quiet |-> FALSE, pruned |-> audit.pruned]
      BY <2>1, <3>1
    <3> QED BY <2>4, <3>2 DEF AuditKept, AuditShape, Reading
  <2>5. CASE audit.pc = "idle"
    <3>1. audit = Idle
      BY <2>5 DEF AuditShape
    <3>2. audit' = Idle
      BY <2>1, <3>1 DEF Idle
    <3> QED BY <2>5, <3>2 DEF AuditKept, AuditShape, Reading, Idle
  <2> QED BY <2>2, <2>3, <2>4, <2>5 DEF Reading
<1> QED BY <1>1, <1>2

(* Whatever a writer or a fault does to the store, what is wrong will be   *)
(* found.                                                                  *)
LEMMA WrittenKeepsVerdict ==
  ASSUME VerdictInv, AuditInv', Traced(db'), Later(db, db'), AuditKept
  PROVE  VerdictInv'
<1>1. StoreFormed(db) /\ db.state.anchor \in Nat /\ db.state.head \in Nat
      /\ db'.state.anchor \in Nat /\ db'.state.head \in Nat
      /\ db.state.anchor <= db'.state.anchor /\ db.state.head <= db'.state.head
  BY DEF VerdictInv, AuditInv, StoreFormed, Later
<1>2. audit.pc \in Reading \cup {"walk"} => StateRead'
  BY <1>1 DEF VerdictInv, StateRead, AuditKept
<1>3. ASSUME audit.pc \in Reading, ~audit.intact PROVE Defective(db', audit'.state)
  <2>1. StateRead /\ Defective(db, audit.state)
    BY <1>3 DEF VerdictInv
  <2>2. Defective(db', audit.state)
    BY <1>1, <2>1, StaysDefective DEF StateRead
  <2> QED BY <1>3, <2>2 DEF AuditKept
<1>4. ASSUME audit.pc = "walk" PROVE LinksRead' /\ (~audit.intact => DefectAhead')
  <2>1. StateRead /\ LinksRead /\ (~audit.intact => DefectAhead)
    BY <1>4 DEF VerdictInv
  <2>2. audit'.state = audit.state /\ audit'.links = audit.links /\ audit'.expected = audit.expected
    BY <1>4 DEF AuditKept
  <2>3. LinksRead'
    <3>1. \A n \in DOMAIN audit.links : n \in Nat /\ n <= db'.state.head
      BY <1>1, <2>1 DEF LinksRead
    <3>2. ASSUME NEW n \in DOMAIN audit.links, n \in DOMAIN db'.links PROVE audit.links[n] = db'.links[n]
      <4>1. n <= db.state.head
        BY <2>1 DEF LinksRead
      <4> QED BY <2>1, <3>2, <4>1 DEF LinksRead, Later
    <3> QED BY <2>1, <2>2, <3>1, <3>2 DEF LinksRead
  <2>4. ASSUME ~audit.intact PROVE DefectAhead'
    <3>1. CASE \E n \in audit.state.anchor + 1 .. audit.state.head :
                 n >= audit.expected /\ ~WholeLink(audit.links, db.events, n)
      <4>1. PICK n \in audit.state.anchor + 1 .. audit.state.head :
                   n >= audit.expected /\ ~WholeLink(audit.links, db.events, n)
        BY <3>1
      <4>2. n <= db.state.head /\ n \in Nat
        BY <1>1, <2>1 DEF StateRead
      <4>3. ~WholeLink(audit.links, db'.events, n)
        <5>1. n \in DOMAIN db'.events =>
                /\ n \in DOMAIN db.events
                /\ db'.events[n] = db.events[n] \/ (n \in DOMAIN db.links /\ db'.events[n] # db.links[n].payload)
          BY <4>2 DEF Later
        <5>2. n \in DOMAIN audit.links \cap DOMAIN db.links => audit.links[n] = db.links[n]
          BY <2>1 DEF LinksRead
        <5> QED BY <4>1, <5>1, <5>2 DEF WholeLink
      <4> QED BY <2>2, <4>1, <4>3 DEF DefectAhead
    <3>2. CASE \E n \in DOMAIN db.events : n <= audit.state.anchor
      <4>1. PICK n \in DOMAIN db.events : n <= audit.state.anchor
        BY <3>2
      <4>2. n <= db.state.anchor
        <5>1. n \in Nat
          BY <1>1 DEF StoreFormed
        <5> QED BY <1>1, <2>1, <4>1, <5>1 DEF StateRead
      <4>3. n \in DOMAIN db'.events
        BY <4>2 DEF Later
      <4> QED BY <2>2, <4>1, <4>3 DEF DefectAhead
    <3> QED BY <2>1, <2>4, <3>1, <3>2 DEF DefectAhead
  <2> QED BY <2>3, <2>4
<1>5. audit'.pc = audit.pc /\ AuditShape'
  BY DEF AuditKept
<1>6. audit.pc \in Reading \cup {"walk", "valid", "invalid"} => (audit'.intact <=> audit.intact)
  BY DEF AuditKept
<1>7. audit.pc = "valid" => audit.intact
  BY DEF VerdictInv
<1>8. audit.pc = "walk" => (audit'.intact \/ DefectAhead')
  BY <1>4, <1>6
<1>9. audit.pc \in Reading => (audit'.intact \/ Defective(db', audit'.state))
  BY <1>3, <1>6
<1> QED BY <1>2, <1>4, <1>5, <1>6, <1>7, <1>8, <1>9 DEF VerdictInv

-----------------------------------------------------------------------------
(* The answer of a verification.                                           *)
LEMMA AnswerGiven ==
  ASSUME NEW valid \in BOOLEAN, Answer(valid)
  PROVE  /\ AuditShape' /\ audit'.pc \in {"valid", "invalid"}
         /\ audit'.pc = "valid" => valid
         /\ audit'.intact = audit.intact /\ audit'.keys = audit.keys /\ audit'.quiet = audit.quiet
         /\ audit'.pruned = (audit.state.receipt > 0)
<1>1. audit' = [pc |-> Verdict(valid), keys |-> audit.keys, intact |-> audit.intact,
                quiet |-> audit.quiet, pruned |-> audit.state.receipt > 0]
  BY DEF Answer
<1>2. Verdict(valid) \in {"valid", "invalid"} /\ (Verdict(valid) = "valid" => valid)
  BY DEF Verdict
<1> DEFINE v == Verdict(valid)
           p == audit.state.receipt > 0
<1> HIDE DEF v, p
<1>3. /\ v \in {"valid", "invalid"} /\ v = Verdict(valid) /\ p = (audit.state.receipt > 0)
      /\ audit' = [pc |-> v, keys |-> audit.keys, intact |-> audit.intact,
                   quiet |-> audit.quiet, pruned |-> p]
  BY <1>1, <1>2 DEF v, p
<1>4. AuditShape' /\ audit'.pc = v /\ audit'.intact = audit.intact /\ audit'.keys = audit.keys
      /\ audit'.quiet = audit.quiet /\ audit'.pruned = p
  BY <1>3 DEF AuditShape, Reading
<1> QED BY <1>2, <1>3, <1>4

(* A check of the first three statements passed.                           *)
LEMMA CheckPassed ==
  ASSUME AuditShape, audit.pc \in Reading, NEW pc \in Reading, audit' = [audit EXCEPT !.pc = pc]
  PROVE  /\ AuditShape' /\ audit'.pc = pc /\ audit'.state = audit.state /\ audit'.intact = audit.intact
         /\ audit'.quiet = audit.quiet /\ audit'.keys = audit.keys
<1>1. audit = [pc |-> audit.pc, keys |-> audit.keys, state |-> audit.state,
               intact |-> audit.intact, quiet |-> audit.quiet]
  BY DEF AuditShape
<1>2. audit' = [pc |-> pc, keys |-> audit.keys, state |-> audit.state,
                intact |-> audit.intact, quiet |-> audit.quiet]
  BY <1>1
<1> QED BY <1>2 DEF AuditShape, Reading

(* The state row, read before anything else.                               *)
LEMMA ReadStateKeepsVerdict ==
  ASSUME VerdictInv, AuditInv', NEW keys \in BOOLEAN, ReadState(keys)
  PROVE  VerdictInv'
<1>1. UNCHANGED db /\ audit' = [pc |-> "receipts", keys |-> keys, state |-> db.state,
                                intact |-> Intact(db), quiet |-> TRUE]
  BY DEF ReadState
<1>2. PICK i : i = Intact(db) /\ audit' = [pc |-> "receipts", keys |-> keys, state |-> db.state,
                                           intact |-> i, quiet |-> TRUE]
  BY <1>1
<1>3. /\ AuditShape' /\ audit'.pc = "receipts" /\ audit'.state = db.state /\ audit'.intact = i
  BY <1>2 DEF AuditShape, Reading
<1>4. StoreFormed(db) /\ Traced(db)
  BY DEF VerdictInv, AuditInv
<1>5. Intact(db) \/ Defective(db, db.state)
  BY <1>4, SoundIsIntact
<1>6. StateRead'
  <2>1. db.state.anchor \in Nat /\ db.state.head \in Nat /\ db.state.anchor <= db.state.head
    BY <1>4 DEF StoreFormed
  <2> QED BY <1>1, <1>3, <2>1 DEF StateRead
<1>7. audit'.intact \/ Defective(db', audit'.state)
  <2>1. CASE Intact(db)
    BY <1>2, <1>3, <2>1, Zenon
  <2>2. CASE Defective(db, db.state)
    BY <1>1, <1>3, <2>2
  <2> QED BY <1>5, <2>1, <2>2
<1>8. Traced(db')
  BY <1>1, <1>4
<1> QED BY <1>3, <1>6, <1>7, <1>8 DEF VerdictInv, Reading

(* The receipts and the stale rows, read second and third.                 *)
LEMMA ChecksKeepVerdict ==
  ASSUME VerdictInv, AuditInv', ReadReceipts \/ CountStaleLinks
  PROVE  VerdictInv'
<1>1. audit.pc \in Reading /\ UNCHANGED db
  BY DEF ReadReceipts, CountStaleLinks, Reading
<1>2. /\ AuditShape /\ Traced(db) /\ StateRead
      /\ audit.intact \/ Defective(db, audit.state)
  BY <1>1 DEF VerdictInv
<1>3. (\E pc \in Reading : audit' = [audit EXCEPT !.pc = pc]) \/ Answer(FALSE)
  BY DEF ReadReceipts, CountStaleLinks, Reading
<1>4. CASE Answer(FALSE)
  <2>1. AuditShape' /\ audit'.pc = "invalid"
    BY <1>4, AnswerGiven
  <2>2. Traced(db')
    BY <1>1, <1>2
  <2> QED BY <2>1, <2>2 DEF VerdictInv, Reading
<1>5. ASSUME NEW pc \in Reading, audit' = [audit EXCEPT !.pc = pc] PROVE VerdictInv'
  <2>1. AuditShape' /\ audit'.pc = pc /\ audit'.state = audit.state /\ audit'.intact = audit.intact
    BY <1>1, <1>2, <1>5, CheckPassed
  <2>2. StateRead' /\ Traced(db') /\ (audit'.intact \/ Defective(db', audit'.state))
    BY <1>1, <1>2, <2>1 DEF StateRead
  <2> QED BY <2>1, <2>2 DEF VerdictInv, Reading
<1> QED BY <1>3, <1>4, <1>5

(* The links, read fourth.                                                 *)
LEMMA ReadLinksKeepsVerdict ==
  ASSUME VerdictInv, AuditInv', ReadLinks
  PROVE  VerdictInv'
<1>1. /\ audit.pc = "links" /\ UNCHANGED db
      /\ audit' = [pc |-> "walk", keys |-> audit.keys, state |-> audit.state,
                   intact |-> audit.intact, quiet |-> audit.quiet, links |-> db.links,
                   expected |-> audit.state.anchor + 1, previous |-> audit.state.anchorHash]
  BY DEF ReadLinks
<1>2. /\ StoreFormed(db) /\ Traced(db) /\ StateRead
      /\ audit.intact \/ Defective(db, audit.state)
  BY <1>1 DEF VerdictInv, AuditInv, Reading
<1>3. /\ AuditShape' /\ audit'.pc = "walk" /\ audit'.state = audit.state /\ audit'.intact = audit.intact
      /\ audit'.links = db.links /\ audit'.expected = audit.state.anchor + 1
  BY <1>1 DEF AuditShape, Reading
<1>4. StateRead' /\ Traced(db')
  BY <1>1, <1>2, <1>3 DEF StateRead
<1>5. LinksRead'
  <2>1. \A n \in DOMAIN db.links : n \in Nat /\ n <= db.state.head
    BY <1>2 DEF StoreFormed
  <2> QED BY <1>1, <1>2, <1>3, <2>1 DEF LinksRead, StateRead
<1>6. audit'.intact \/ DefectAhead'
  <2>1. ASSUME Defective(db, audit.state) PROVE DefectAhead'
    <3>1. \A n \in audit.state.anchor + 1 .. audit.state.head : n >= audit.state.anchor + 1
      BY <1>2 DEF StateRead
    <3> QED BY <1>1, <1>3, <2>1, <3>1 DEF Defective, DefectAhead
  <2> QED BY <1>2, <1>3, <2>1
<1> QED BY <1>3, <1>4, <1>5, <1>6 DEF VerdictInv, Reading

(* One link and its event compared: a defect is found here or lies ahead.  *)
LEMMA WalkLinkKeepsVerdict ==
  ASSUME VerdictInv, AuditInv', WalkLink
  PROVE  VerdictInv'
<1>1. audit.pc = "walk" /\ UNCHANGED db
  BY DEF WalkLink
<1>2. /\ AuditShape /\ StoreFormed(db) /\ Traced(db) /\ StateRead /\ LinksRead
      /\ audit.intact \/ DefectAhead
  BY <1>1 DEF VerdictInv, AuditInv
<1>3. CASE Answer(FALSE)
  <2>1. AuditShape' /\ audit'.pc = "invalid"
    BY <1>3, AnswerGiven
  <2>2. Traced(db')
    BY <1>1, <1>2
  <2> QED BY <2>1, <2>2 DEF VerdictInv, Reading
<1>4. CASE /\ audit.expected \in DOMAIN audit.links
           /\ LinkAgrees(audit.links[audit.expected], audit.previous, db.events, audit.expected)
           /\ audit' = [audit EXCEPT !.expected = @ + 1,
                                     !.previous = audit.links[audit.expected].hash]
  <2>1. /\ AuditShape' /\ audit'.pc = "walk" /\ audit'.state = audit.state /\ audit'.intact = audit.intact
        /\ audit'.links = audit.links /\ audit'.expected = audit.expected + 1
    <3>1. audit = [pc |-> "walk", keys |-> audit.keys, state |-> audit.state, intact |-> audit.intact,
                   quiet |-> audit.quiet, links |-> audit.links, expected |-> audit.expected,
                   previous |-> audit.previous]
      BY <1>1, <1>2 DEF AuditShape
    <3>2. PICK keys, state, intact, quiet, links, expected, previous, h :
            /\ audit = [pc |-> "walk", keys |-> keys, state |-> state, intact |-> intact, quiet |-> quiet,
                        links |-> links, expected |-> expected, previous |-> previous]
            /\ state = audit.state /\ intact = audit.intact /\ links = audit.links
            /\ expected = audit.expected /\ h = audit.links[audit.expected].hash
      BY <3>1
    <3>3. audit' = [pc |-> "walk", keys |-> keys, state |-> state, intact |-> intact, quiet |-> quiet,
                    links |-> links, expected |-> expected + 1, previous |-> h]
      BY <1>4, <3>2
    <3> QED BY <3>2, <3>3 DEF AuditShape, Reading
  <2>2. StateRead' /\ LinksRead' /\ Traced(db')
    BY <1>1, <1>2, <2>1 DEF StateRead, LinksRead
  <2>3. WholeLink(audit.links, db.events, audit.expected)
    BY <1>4 DEF WholeLink, LinkAgrees
  <2>4. ASSUME DefectAhead PROVE DefectAhead'
    <3>1. CASE \E n \in audit.state.anchor + 1 .. audit.state.head :
                 n >= audit.expected /\ ~WholeLink(audit.links, db.events, n)
      <4>1. PICK n \in audit.state.anchor + 1 .. audit.state.head :
                   n >= audit.expected /\ ~WholeLink(audit.links, db.events, n)
        BY <3>1
      <4>2. n # audit.expected /\ n \in Int /\ audit.expected \in Nat
        BY <1>2, <2>3, <4>1 DEF LinksRead, StateRead
      <4>3. n >= audit.expected + 1
        BY <4>1, <4>2
      <4> QED BY <1>1, <2>1, <4>1, <4>3 DEF DefectAhead
    <3>2. CASE \E n \in DOMAIN db.events : n <= audit.state.anchor
      BY <1>1, <2>1, <3>2 DEF DefectAhead
    <3> QED BY <2>4, <3>1, <3>2 DEF DefectAhead
  <2>5. audit'.intact \/ DefectAhead'
    BY <1>2, <2>1, <2>4
  <2> QED BY <2>1, <2>2, <2>5 DEF VerdictInv, Reading
<1> QED BY <1>3, <1>4 DEF WalkLink

(* The head compared at last: then no defect is left to be found.          *)
LEMMA CompareHeadKeepsVerdict ==
  ASSUME VerdictInv, AuditInv', CompareHead
  PROVE  VerdictInv'
<1> DEFINE agrees == /\ DOMAIN db.events \subseteq DOMAIN db.links
                     /\ audit.expected - 1 = audit.state.head
                     /\ audit.previous = audit.state.headHash
<1>1. audit.pc = "walk" /\ UNCHANGED db /\ Answer(agrees) /\ agrees \in BOOLEAN
  BY DEF CompareHead
<1>2. /\ StoreFormed(db) /\ Traced(db) /\ StateRead /\ LinksRead
      /\ audit.intact \/ DefectAhead
  BY <1>1 DEF VerdictInv, AuditInv
<1>3. /\ AuditShape' /\ audit'.pc \in {"valid", "invalid"} /\ audit'.intact = audit.intact
      /\ audit'.pc = "valid" => agrees
  <2> HIDE DEF agrees
  <2> QED BY <1>1, AnswerGiven
<1>4. ASSUME agrees PROVE ~DefectAhead
  <2>1. \A n \in audit.state.anchor + 1 .. audit.state.head : ~(n >= audit.expected)
    BY <1>2, <1>4 DEF StateRead, LinksRead
  <2>2. \A n \in DOMAIN db.events : ~(n <= audit.state.anchor)
    <3>1. \A n \in DOMAIN db.links : n \in Nat /\ n > db.state.anchor
      BY <1>2 DEF StoreFormed
    <3>2. db.state.anchor \in Nat
      BY <1>2 DEF StoreFormed
    <3> QED BY <1>2, <1>4, <3>1, <3>2 DEF StateRead
  <2> QED BY <2>1, <2>2 DEF DefectAhead
<1>5. audit'.pc = "valid" => audit'.intact
  BY <1>2, <1>3, <1>4
<1>6. Traced(db')
  BY <1>1, <1>2
<1> QED BY <1>3, <1>5, <1>6 DEF VerdictInv, Reading

-----------------------------------------------------------------------------
(* Appends, prunings and faults: what is left of the store is as it was.   *)
LEMMA CommitsLater ==
  ASSUME AuditInv, Traced(db), NEW w \in Writers, WriterStep(w)
  PROVE  \/ UNCHANGED <<db, audit, faults>>
         \/ Traced(db') /\ Later(db, db') /\ (\E d : Commit(d)) /\ UNCHANGED faults
<1>1. StoreFormed(db)
  BY DEF AuditInv
<1>2. ASSUME Commit(Appended(db, "entry")) PROVE Traced(db') /\ Later(db, db')
  <2>1. db' = Appended(db, "entry")
    BY <1>2 DEF Commit
  <2> QED BY <1>1, <2>1, AppendedTraced, LaterAppended DEF Events
<1>3. CASE AppendEntry(w)
  BY <1>2, <1>3 DEF AppendEntry
<1>4. CASE \E c \in Cutoffs : RetainIntent(w, c)
  BY <1>2, <1>4 DEF RetainIntent
<1>5. CASE RetainCommit(w)
  <2>1. PICK c, p : c = retaining[w] /\ p = Pruned(db, c)
    OBVIOUS
  <2>2. Retainable(db, c) /\ db' = Appended(p, "pruned") /\ Commit(Appended(p, "pruned")) /\ UNCHANGED faults
    BY <1>5, <2>1 DEF RetainCommit, Commit
  <2>3. StoreFormed(p) /\ Traced(p) /\ Later(db, p)
    BY <1>1, <2>1, <2>2, PrunedWellFormed, PrunedTraced, LaterPruned
  <2>4. Traced(db') /\ Later(p, db') /\ StoreFormed(db')
    BY <2>2, <2>3, AppendedTraced, LaterAppended, AppendedWellFormed DEF Events
  <2>5. Later(db, db')
    <3>1. /\ db.state.head \in Nat /\ p.state.head \in Nat /\ db'.state.head \in Nat
          /\ db.state.anchor \in Nat /\ p.state.anchor \in Nat /\ db'.state.anchor \in Nat
          /\ db.state.head <= p.state.head /\ db.state.anchor <= p.state.anchor
          /\ p.state.head <= db'.state.head /\ p.state.anchor <= db'.state.anchor
      BY <1>1, <2>3, <2>4 DEF StoreFormed, Later
    <3>2. \A n \in DOMAIN db'.links \cup DOMAIN db'.events \cup DOMAIN db.events : n \in Nat
      BY <1>1, <2>4 DEF StoreFormed
    <3>3. \A n \in DOMAIN db'.links : n <= db.state.head => n \in DOMAIN db.links /\ db'.links[n] = db.links[n]
      BY <2>3, <2>4, <3>1, <3>2 DEF Later
    <3>4. ASSUME NEW n \in DOMAIN db'.events, n <= db.state.head
          PROVE  /\ n \in DOMAIN db.events
                 /\ \/ db'.events[n] = db.events[n]
                    \/ n \in DOMAIN db.links /\ db'.events[n] # db.links[n].payload
      <4>1. n <= p.state.head
        BY <3>1, <3>2, <3>4
      <4>2. /\ n \in DOMAIN p.events
            /\ db'.events[n] = p.events[n] \/ (n \in DOMAIN p.links /\ db'.events[n] # p.links[n].payload)
        BY <2>4, <4>1 DEF Later
      <4>3. /\ n \in DOMAIN db.events
            /\ p.events[n] = db.events[n] \/ (n \in DOMAIN db.links /\ p.events[n] # db.links[n].payload)
        BY <2>3, <3>4, <4>2 DEF Later
      <4>4. n \in DOMAIN p.links => n \in DOMAIN db.links /\ p.links[n] = db.links[n]
        BY <2>3, <3>4 DEF Later
      <4> QED BY <4>2, <4>3, <4>4
    <3>5. \A n \in DOMAIN db.events : n <= db.state.anchor => n \in DOMAIN db'.events
      BY <2>3, <2>4, <3>1, <3>2 DEF Later
    <3> QED BY <3>1, <3>3, <3>4, <3>5 DEF Later
  <2> QED BY <2>2, <2>4, <2>5
<1>6. CASE RetainBlocked(w)
  BY <1>2, <1>6 DEF RetainBlocked
<1>7. CASE WriterCrash(w)
  BY <1>7 DEF WriterCrash
<1> QED BY <1>3, <1>4, <1>5, <1>6, <1>7 DEF WriterStep

(* Every step of a writer, a verification or a fault preserves VerdictInv. *)
LEMMA VerdictInductive ==
  ASSUME VerdictInv, [AuditChainNext]_auditChainVars
  PROVE  VerdictInv'
<1>1. AuditInv' /\ AuditInv /\ Traced(db) /\ AuditShape
  BY AuditInductive DEF VerdictInv
<1>2. audit.pc \in {"idle", "receipts", "stale", "links", "walk", "valid", "invalid"} /\ StoreFormed(db)
  BY <1>1 DEF AuditInv
<1>3. ASSUME UNCHANGED <<db, audit>> PROVE VerdictInv'
  BY <1>1, <1>3 DEF VerdictInv, AuditShape, StateRead, LinksRead, DefectAhead
<1>4. ASSUME NEW w \in Writers, WriterStep(w) PROVE VerdictInv'
  <2>1. CASE UNCHANGED <<db, audit>>
    BY <1>3, <2>1
  <2>2. CASE Traced(db') /\ Later(db, db') /\ \E d : Commit(d)
    <3>1. AuditKept
      BY <1>1, <1>2, <2>2, CommitKeepsAudit
    <3> QED BY <1>1, <2>2, <3>1, WrittenKeepsVerdict
  <2> QED BY <1>1, <1>4, <2>1, <2>2, CommitsLater
<1>5. ASSUME Fault PROVE VerdictInv'
  <2>1. Later(db, db') /\ Traced(db')
    BY <1>1, <1>2, <1>5, LaterFault
  <2>2. AuditKept
    BY <1>1, <1>2, <1>5, CommitKeepsAudit DEF Fault
  <2> QED BY <1>1, <2>1, <2>2, WrittenKeepsVerdict
<1>6. ASSUME VerifyStep PROVE VerdictInv'
  BY <1>1, <1>6, ReadStateKeepsVerdict, ChecksKeepVerdict, ReadLinksKeepsVerdict,
     WalkLinkKeepsVerdict, CompareHeadKeepsVerdict DEF VerifyStep
<1>7. ASSUME UNCHANGED auditChainVars PROVE VerdictInv'
  BY <1>3, <1>7 DEF auditChainVars
<1> QED BY <1>4, <1>5, <1>6, <1>7 DEF AuditChainNext

(* The migration's links and receipts are traced.                          *)
LEMMA MigratedTraced ==
  ASSUME NEW n \in Nat
  PROVE  Traced(Migrated(n))
<1>1. PICK d : /\ d = Migrated(n) /\ d.receipts = <<>> /\ DOMAIN d.links = 1 .. n
               /\ \A k \in 1 .. n : d.links[k] = [previous |-> Legacy(k - 1), payload |-> "entry",
                                                  hash |-> Legacy(k)]
               /\ d.state = [anchor |-> 0, anchorHash |-> <<>>, head |-> n,
                             headHash |-> Legacy(n), receipt |-> 0]
  BY MigratedByColumn
<1>2. \A k \in Nat : /\ Legacy(k) \in Seq(Events) /\ Len(Legacy(k)) = k
                     /\ \A i \in 1 .. k : Legacy(k)[i] = "entry"
                     /\ Append(Legacy(k), "entry") = Legacy(k + 1)
  BY LegacyChain
<1>3. /\ d.state.anchor = 0 /\ d.state.anchorHash = <<>> /\ d.state.headHash = Legacy(n) /\ d.state.receipt = 0
      /\ \A k \in DOMAIN d.links : /\ d.links[k].previous = Legacy(k - 1) /\ d.links[k].hash = Legacy(k)
                                   /\ d.links[k].payload = "entry"
  <2>1. ASSUME NEW k \in DOMAIN d.links
        PROVE  /\ d.links[k].previous = Legacy(k - 1) /\ d.links[k].hash = Legacy(k)
               /\ d.links[k].payload = "entry"
    <3>1. d.links[k] = [previous |-> Legacy(k - 1), payload |-> "entry", hash |-> Legacy(k)]
      BY <1>1
    <3> QED BY <3>1
  <2>2. /\ d.state.anchor = 0 /\ d.state.anchorHash = <<>> /\ d.state.headHash = Legacy(n)
        /\ d.state.receipt = 0
    BY <1>1
  <2> QED BY <2>1, <2>2
<1>4. \A k \in 0 .. n : Commits(Legacy(k), k, Legacy(n))
  <2>1. ASSUME NEW k \in 0 .. n PROVE Commits(Legacy(k), k, Legacy(n))
    <3>1. k \in Nat /\ \A i \in 1 .. k : i \in 1 .. n
      OBVIOUS
    <3>2. /\ Legacy(k) \in Seq(Events) /\ Len(Legacy(k)) = k
          /\ \A i \in 1 .. k : Legacy(k)[i] = "entry" /\ Legacy(n)[i] = "entry"
      BY <1>2, <3>1
    <3> QED BY <3>2 DEF Commits
  <2> QED BY <2>1
<1>5. HistoryAgrees(d.receipts, d.state, TRUE)
  BY <1>1, <1>3 DEF HistoryAgrees
<1>6. Commits(d.state.anchorHash, d.state.anchor, d.state.headHash)
  <2>1. Legacy(0) = <<>>
    BY LegacyChain
  <2> QED BY <1>3, <1>4, <2>1
<1>7. ASSUME NEW k \in DOMAIN d.links
      PROVE  /\ Commits(d.links[k].previous, k - 1, d.state.headHash)
             /\ Commits(d.links[k].hash, k, d.state.headHash)
             /\ d.links[k].hash = Append(d.links[k].previous, d.links[k].payload)
  <2>1. k - 1 \in Nat /\ k - 1 \in 0 .. n /\ k \in 0 .. n /\ (k - 1) + 1 = k
    BY <1>1
  <2> QED BY <1>2, <1>3, <1>4, <2>1
<1> QED BY <1>1, <1>5, <1>6, <1>7 DEF Traced

(* The verdict is sound: a store that was not intact when its verification *)
(* began is not called valid, whatever other processes commit and whatever *)
(* the file loses between the statements (verifyIntegrity).                *)
THEOREM ValidOnlyIfIntact == AuditChainSpec => []VerdictSound
<1>1. AuditChainInit => VerdictInv
  <2> SUFFICES ASSUME AuditChainInit PROVE VerdictInv
    OBVIOUS
  <2>1. AuditInv /\ Traced(db)
    BY AuditInitially, MigratedTraced, AuditAssumption DEF AuditChainInit
  <2>2. audit = Idle /\ audit.pc = "idle"
    BY DEF AuditChainInit, Idle
  <2> QED BY <2>1, <2>2 DEF VerdictInv, AuditShape, Reading
<1>2. VerdictInv /\ [AuditChainNext]_auditChainVars => VerdictInv'
  BY VerdictInductive
<1>3. VerdictInv => VerdictSound
  BY DEF VerdictInv, VerdictSound
<1> QED BY <1>1, <1>2, <1>3, PTL DEF AuditChainSpec

-----------------------------------------------------------------------------
(* While nothing is written, a verification finds what Intact says.        *)
Quiet == faults = 0 /\ audit.quiet

WalkedSoFar ==
  /\ audit.links = db.links
  /\ audit.expected \in db.state.anchor + 1 .. db.state.head + 1
  /\ audit.previous = IF audit.expected = db.state.anchor + 1 THEN db.state.anchorHash
                      ELSE db.links[audit.expected - 1].hash

QuietInv ==
  /\ AuditInv /\ AuditShape
  /\ audit.pc \in Reading \cup {"walk"} /\ Quiet => audit.state = db.state
  /\ audit.pc = "walk" /\ Quiet => WalkedSoFar
  /\ QuietVerdictTrue

(* A commit makes a verification one that was disturbed.                   *)
LEMMA QuietWritten ==
  ASSUME QuietInv, AuditInv', NEW d, Commit(d), UNCHANGED faults
  PROVE  QuietInv'
<1>1. /\ AuditShape /\ audit.pc \in {"idle", "receipts", "stale", "links", "walk", "valid", "invalid"}
      /\ audit' = IF "quiet" \in DOMAIN audit THEN [audit EXCEPT !.quiet = FALSE] ELSE audit
  BY DEF QuietInv, AuditInv, Commit
<1>2. AuditShape' /\ audit'.pc = audit.pc
  BY <1>1, CommitKeepsAudit DEF AuditKept
<1>3. audit.pc # "idle" => "quiet" \in DOMAIN audit
  BY <1>1 DEF AuditShape, Reading
<1>4. audit.pc # "idle" => audit'.quiet = FALSE
  BY <1>1, <1>3
<1> QED BY <1>2, <1>4 DEF QuietInv, Quiet, QuietVerdictTrue, Reading

(* Read undisturbed, the receipts agree with the state row.                *)
LEMMA QuietReceipts ==
  ASSUME QuietInv, AuditInv', ReadReceipts
  PROVE  QuietInv'
<1>1. audit.pc = "receipts" /\ audit.pc \in Reading /\ UNCHANGED <<db, faults>> /\ AuditShape
  BY DEF ReadReceipts, QuietInv, Reading
<1>2. CASE audit' = [audit EXCEPT !.pc = "stale"]
  <2>1. /\ AuditShape' /\ audit'.pc = "stale" /\ audit'.state = audit.state /\ audit'.quiet = audit.quiet
    BY <1>1, <1>2, CheckPassed DEF Reading
  <2> QED BY <1>1, <2>1 DEF QuietInv, Quiet, QuietVerdictTrue, Reading
<1>3. CASE ~HistoryAgrees(db.receipts, audit.state, audit.keys) /\ Answer(FALSE)
  <2>1. /\ AuditShape' /\ audit'.pc = "invalid" /\ audit'.quiet = audit.quiet /\ audit'.keys = audit.keys
        /\ audit'.pruned = (audit.state.receipt > 0)
    BY <1>3, AnswerGiven
  <2>2. ASSUME Quiet PROVE ~audit.keys /\ audit.state.receipt > 0
    <3>1. audit.state = db.state /\ Intact(db) /\ StoreFormed(db)
      BY <1>1, <2>2 DEF QuietInv, Quiet, AuditInv, ChainIntact
    <3>2. HistoryAgrees(db.receipts, audit.state, TRUE)
      BY <3>1 DEF Intact
    <3>3. ~audit.keys /\ db.receipts # <<>>
      BY <1>3, <3>2 DEF HistoryAgrees
    <3>4. db.receipts \in Seq(Receipts) /\ audit.state.receipt = Len(db.receipts)
      BY <3>1 DEF StoreFormed
    <3>5. Len(db.receipts) > 0
      BY <3>3, <3>4, LenProperties, EmptySeq
    <3> QED BY <3>3, <3>4, <3>5
  <2>3. QuietVerdictTrue'
    <3>1. ASSUME Quiet' PROVE ~audit'.keys /\ audit'.pruned
      <4>1. Quiet
        BY <1>1, <2>1, <3>1 DEF Quiet
      <4> QED BY <2>1, <2>2, <4>1
    <3> QED BY <3>1 DEF QuietVerdictTrue, Quiet
  <2> QED BY <2>1, <2>3 DEF QuietInv, Reading
<1> QED BY <1>2, <1>3 DEF ReadReceipts

(* A verdict "invalid" is impossible where the store is as it should be.   *)
LEMMA QuietAnswer ==
  ASSUME QuietInv, AuditInv', UNCHANGED <<db, faults>>, audit.pc \in Reading \cup {"walk"},
         NEW valid \in BOOLEAN, Answer(valid), Quiet => valid
  PROVE  QuietInv'
<1>1. /\ AuditShape' /\ audit'.pc \in {"valid", "invalid"} /\ audit'.quiet = audit.quiet
  BY AnswerGiven
<1>2. valid => audit'.pc = "valid"
  BY DEF Answer, Verdict
<1>3. Quiet' => audit'.pc = "valid"
  BY <1>1, <1>2 DEF Quiet
<1> QED BY <1>1, <1>3 DEF QuietInv, QuietVerdictTrue, Quiet, Reading

(* What a quiet verification has before it.                                *)
LEMMA QuietStore ==
  ASSUME QuietInv, Quiet, audit.pc \in Reading \cup {"walk"}
  PROVE  /\ audit.state = db.state /\ Intact(db)
         /\ db.state.anchor \in Nat /\ db.state.head \in Nat /\ db.state.anchor <= db.state.head
BY DEF QuietInv, Quiet, AuditInv, ChainIntact, StoreFormed

(* Read undisturbed, no row is stale.                                      *)
LEMMA QuietStale ==
  ASSUME QuietInv, AuditInv', CountStaleLinks
  PROVE  QuietInv'
<1>1. audit.pc = "stale" /\ audit.pc \in Reading /\ UNCHANGED <<db, faults>> /\ AuditShape
  BY DEF CountStaleLinks, QuietInv, Reading
<1>2. CASE audit' = [audit EXCEPT !.pc = "links"]
  <2>1. /\ AuditShape' /\ audit'.pc = "links" /\ audit'.state = audit.state /\ audit'.quiet = audit.quiet
    BY <1>1, <1>2, CheckPassed DEF Reading
  <2> QED BY <1>1, <2>1 DEF QuietInv, Quiet, QuietVerdictTrue, Reading
<1>3. CASE ~(\A n \in DOMAIN db.links : n > audit.state.anchor) /\ Answer(FALSE)
  <2>1. ~Quiet
    <3> SUFFICES ASSUME Quiet PROVE FALSE
      OBVIOUS
    <3>1. audit.state = db.state /\ Intact(db) /\ db.state.anchor \in Nat /\ db.state.head \in Nat
      BY <1>1, QuietStore
    <3>2. DOMAIN db.links = db.state.anchor + 1 .. db.state.head
      BY <3>1 DEF Intact
    <3> QED BY <1>3, <3>1, <3>2
  <2> QED BY <1>1, <1>3, <2>1, QuietAnswer
<1> QED BY <1>2, <1>3 DEF CountStaleLinks

(* Read undisturbed, the links are the chain's.                            *)
LEMMA QuietLinks ==
  ASSUME QuietInv, AuditInv', ReadLinks
  PROVE  QuietInv'
<1>1. /\ audit.pc = "links" /\ audit.pc \in Reading /\ UNCHANGED <<db, faults>>
      /\ audit' = [pc |-> "walk", keys |-> audit.keys, state |-> audit.state,
                   intact |-> audit.intact, quiet |-> audit.quiet, links |-> db.links,
                   expected |-> audit.state.anchor + 1, previous |-> audit.state.anchorHash]
  BY DEF ReadLinks, Reading
<1>2. /\ AuditShape' /\ audit'.pc = "walk" /\ audit'.state = audit.state /\ audit'.quiet = audit.quiet
      /\ audit'.links = db.links /\ audit'.expected = audit.state.anchor + 1
      /\ audit'.previous = audit.state.anchorHash
  BY <1>1 DEF AuditShape, Reading
<1>3. ASSUME Quiet' PROVE audit'.state = db'.state /\ WalkedSoFar'
  <2>1. Quiet
    BY <1>1, <1>2, <1>3 DEF Quiet
  <2>2. audit.state = db.state /\ db.state.anchor \in Nat /\ db.state.head \in Nat
        /\ db.state.anchor <= db.state.head
    BY <1>1, <2>1, QuietStore
  <2>3. db.state.anchor + 1 \in db.state.anchor + 1 .. db.state.head + 1
    BY <2>2
  <2> QED BY <1>1, <1>2, <2>2, <2>3 DEF WalkedSoFar
<1> QED BY <1>2, <1>3 DEF QuietInv, QuietVerdictTrue

(* Each link of an undisturbed walk agrees with its event.                 *)
LEMMA QuietWalk ==
  ASSUME QuietInv, AuditInv', WalkLink
  PROVE  QuietInv'
<1>1. audit.pc = "walk" /\ UNCHANGED <<db, faults>> /\ AuditShape
  BY DEF WalkLink, QuietInv
<1>2. PICK n \in DOMAIN audit.links : n >= audit.expected
  BY DEF WalkLink
<1>3. ASSUME Quiet
      PROVE  /\ audit.expected \in db.state.anchor + 1 .. db.state.head /\ audit.links = db.links
             /\ audit.expected \in DOMAIN audit.links /\ audit.state = db.state
             /\ LinkAgrees(audit.links[audit.expected], audit.previous, db.events, audit.expected)
  <2>1. /\ WalkedSoFar /\ audit.state = db.state /\ Intact(db) /\ db.state.anchor \in Nat /\ db.state.head \in Nat
    BY <1>1, <1>3, QuietStore DEF QuietInv
  <2>2. /\ DOMAIN db.links = db.state.anchor + 1 .. db.state.head
        /\ \A k \in db.state.anchor + 1 .. db.state.head :
             LinkAgrees(db.links[k], IF k = db.state.anchor + 1 THEN db.state.anchorHash
                                     ELSE db.links[k - 1].hash, db.events, k)
    BY <2>1 DEF Intact
  <2>3. audit.expected \in db.state.anchor + 1 .. db.state.head
    BY <1>2, <2>1, <2>2 DEF WalkedSoFar
  <2>4. LinkAgrees(db.links[audit.expected], audit.previous, db.events, audit.expected)
    BY <2>1, <2>2, <2>3 DEF WalkedSoFar
  <2> QED BY <2>1, <2>2, <2>3, <2>4 DEF WalkedSoFar
<1>4. CASE /\ ~(/\ audit.expected \in DOMAIN audit.links
                /\ LinkAgrees(audit.links[audit.expected], audit.previous, db.events, audit.expected))
           /\ Answer(FALSE)
  <2>1. ~Quiet
    BY <1>3, <1>4
  <2> QED BY <1>1, <1>4, <2>1, QuietAnswer
<1>5. CASE audit' = [audit EXCEPT !.expected = @ + 1,
                                  !.previous = audit.links[audit.expected].hash]
  <2>1. audit = [pc |-> "walk", keys |-> audit.keys, state |-> audit.state, intact |-> audit.intact,
                 quiet |-> audit.quiet, links |-> audit.links, expected |-> audit.expected,
                 previous |-> audit.previous]
    BY <1>1 DEF AuditShape
  <2>2. PICK keys, state, intact, quiet, links, expected, previous, h :
          /\ audit = [pc |-> "walk", keys |-> keys, state |-> state, intact |-> intact, quiet |-> quiet,
                      links |-> links, expected |-> expected, previous |-> previous]
          /\ state = audit.state /\ quiet = audit.quiet /\ links = audit.links
          /\ expected = audit.expected /\ h = audit.links[audit.expected].hash
    BY <2>1
  <2>3. audit' = [pc |-> "walk", keys |-> keys, state |-> state, intact |-> intact, quiet |-> quiet,
                  links |-> links, expected |-> expected + 1, previous |-> h]
    BY <1>5, <2>2
  <2>4. /\ AuditShape' /\ audit'.pc = "walk" /\ audit'.state = audit.state /\ audit'.quiet = audit.quiet
        /\ audit'.links = audit.links /\ audit'.expected = audit.expected + 1
        /\ audit'.previous = audit.links[audit.expected].hash
    BY <2>2, <2>3 DEF AuditShape, Reading
  <2>5. ASSUME Quiet' PROVE audit'.state = db'.state /\ WalkedSoFar'
    <3>1. Quiet
      BY <1>1, <2>4, <2>5 DEF Quiet
    <3>2. db.state.anchor \in Nat /\ db.state.head \in Nat
      BY <1>1, <3>1, QuietStore
    <3>3. /\ audit.expected + 1 \in db.state.anchor + 1 .. db.state.head + 1
          /\ audit.expected + 1 # db.state.anchor + 1 /\ (audit.expected + 1) - 1 = audit.expected
      BY <1>3, <3>1, <3>2
    <3> QED BY <1>1, <1>3, <2>4, <3>1, <3>3 DEF WalkedSoFar
  <2> QED BY <2>4, <2>5 DEF QuietInv, QuietVerdictTrue
<1> QED BY <1>4, <1>5 DEF WalkLink

(* At its end an undisturbed walk has the head's hash.                     *)
LEMMA QuietHead ==
  ASSUME QuietInv, AuditInv', CompareHead
  PROVE  QuietInv'
<1> DEFINE agrees == /\ DOMAIN db.events \subseteq DOMAIN db.links
                     /\ audit.expected - 1 = audit.state.head
                     /\ audit.previous = audit.state.headHash
<1>1. audit.pc = "walk" /\ UNCHANGED <<db, faults>> /\ Answer(agrees) /\ agrees \in BOOLEAN
      /\ \A n \in DOMAIN audit.links : n < audit.expected
  BY DEF CompareHead
<1>2. ASSUME Quiet PROVE agrees
  <2>1. /\ WalkedSoFar /\ audit.state = db.state /\ Intact(db) /\ db.state.anchor \in Nat
        /\ db.state.head \in Nat /\ db.state.anchor <= db.state.head
    BY <1>1, <1>2, QuietStore DEF QuietInv
  <2> DEFINE span == db.state.anchor + 1 .. db.state.head
  <2>2. /\ DOMAIN db.links = span /\ DOMAIN db.events = span
        /\ db.state.headHash = IF span = {} THEN db.state.anchorHash ELSE db.links[db.state.head].hash
    BY <2>1 DEF Intact
  <2>3. audit.expected = db.state.head + 1
    <3>1. span = {} => db.state.head = db.state.anchor
      BY <2>1
    <3>2. span # {} => db.state.head \in span
      BY <2>1
    <3>3. audit.expected \in Nat /\ audit.expected >= db.state.anchor + 1 /\ audit.expected <= db.state.head + 1
      BY <2>1 DEF WalkedSoFar
    <3>4. \A n \in span : n < audit.expected
      BY <1>1, <2>1, <2>2 DEF WalkedSoFar
    <3> HIDE DEF span
    <3> QED BY <2>1, <3>1, <3>2, <3>3, <3>4
  <2>4. span = {} <=> audit.expected = db.state.anchor + 1
    BY <2>1, <2>3
  <2>5. audit.expected - 1 = db.state.head
    BY <2>1, <2>3
  <2>6. audit.previous = db.state.headHash
    BY <2>1, <2>2, <2>4, <2>5 DEF WalkedSoFar
  <2> QED BY <2>1, <2>2, <2>5, <2>6
<1>3. audit.pc \in Reading \cup {"walk"}
  BY <1>1
<1> HIDE DEF agrees
<1> QED BY <1>1, <1>2, <1>3, QuietAnswer

(* Every step of a writer, a verification or a fault preserves QuietInv.   *)
LEMMA QuietInductive ==
  ASSUME QuietInv, Traced(db), [AuditChainNext]_auditChainVars
  PROVE  QuietInv'
<1>1. AuditInv' /\ AuditInv
  BY AuditInductive DEF QuietInv
<1>2. ASSUME UNCHANGED <<db, audit, faults>> PROVE QuietInv'
  BY <1>1, <1>2 DEF QuietInv, Quiet, WalkedSoFar, QuietVerdictTrue, AuditShape
<1>3. ASSUME NEW w \in Writers, WriterStep(w) PROVE QuietInv'
  <2>1. UNCHANGED <<db, audit, faults>> \/ ((\E d : Commit(d)) /\ UNCHANGED faults)
    BY <1>1, <1>3, CommitsLater
  <2> QED BY <1>1, <1>2, <2>1, QuietWritten
<1>4. ASSUME Fault PROVE QuietInv'
  <2>1. faults' = faults + 1 /\ UNCHANGED audit /\ faults \in Nat
    BY <1>1, <1>4 DEF Fault, AuditInv
  <2>2. ~Quiet' /\ faults' # 0
    BY <2>1 DEF Quiet
  <2>3. AuditShape'
    BY <2>1 DEF QuietInv, AuditShape
  <2> QED BY <1>1, <2>2, <2>3 DEF QuietInv, QuietVerdictTrue
<1>5. ASSUME NEW keys \in BOOLEAN, ReadState(keys) PROVE QuietInv'
  <2>1. UNCHANGED <<db, faults>> /\ audit' = [pc |-> "receipts", keys |-> keys, state |-> db.state,
                                              intact |-> Intact(db), quiet |-> TRUE]
    BY <1>5 DEF ReadState
  <2>2. AuditShape' /\ audit'.pc = "receipts" /\ audit'.state = db.state
    BY <2>1 DEF AuditShape, Reading
  <2> QED BY <1>1, <2>1, <2>2 DEF QuietInv, QuietVerdictTrue
<1>6. ASSUME VerifyStep PROVE QuietInv'
  BY <1>1, <1>5, <1>6, QuietReceipts, QuietStale, QuietLinks, QuietWalk, QuietHead DEF VerifyStep
<1>7. ASSUME UNCHANGED auditChainVars PROVE QuietInv'
  BY <1>2, <1>7 DEF auditChainVars
<1> QED BY <1>3, <1>4, <1>6, <1>7 DEF AuditChainNext

(* No false alarm: undisturbed by writers and given the keys, a            *)
(* verification does not condemn a store without faults; without keys only *)
(* after a retention (verifyIntegrity, its receipts' signatures).          *)
THEOREM QuietVerdictsTrue == AuditChainSpec => []QuietVerdictTrue
<1>1. AuditChainInit => QuietInv /\ VerdictInv
  <2> SUFFICES ASSUME AuditChainInit PROVE QuietInv /\ VerdictInv
    OBVIOUS
  <2>1. AuditInv /\ Traced(db)
    BY AuditInitially, MigratedTraced, AuditAssumption DEF AuditChainInit
  <2>2. audit = Idle /\ audit.pc = "idle"
    BY DEF AuditChainInit, Idle
  <2> QED BY <2>1, <2>2 DEF QuietInv, VerdictInv, AuditShape, Reading, QuietVerdictTrue
<1>2. QuietInv /\ VerdictInv /\ [AuditChainNext]_auditChainVars => (QuietInv /\ VerdictInv)'
  BY VerdictInductive, QuietInductive DEF VerdictInv
<1>3. QuietInv => QuietVerdictTrue
  BY DEF QuietInv
<1> QED BY <1>1, <1>2, <1>3, PTL DEF AuditChainSpec

=============================================================================
